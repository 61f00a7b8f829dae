-------------------------- MODULE DfuSession_proofs --------------------------
(***************************************************************************)
(* First the device, for every flash layout, set of blocks and host: the   *)
(* types, and that the status it reports is that of the last command.      *)
(*                                                                         *)
(* Then the update of DfuSession, for every layout, image and host         *)
(* address: the invariant SessionInv is inductive, and with it an update   *)
(* that ends well has stored the image and no update touches a row outside *)
(* the sectors of the image.  The last part shows that DfuSession          *)
(* implements FirmwareUpdate: SessionInv says which blocks are in the      *)
(* flash at each point of an attempt, so each step of host and device is a *)
(* step of the update or leaves it alone.                                  *)
(***************************************************************************)
EXTENDS DfuSession, FlashLayout_proofs

-----------------------------------------------------------------------------
\* The device.

LEMMA TransferSizeType == TransferSize \in Nat \ {0}
  BY LayoutAssumption, RequestAssumption DEF TransferSize

\* Addition modulo the address space stays in the address space.
LEMMA AddressWrap == \A a \in Addresses, n \in Nat : (a + n) % AddrSpace \in Addresses
  BY LayoutAssumption, RequestAssumption DEF Addresses

LEMMA BufferType ==
  ASSUME TypeOK, NEW first \in FirstBytes, NEW word \in Addresses, NEW size
  PROVE  CommandData(first, word, size) \in [first : FirstBytes, word : Addresses]
  BY DEF TypeOK, CommandData

LEMMA ErasedType ==
  ASSUME flash \in [Rows -> Content], NEW s
  PROVE  Erased(flash, s) \in [Rows -> Content]
  BY DEF Erased, Content

LEMMA WrittenType ==
  ASSUME flash \in [Rows -> Content], NEW a, NEW b \in Content
  PROVE  Written(flash, a, b) \in [Rows -> Content]
  BY DEF Written, Programmed, Content

LEMMA EraseType ==
  ASSUME TypeOK, NEW a \in Addresses, NEW ok \in BOOLEAN, iap_erase(a, ok)
  PROVE  flash' \in [Rows -> Content] /\ prepared' \in SUBSET Sectors
<1>1. flash \in [Rows -> Content] /\ prepared \in SUBSET Sectors
  BY DEF TypeOK
<1>2. PrepareStatus(sector_by_address(a)) = "CMD_SUCCESS" => sector_by_address(a) \in Sectors
  BY DEF PrepareStatus
<1>3. Erased(flash, sector_by_address(a)) \in [Rows -> Content]
  BY <1>1, ErasedType
<1>4. QED
  BY <1>1, <1>2, <1>3 DEF iap_erase

LEMMA WriteType ==
  ASSUME TypeOK, NEW a \in Addresses, NEW b \in Content, NEW ok \in BOOLEAN,
         iap_write(a, b, ok)
  PROVE  flash' \in [Rows -> Content] /\ prepared' \in SUBSET Sectors
<1>1. flash \in [Rows -> Content] /\ prepared \in SUBSET Sectors
  BY DEF TypeOK
<1>2. PrepareStatus(sector_by_address(a)) = "CMD_SUCCESS" => sector_by_address(a) \in Sectors
  BY DEF PrepareStatus
<1>3. Written(flash, a, b) \in [Rows -> Content]
  BY <1>1, WrittenType
<1>4. QED
  BY <1>1, <1>2, <1>3 DEF iap_write

-----------------------------------------------------------------------------
(***************************************************************************)
(* TypeOK: every variable keeps the values the program gives it, the       *)
(* address pointer stays a uint32_t, and the ROM never holds a sector open *)
(* that the flash does not have.                                           *)
(***************************************************************************)
LEMMA RestartValues ==
  /\ NoData \in Replies
  /\ EmptyBuffer \in [first : FirstBytes, word : Addresses]
  /\ 0 \in Addresses
<1>1. {} \in SUBSET (Rows \X Content)
  OBVIOUS
<1>2. QED
  BY LayoutAssumption, RequestAssumption, <1>1 DEF NoData, Answer, Replies, EmptyBuffer, FirstBytes, GET_COMMANDS, Addresses

LEMMA ReplyType ==
  ASSUME TypeOK, NEW S \in SUBSET Rows
  PROVE  Answer("none", "none", {<<r, flash[r]>> : r \in S}) \in Replies
<1>1. {<<r, flash[r]>> : r \in S} \in SUBSET (Rows \X Content)
  BY DEF TypeOK
<1>2. QED
  BY <1>1 DEF NoData, Answer, Replies

LEMMA TornType ==
  ASSUME NEW old \in [Rows -> Content], NEW new \in [Rows -> Content],
         NEW rows, Torn(old, new, rows)
  PROVE  flash' \in [Rows -> Content]
  BY DEF Torn, Content

LEMMA RestartType ==
  ASSUME Restart, flash' \in [Rows -> Content]
  PROVE  TypeOK'
  BY RestartValues DEF Restart, TypeOK, States, Statuses, Outcomes

LEMMA SetAddressType ==
  ASSUME TypeOK, NEW word \in Addresses, NEW size, DnloadSetAddress(word, size)
  PROVE  TypeOK'
<1>1. CommandData(SET_ADDRESS, word, size) \in [first : FirstBytes, word : Addresses]
  BY BufferType DEF FirstBytes
<1>2. QED
  BY <1>1, RestartValues
     DEF DnloadSetAddress, Busy, TypeOK, States, Statuses, Outcomes

LEMMA EraseCommandType ==
  ASSUME TypeOK, NEW word \in Addresses, NEW size, DnloadErase(word, size)
  PROVE  TypeOK'
<1>1. CommandData(ERASE_SECTOR, word, size) \in [first : FirstBytes, word : Addresses]
  BY BufferType DEF FirstBytes
<1>2. PICK ok \in BOOLEAN :
         /\ iap_erase(CommandData(ERASE_SECTOR, word, size).word, ok)
         /\ Report(ok, "errERASE")
  BY DEF DnloadErase
<1>3. flash' \in [Rows -> Content] /\ prepared' \in SUBSET Sectors
  BY <1>1, <1>2, EraseType
<1>4. QED
  BY <1>1, <1>2, <1>3, RestartValues
     DEF DnloadErase, Report, Busy, TypeOK, States, Statuses, Outcomes

LEMMA CommandType == ASSUME TypeOK, DnloadCommand PROVE TypeOK'
<1>1. CASE DnloadGetCommands
  <2>1. CommandData(GET_COMMANDS, 0, 5) \in [first : FirstBytes, word : Addresses]
    BY LayoutAssumption, RequestAssumption, BufferType DEF FirstBytes, Addresses
  <2>2. QED
    BY <1>1, <2>1, RestartValues
       DEF DnloadGetCommands, Busy, TypeOK, States, Statuses, Outcomes
<1>2. ASSUME NEW word \in CommandWords, NEW size \in CommandSizes, NEW first \in FirstBytes,
             DnloadUnknown(first, word, size)
      PROVE  TypeOK'
  <2>1. CommandData(first, word, size) \in [first : FirstBytes, word : Addresses]
    BY LayoutAssumption, RequestAssumption, BufferType
  <2>2. QED
    BY <1>2, <2>1, RestartValues DEF DnloadUnknown, NoEffect, TypeOK, Outcomes
<1>3. QED
  BY LayoutAssumption, RequestAssumption, <1>1, <1>2, SetAddressType, EraseCommandType DEF DnloadCommand

LEMMA WriteBlockType ==
  ASSUME TypeOK, NEW b \in Content, NEW ok \in BOOLEAN, WriteBlock(b, ok),
         firmware_data' \in [first : FirstBytes, word : Addresses]
  PROVE  TypeOK'
<1>1. flash' \in [Rows -> Content] /\ prepared' \in SUBSET Sectors
  BY WriteType DEF WriteBlock, TypeOK
<1>2. CurrentAddr' \in Addresses
  BY AddressWrap, TransferSizeType DEF WriteBlock, TypeOK
<1>3. NoData \in Replies
  BY RestartValues
<1>4. QED
  BY <1>1, <1>2, <1>3
     DEF WriteBlock, TypeOK, Report, Busy, States, Statuses, Outcomes

LEMMA InitType == Init => TypeOK
  BY RestartValues DEF Init, TypeOK, States, Statuses, Outcomes, Content

LEMMA StepType == TypeOK /\ [Next]_vars => TypeOK'
<1> SUFFICES ASSUME TypeOK, [Next]_vars PROVE TypeOK'
  OBVIOUS
<1>0. /\ NoData \in Replies
      /\ EmptyBuffer \in [first : FirstBytes, word : Addresses]
      /\ \A b \in Blocks : /\ b \in Content
                           /\ Spells[b] \in [first : FirstBytes, word : Addresses]
      /\ Zeros \in Content
  BY LayoutAssumption, RequestAssumption, RestartValues DEF Content
<1>1. CASE DnloadCommand
  BY <1>1, CommandType
<1>2. CASE DnloadCommandTimeout \/ DnloadReserved
  BY <1>0, <1>2 DEF DnloadCommandTimeout, DnloadReserved, NoEffect, TypeOK, Outcomes
<1>3. ASSUME NEW b \in Blocks, DnloadBlock(b) PROVE TypeOK'
  BY <1>0, <1>3, WriteBlockType DEF DnloadBlock
<1>4. ASSUME NEW b \in Blocks, DnloadBlockTimeout(b) PROVE TypeOK'
  BY <1>0, <1>4 DEF DnloadBlockTimeout, NoEffect, TypeOK, Outcomes
<1>5. CASE DnloadEnd
  BY <1>0, <1>5 DEF DnloadEnd, TypeOK, States, Outcomes
<1>6. CASE DnloadEmpty
  BY <1>0, <1>6, WriteBlockType DEF DnloadEmpty
<1>7. ASSUME NEW n \in UploadSizes, Upload(n) PROVE TypeOK'
  <2>1. WindowRows(CurrentAddr, n) \in SUBSET Rows
    BY DEF WindowRows
  <2>2. reply' \in Replies
    BY <1>7, <2>1, ReplyType DEF Upload
  <2>3. CurrentAddr' \in Addresses
    BY LayoutAssumption, RequestAssumption, <1>7, AddressWrap DEF Upload, TypeOK
  <2>4. QED
    BY <1>7, <2>2, <2>3 DEF Upload, Busy, TypeOK, States, Statuses, Outcomes
<1>8. CASE GetStatus
  BY <1>8 DEF GetStatus, TypeOK, NoData, Answer, Replies, States
<1>9. CASE ClrStatus \/ Abort
  BY <1>0, <1>9 DEF ClrStatus, Abort, TypeOK, States, Statuses, Outcomes
<1>10. CASE GetState
  BY <1>10 DEF GetState, TypeOK, NoData, Answer, Replies
<1>11. CASE Detach
  BY <1>0, <1>11 DEF Detach, TypeOK
<1>12. CASE DetachReset \/ PowerLoss
  BY <1>12, RestartType DEF DetachReset, PowerLoss, TypeOK
<1>13. ASSUME NEW w \in CommandWords, PowerLossInErase(w) PROVE TypeOK'
  BY <1>13, TornType, ErasedType, RestartType DEF PowerLossInErase, TypeOK
<1>14. ASSUME NEW b \in Blocks, PowerLossInWrite(b) PROVE TypeOK'
  BY <1>0, <1>14, TornType, WrittenType, RestartType DEF PowerLossInWrite, TypeOK
<1>15. CASE UNCHANGED vars
  BY <1>15 DEF vars, TypeOK
<1>16. QED
  BY <1>1, <1>2, <1>3, <1>4, <1>5, <1>6, <1>7, <1>8, <1>9, <1>10, <1>11,
     <1>12, <1>13, <1>14, <1>15 DEF Next

\* Type correctness of the device, for every host and every flash.
THEOREM DeviceTypeOK == Spec => []TypeOK
<1>1. QED
  BY InitType, StepType, PTL DEF Spec
-----------------------------------------------------------------------------
(***************************************************************************)
(* The two status invariants.  OutcomeReported is not inductive alone: the *)
(* end of a download leaves DFU_Status as it is, and that it is OK there   *)
(* is known only from StatusStateAgree.                                    *)
(***************************************************************************)
Reports == StatusStateAgree /\ OutcomeReported

LEMMA ReportGood ==
  ASSUME NEW ok \in BOOLEAN, NEW error, error # "OK", Report(ok, error)
  PROVE  Reports'
  BY DEF Report, Busy, Reports, StatusStateAgree, OutcomeReported

LEMMA NoEffectGood ==
  ASSUME Reports, NEW what, what \notin {"done", "failed"}, NoEffect(what)
  PROVE  Reports'
  BY DEF NoEffect, Reports, StatusStateAgree, OutcomeReported

\* What GETSTATUS says and what the last DNLOAD or UPLOAD did agree, if it did
\* anything at all, on every flash and for every host.
THEOREM DeviceReports == Spec => [](StatusStateAgree /\ OutcomeReported)
<1>1. Init => Reports
  BY DEF Init, Reports, StatusStateAgree, OutcomeReported
<1>2. Reports /\ [Next]_vars => Reports'
  <2> SUFFICES ASSUME Reports, [Next]_vars PROVE Reports'
    OBVIOUS
  <2>1. CASE DnloadCommand
    <3>1. CASE DnloadGetCommands
      BY <3>1 DEF DnloadGetCommands, Busy, Reports, StatusStateAgree, OutcomeReported
    <3>2. ASSUME NEW word, NEW size, DnloadSetAddress(word, size) PROVE Reports'
      BY <3>2 DEF DnloadSetAddress, Busy, Reports, StatusStateAgree, OutcomeReported
    <3>3. ASSUME NEW word, NEW size, DnloadErase(word, size) PROVE Reports'
      BY <3>3, ReportGood DEF DnloadErase
    <3>4. ASSUME NEW first, NEW word, NEW size, DnloadUnknown(first, word, size)
          PROVE  Reports'
      BY <3>4, NoEffectGood DEF DnloadUnknown
    <3>5. QED
      BY <2>1, <3>1, <3>2, <3>3, <3>4 DEF DnloadCommand
  <2>2. CASE DnloadCommandTimeout \/ DnloadReserved
    BY <2>2, NoEffectGood DEF DnloadCommandTimeout, DnloadReserved
  <2>3. ASSUME NEW b, DnloadBlock(b) PROVE Reports'
    BY <2>3, ReportGood DEF DnloadBlock, WriteBlock
  <2>4. ASSUME NEW b, DnloadBlockTimeout(b) PROVE Reports'
    BY <2>4, NoEffectGood DEF DnloadBlockTimeout
  <2>5. CASE DnloadEnd
    BY <2>5 DEF DnloadEnd, Reports, StatusStateAgree, OutcomeReported
  <2>6. CASE DnloadEmpty
    BY <2>6, ReportGood DEF DnloadEmpty, WriteBlock
  <2>7. ASSUME NEW n, Upload(n) PROVE Reports'
    BY <2>7 DEF Upload, Busy, Reports, StatusStateAgree, OutcomeReported
  <2>8. CASE GetStatus
    BY <2>8 DEF GetStatus, Reports, StatusStateAgree, OutcomeReported
  <2>9. CASE ClrStatus \/ Abort
    BY <2>9 DEF ClrStatus, Abort, Reports, StatusStateAgree, OutcomeReported
  <2>10. CASE GetState \/ Detach \/ UNCHANGED vars
    BY <2>10 DEF GetState, Detach, vars, Reports, StatusStateAgree, OutcomeReported
  <2>11. ASSUME Restart PROVE Reports'
    BY <2>11 DEF Restart, Reports, StatusStateAgree, OutcomeReported
  <2>12. QED
    BY <2>1, <2>2, <2>3, <2>4, <2>5, <2>6, <2>7, <2>8, <2>9, <2>10, <2>11
       DEF Next, DetachReset, PowerLoss, PowerLossInErase, PowerLossInWrite
<1>3. Reports => StatusStateAgree /\ OutcomeReported
  BY DEF Reports
<1>4. QED
  BY <1>1, <1>2, <1>3, PTL DEF Spec

\* The half of it that a host relies on: a refused flash operation is seen by
\* whoever polls, until a later DNLOAD or UPLOAD is carried out or the host
\* clears or aborts.  It says nothing of a download that was missed or ignored:
\* that one keeps the status, and with it an error, of the command before.
THEOREM DeviceReportsOutcome == Spec => []OutcomeReported
<1>1. QED
  BY DeviceReports, PTL

-----------------------------------------------------------------------------
\* The update.

LEMMA ImageFacts ==
  /\ Len(Image) \in Nat \ {0}
  /\ \A k \in 1 .. Len(Image) : Image[k] \in Blocks
  /\ AppStart \in Nat
  /\ ImageEnd \in Nat /\ AppStart < ImageEnd
<1>1. SectorBase(FirstSector) \in Nat
  BY SessionAssumption, LayoutAssumption DEF SectorBase, Sectors, SmallBytes
<1>2. Len(Image) * TransferSize \in Nat \ {0}
  BY SessionAssumption, Sizes
<1>3. QED
  BY SessionAssumption, <1>1, <1>2 DEF ImageEnd

\* Every row of the flash has its address in the flash.
LEMMA RowInFlash == \A r \in Rows : RowAddr(r) \in Nat /\ RowAddr(r) < FlashSize
<1> USE LayoutAssumption, Sizes
<1> TAKE r \in Rows
<1>1. (FlashSize \div RowSize) * RowSize <= FlashSize
  BY Quotient
<1>2. FlashSize \div RowSize \in Nat
  BY Quotient
<1>3. (r + 1) * RowSize <= (FlashSize \div RowSize) * RowSize
  BY <1>2, Z3 DEF Rows
<1>4. QED
  BY <1>1, <1>2, <1>3 DEF Rows, RowAddr

\* A row belongs to one sector, the one sector_by_address gives.
LEMMA RowSector ==
  ASSUME NEW r \in Rows
  PROVE  /\ sector_by_address(RowAddr(r)) \in Sectors
         /\ \A s \in Sectors : r \in SectorRows(s) <=> s = sector_by_address(RowAddr(r))
  BY RowInFlash, SectorOfAddress, SectorUnique DEF SectorRows

LEMMA HostSectorFacts ==
  /\ FirstSector \in Nat /\ LastSector \in Nat /\ FirstSector <= LastSector
  /\ HostSectors \subseteq Sectors
  /\ \A s \in HostSectors : /\ SectorBase(s) \in Addresses
                            /\ sector_by_address(SectorBase(s)) = s
<1> USE LayoutAssumption, Sizes, ImageFacts
<1>1. LastSector \in Sectors /\ FirstSector \in Sectors
  BY SessionAssumption, SectorOfAddress DEF LastSector, FirstSector
<1>2. FirstSector <= LastSector
  BY SectorMonotonic DEF LastSector, FirstSector
<1>3. HostSectors \subseteq Sectors
  BY <1>1 DEF HostSectors, Sectors
<1>4. ASSUME NEW s \in Sectors
      PROVE  SectorBase(s) \in Addresses /\ sector_by_address(SectorBase(s)) = s
  <2>1. SectorBase(s) \in Nat
    BY DEF SectorBase, Sectors
  <2>2. InSector(SectorBase(s), s)
    BY <2>1 DEF InSector, SectorSize
  <2>3. QED
    BY <2>1, <2>2, SectorUnique, SessionAssumption DEF Addresses
<1>5. QED
  BY <1>1, <1>2, <1>3, <1>4 DEF Sectors

LEMMA BlockAddrFacts ==
  ASSUME NEW k \in 1 .. Len(Image)
  PROVE  /\ BlockAddr(k) \in Nat
         /\ AppStart <= BlockAddr(k)
         /\ BlockAddr(k) + TransferSize <= ImageEnd
         /\ BlockAddr(k + 1) = BlockAddr(k) + TransferSize
         /\ BlockAddr(k + 1) \in Addresses
<1> USE ImageFacts, Sizes
<1>1. (k - 1) * TransferSize \in Nat
  OBVIOUS
<1>2. k * TransferSize = (k - 1) * TransferSize + TransferSize
  BY Z3
<1>3. k * TransferSize <= Len(Image) * TransferSize
  BY Z3
<1>4. BlockAddr(k + 1) = AppStart + k * TransferSize
  <2>1. (k + 1) - 1 = k
    OBVIOUS
  <2>2. QED
    BY <2>1 DEF BlockAddr
<1>5. /\ BlockAddr(k) \in Nat
      /\ AppStart <= BlockAddr(k)
      /\ BlockAddr(k + 1) = BlockAddr(k) + TransferSize
  BY <1>1, <1>2, <1>4 DEF BlockAddr
<1>6. BlockAddr(k) + TransferSize <= ImageEnd
  <2>1. k * TransferSize \in Nat /\ Len(Image) * TransferSize \in Nat
    OBVIOUS
  <2>2. QED
    BY <1>3, <1>4, <1>5, <2>1 DEF ImageEnd
<1>7. ImageEnd < AddrSpace
  BY SessionAssumption, LayoutAssumption
<1>8. QED
  BY <1>5, <1>6, <1>7, LayoutAssumption DEF Addresses

\* The rows of the image lie in the sectors the host erases ...
LEMMA ImageRowsInHost ==
  ASSUME NEW k \in 1 .. Len(Image)
  PROVE  /\ ImageRows(k) \subseteq HostRows
         /\ \A r \in ImageRows(k) : sector_by_address(RowAddr(r)) \in HostSectors
<1> USE ImageFacts, BlockAddrFacts
<1>1. SUFFICES ASSUME NEW r \in ImageRows(k)
               PROVE  r \in HostRows /\ sector_by_address(RowAddr(r)) \in HostSectors
  OBVIOUS
<1>2. r \in Rows /\ BlockAddr(k) <= RowAddr(r) /\ RowAddr(r) < BlockAddr(k) + TransferSize
  BY DEF ImageRows, WindowRows
<1>3. RowAddr(r) \in Nat /\ AppStart <= RowAddr(r) /\ RowAddr(r) <= ImageEnd - 1
  BY <1>2, RowInFlash, Sizes
<1>4. FirstSector <= sector_by_address(RowAddr(r)) /\ sector_by_address(RowAddr(r)) <= LastSector
  BY <1>3, SectorMonotonic DEF FirstSector, LastSector
<1>5. sector_by_address(RowAddr(r)) \in Sectors
  BY <1>2, RowSector
<1>6. sector_by_address(RowAddr(r)) \in HostSectors
  BY <1>4, <1>5, HostSectorFacts DEF HostSectors, Sectors
<1>7. QED
  BY <1>2, <1>6, RowSector, HostSectorFacts DEF HostRows

\* ... and no two blocks share one.
LEMMA ImageRowsDisjoint ==
  ASSUME NEW j \in 1 .. Len(Image), NEW k \in 1 .. Len(Image), NEW r,
         r \in ImageRows(j), r \in ImageRows(k)
  PROVE  j = k
<1> USE ImageFacts, BlockAddrFacts, Sizes
<1>1. ASSUME NEW x \in 1 .. Len(Image), NEW y \in 1 .. Len(Image), x < y
      PROVE  BlockAddr(x) + TransferSize <= BlockAddr(y)
  <2>1. x * TransferSize <= (y - 1) * TransferSize
    BY <1>1, Z3
  <2>2. x * TransferSize = (x - 1) * TransferSize + TransferSize
    BY Z3
  <2>3. QED
    BY <2>1, <2>2 DEF BlockAddr
<1>2. /\ r \in Rows /\ RowAddr(r) \in Nat
      /\ BlockAddr(j) <= RowAddr(r) /\ RowAddr(r) < BlockAddr(j) + TransferSize
      /\ BlockAddr(k) <= RowAddr(r) /\ RowAddr(r) < BlockAddr(k) + TransferSize
  BY RowInFlash DEF ImageRows, WindowRows
<1>3. ~(j < k) /\ ~(k < j)
  BY <1>1, <1>2
<1>4. QED
  BY <1>3

-----------------------------------------------------------------------------
(***************************************************************************)
(* What the two flash operations do to the rows, in the terms of the host. *)
(***************************************************************************)
LEMMA EraseSector ==
  ASSUME TypeOK, NEW s \in HostSectors, NEW ok \in BOOLEAN, DnloadErase(SectorBase(s), 5),
         NEW t \in HostSectors
  PROVE  /\ DFU_State' = "dfuDNBUSY" => BlankSector(s)'
         /\ BlankSector(t) => BlankSector(t)'
         /\ \A r \in Rows \ HostRows : flash'[r] = flash[r]
<1>1. /\ sector_by_address(SectorBase(s)) = s
      /\ s \in Sectors
  BY HostSectorFacts
<1>2. CommandData(ERASE_SECTOR, SectorBase(s), 5).word = SectorBase(s)
  BY DEF CommandData
<1>3. \/ flash' = Erased(flash, s)
      \/ flash' = flash /\ DFU_State' = "dfuERROR"
  BY <1>1, <1>2 DEF DnloadErase, iap_erase, Report, PrepareStatus
<1>4. SectorRows(s) \subseteq HostRows /\ SectorRows(s) \subseteq Rows /\ SectorRows(t) \subseteq Rows
  BY DEF HostRows, SectorRows
<1>5. QED
  BY <1>3, <1>4 DEF Erased, BlankSector

LEMMA WriteImageBlock ==
  ASSUME TypeOK, NEW j \in 1 .. Len(Image), NEW b, NEW ok \in BOOLEAN,
         CurrentAddr = BlockAddr(j), WriteBlock(b, ok)
  PROVE  /\ CurrentAddr' = BlockAddr(j + 1)
         /\ DFU_State' # "dfuERROR" => flash' = Written(flash, BlockAddr(j), b)
         /\ DFU_State' = "dfuERROR" => flash' = flash
         /\ \A r \in Rows \ ImageRows(j) : flash'[r] = flash[r]
<1>1. CurrentAddr' = (BlockAddr(j) + TransferSize) % AddrSpace
  BY DEF WriteBlock
<1>2. BlockAddr(j + 1) \in Addresses /\ BlockAddr(j + 1) = BlockAddr(j) + TransferSize
  BY BlockAddrFacts
<1>3. CurrentAddr' = BlockAddr(j + 1)
  BY <1>1, <1>2, LayoutAssumption DEF Addresses
<1>4. /\ ok => DFU_State' # "dfuERROR" /\ flash' = Written(flash, BlockAddr(j), b)
      /\ ~ok => DFU_State' = "dfuERROR" /\ flash' = flash
  BY DEF WriteBlock, iap_write, Report, Busy
<1>5. \A r \in Rows \ ImageRows(j) : Written(flash, BlockAddr(j), b)[r] = flash[r]
  BY DEF Written, ImageRows
<1>6. QED
  BY <1>3, <1>4, <1>5

-----------------------------------------------------------------------------
(***************************************************************************)
(* Type correctness of a session step: the device's part.                  *)
(***************************************************************************)
LEMMA SessionDeviceType == SessionInv /\ [SessionNext]_sessionVars => TypeOK'
<1> SUFFICES ASSUME SessionInv, [SessionNext]_sessionVars PROVE TypeOK'
  OBVIOUS
<1>0. /\ TypeOK /\ sector \in HostSectors /\ sent \in 0 .. Len(Image)
      /\ flash \in [Rows -> Content]
      /\ Blocks \subseteq Content
  BY DEF SessionInv, SessionTypeOK, ProtocolInv, TypeOK, Content
<1>1. SectorBase(sector) \in Addresses /\ AppStart \in Addresses
  <2>1. FirstSector \in HostSectors
    BY HostSectorFacts DEF HostSectors
  <2>2. QED
    BY <1>0, <2>1, HostSectorFacts, SessionAssumption
<1>2. sent < Len(Image) => Image[sent + 1] \in Blocks
  BY <1>0, ImageFacts
<1>3. ASSUME [Next]_vars PROVE TypeOK'
  BY <1>0, <1>3, StepType
<1>4. CASE HostClear \/ HostEnd \/ HostPoll \/ HostLeave \/ HostRetry \/ Leave
           \/ UNCHANGED sessionVars
  BY <1>3, <1>4 DEF HostClear, HostEnd, HostPoll, HostLeave, HostRetry, Leave, sessionVars, Next
<1>5. CASE HostCommand
  BY <1>0, <1>1, <1>5, SetAddressType, EraseCommandType DEF HostCommand
<1>6. CASE HostBlock \/ HostBlockLate
  BY <1>2, <1>3, <1>6 DEF HostBlock, HostBlockLate, Next
<1>7. CASE HostCommandLate
  BY <1>3, <1>7 DEF HostCommandLate, Next
<1>8. CASE HostPowerLoss
  <2>1. CASE PowerLoss
    BY <1>3, <2>1 DEF Next
  <2>2. CASE PowerLossInErase(SectorBase(sector))
    BY <1>0, <2>2, TornType, ErasedType, RestartType DEF PowerLossInErase
  <2>3. CASE sent < Len(Image) /\ PowerLossInWrite(Image[sent + 1])
    BY <1>2, <1>3, <2>3 DEF Next
  <2>4. QED
    BY <1>8, <2>1, <2>2, <2>3 DEF HostPowerLoss
<1>9. QED
  BY <1>4, <1>5, <1>6, <1>7, <1>8 DEF SessionNext, HostRequest, Fault

LEMMA SessionTypeStep == SessionInv /\ [SessionNext]_sessionVars => SessionTypeOK'
<1> SUFFICES ASSUME SessionInv, [SessionNext]_sessionVars PROVE SessionTypeOK'
  OBVIOUS
<1>0. /\ phase \in Phases /\ poll \in Polls /\ missed \in BOOLEAN
      /\ sector \in HostSectors /\ sent \in 0 .. Len(Image) /\ faults \in 0 .. MaxFaults
      /\ phase = "write" /\ poll = "block" => sent < Len(Image)
      /\ phase # "write" => poll # "block"
      /\ Len(Image) \in Nat /\ MaxFaults \in Nat
  BY ImageFacts, SessionAssumption DEF SessionInv, SessionTypeOK, ProtocolInv
<1>1. /\ HostSectors \subseteq Sectors
      /\ FirstSector \in HostSectors
      /\ sector < LastSector => sector + 1 \in HostSectors
  BY <1>0, HostSectorFacts DEF HostSectors
<1>2. missed' \in BOOLEAN
  BY <1>0 DEF SessionNext, HostRequest, Fault, HostClear, HostCommand, HostBlock, HostEnd, HostPoll,
     HostLeave, HostRetry, Leave, HostCommandLate, HostBlockLate, HostPowerLoss, hostVars, sessionVars
<1>3. phase' \in Phases /\ poll' \in Polls /\ sector' \in HostSectors
      /\ sent' \in 0 .. Len(Image) /\ faults' \in 0 .. MaxFaults
  <2>1. CASE HostClear \/ HostCommand \/ HostBlock \/ HostEnd
    BY <1>0, <1>1, <2>1 DEF HostClear, HostCommand, HostBlock, HostEnd, Phases, Polls
  <2>2. CASE HostLeave \/ HostRetry \/ Leave \/ UNCHANGED sessionVars
    BY <1>0, <2>2 DEF HostLeave, HostRetry, Leave, hostVars, sessionVars, Phases, Polls
  <2>3. CASE Fault
    BY <1>0, <2>3 DEF Fault, HostCommandLate, HostBlockLate, HostPowerLoss, Phases, Polls
  <2>4. CASE HostPoll /\ PollReady
    BY <1>0, <1>1, <2>4 DEF HostPoll, PollReady, Proceed, Phases, Polls
  <2>5. CASE HostPoll /\ ~PollReady
    BY <1>0, <2>5 DEF HostPoll, PollBusy, PollFinished, PollSurprise, Phases, Polls
  <2>6. QED
    BY <2>1, <2>2, <2>3, <2>4, <2>5 DEF SessionNext, HostRequest
<1>4. QED
  BY <1>1, <1>2, <1>3, SessionDeviceType DEF SessionTypeOK

-----------------------------------------------------------------------------
(***************************************************************************)
(* The rest of the invariant, action by action.                            *)
(***************************************************************************)
Core == ProtocolInv /\ PointerInv /\ FlashInv

LEMMA ClearStep == SessionInv /\ HostClear => Core'
<1> SUFFICES ASSUME SessionInv, HostClear PROVE Core'
  OBVIOUS
<1>1. /\ phase' = "erase" /\ poll' = "none" /\ sent' = 0 /\ sector' = FirstSector
      /\ DFU_State' = "dfuIDLE" /\ ~need_detach'
  BY DEF HostClear, ClrStatus, Serving
<1>2. ProtocolInv' /\ PointerInv'
  BY <1>1, HostSectorFacts DEF ProtocolInv, PointerInv, HostSectors
<1>3. FlashInv'
  BY <1>1, HostSectorFacts DEF FlashInv, HostSectors, CommandDone
<1>4. QED
  BY <1>2, <1>3 DEF Core

LEMMA CommandStep == SessionInv /\ HostCommand => Core'
<1> SUFFICES ASSUME SessionInv, HostCommand PROVE Core'
  OBVIOUS
<1>0. TypeOK /\ ProtocolInv /\ PointerInv /\ FlashInv
  BY DEF SessionInv, SessionTypeOK
<1>1. poll' = "first" /\ UNCHANGED <<phase, sector, sent, missed>>
  BY DEF HostCommand
<1>2. CASE phase = "erase"
  <2>1. ~need_detach /\ DnloadErase(SectorBase(sector), 5) /\ sector \in HostSectors
    BY <1>0, <1>2 DEF HostCommand, Serving, ProtocolInv
  <2>2. ProtocolInv' /\ PointerInv'
    BY <1>0, <1>1, <1>2, <2>1 DEF DnloadErase, ProtocolInv, PointerInv
  <2>3. /\ DFU_State' = "dfuDNBUSY" => BlankSector(sector)'
        /\ \A t \in HostSectors : BlankSector(t) => BlankSector(t)'
    BY <1>0, <1>1, <2>1, EraseSector
  <2>4. FlashInv'
    BY <1>0, <1>1, <1>2, <2>3 DEF FlashInv, CommandDone
  <2>5. QED
    BY <2>2, <2>4 DEF Core
<1>3. CASE phase = "address"
  <2>1. ~need_detach /\ DnloadSetAddress(AppStart, 5)
    BY <1>3 DEF HostCommand, Serving
  <2>2. CurrentAddr' = AppStart /\ flash' = flash /\ ~need_detach'
    BY <2>1 DEF DnloadSetAddress, CommandData
  <2>3. ProtocolInv' /\ PointerInv'
    BY <1>0, <1>1, <1>3, <2>2 DEF ProtocolInv, PointerInv
  <2>4. FlashInv'
    BY <1>0, <1>1, <1>3, <2>2 DEF FlashInv, BlankSector
  <2>5. QED
    BY <2>3, <2>4 DEF Core
<1>4. QED
  BY <1>2, <1>3 DEF HostCommand

LEMMA BlockStep == SessionInv /\ HostBlock => Core'
<1> SUFFICES ASSUME SessionInv, HostBlock PROVE Core'
  OBVIOUS
<1>0. /\ TypeOK /\ ProtocolInv /\ PointerInv /\ FlashInv
      /\ sent \in Nat /\ Len(Image) \in Nat
  BY ImageFacts DEF SessionInv, SessionTypeOK
<1>1. /\ phase = "write" /\ poll = "none" /\ sent < Len(Image)
      /\ poll' = "block" /\ UNCHANGED <<phase, sector, sent, missed>>
  BY DEF HostBlock
<1>2. ~need_detach /\ ~need_detach'
  BY DEF HostBlock, DnloadBlock, WriteBlock, Serving
<1>3. PICK ok \in BOOLEAN : WriteBlock(Image[sent + 1], ok)
  BY DEF HostBlock, DnloadBlock
<1>4. PICK j \in 0 .. sent : CurrentAddr = BlockAddr(j + 1) /\ (missed \/ j = sent)
  BY <1>0, <1>1 DEF PointerInv, Taken
<1>5. j + 1 \in 1 .. Len(Image)
  BY <1>0, <1>1
<1>6. /\ CurrentAddr' = BlockAddr(j + 2)
      /\ DFU_State' # "dfuERROR" => flash' = Written(flash, BlockAddr(j + 1), Image[sent + 1])
      /\ \A r \in Rows \ ImageRows(j + 1) : flash'[r] = flash[r]
  <2>1. (j + 1) + 1 = j + 2
    BY <1>0
  <2>2. QED
    BY <1>0, <1>3, <1>4, <1>5, <2>1, WriteImageBlock
<1>7. ProtocolInv'
  BY <1>0, <1>1, <1>2 DEF ProtocolInv
<1>8. PointerInv'
  <2>1. j + 1 \in 0 .. sent + 1 /\ (j + 1) + 1 = j + 2 /\ (missed \/ j + 1 = sent + 1)
    BY <1>0, <1>4
  <2>2. CurrentAddr' = BlockAddr((j + 1) + 1)
    BY <1>6, <2>1
  <2>3. Taken' = sent + 1
    BY <1>1 DEF Taken
  <2>4. \E i \in 0 .. Taken' : CurrentAddr' = BlockAddr(i + 1) /\ (missed' \/ i = Taken')
    BY <1>1, <2>1, <2>2, <2>3
  <2>5. QED
    BY <1>1, <2>4 DEF PointerInv
<1>9. FlashInv'
  <2>1. SUFFICES ASSUME ~missed, NEW k \in 1 .. Len(Image)
                 PROVE  /\ k <= sent \/ (k = sent + 1 /\ DFU_State' # "dfuERROR") => Stored(k)'
                        /\ k > sent + 1 => \A r \in ImageRows(k) : flash'[r] = Blank
    BY <1>1 DEF FlashInv, Taken
  <2>2. j = sent
    BY <1>4, <2>1
  <2>3. /\ k <= sent => Stored(k)
        /\ k > sent => \A r \in ImageRows(k) : flash[r] = Blank
    BY <1>0, <1>1, <2>1 DEF FlashInv, Taken
  <2>4. ImageRows(k) \subseteq Rows
    BY DEF ImageRows, WindowRows
  <2>5. CASE k = sent + 1
    <3>1. \A r \in ImageRows(k) :
             Written(flash, BlockAddr(k), Image[k])[r] = Programmed(flash[r], Image[k])
      BY <2>4 DEF Written, ImageRows
    <3>2. \A r \in ImageRows(k) : flash[r] = Blank
      BY <1>0, <2>3, <2>5
    <3>3. QED
      BY <1>0, <1>6, <2>2, <2>5, <3>1, <3>2 DEF Stored, Programmed
  <2>6. CASE k # sent + 1
    <3>1. \A r \in ImageRows(k) : r \notin ImageRows(j + 1)
      BY <1>5, <2>2, <2>6, ImageRowsDisjoint
    <3>2. \A r \in ImageRows(k) : flash'[r] = flash[r]
      BY <1>6, <2>4, <3>1
    <3>3. QED
      BY <1>0, <2>3, <2>6, <3>2 DEF Stored
  <2>7. QED
    BY <2>5, <2>6
<1>10. QED
  BY <1>7, <1>8, <1>9 DEF Core

\* The empty download finds the device in dfuDNLOAD_IDLE: it ends the session
\* and writes nothing.
LEMMA EndStep == SessionInv /\ HostEnd => Core' /\ flash' = flash
<1> SUFFICES ASSUME SessionInv, HostEnd PROVE Core' /\ flash' = flash
  OBVIOUS
<1>0. ProtocolInv /\ PointerInv /\ FlashInv
  BY DEF SessionInv
<1>1. /\ phase = "write" /\ poll = "none" /\ sent = Len(Image) /\ phase' = "finish"
      /\ UNCHANGED <<sector, sent, poll, missed>>
  BY DEF HostEnd
<1>2. DFU_State = "dfuDNLOAD_IDLE"
  BY <1>0, <1>1 DEF ProtocolInv
<1>3. flash' = flash /\ ~need_detach'
  BY <1>2 DEF HostEnd, DnloadEnd, DnloadEmpty, Serving
<1>4. ProtocolInv' /\ PointerInv'
  BY <1>0, <1>1, <1>3 DEF ProtocolInv, PointerInv
<1>5. FlashInv'
  BY <1>0, <1>1, <1>3, ImageFacts DEF FlashInv, Stored
<1>6. QED
  BY <1>3, <1>4, <1>5 DEF Core

LEMMA LateStep ==
  SessionInv /\ (HostCommandLate \/ HostBlockLate) => Core' /\ flash' = flash
<1> SUFFICES ASSUME SessionInv, HostCommandLate \/ HostBlockLate PROVE Core' /\ flash' = flash
  OBVIOUS
<1>0. ProtocolInv /\ PointerInv /\ FlashInv /\ sent \in Nat
  BY ImageFacts DEF SessionInv, SessionTypeOK
<1>1. UNCHANGED <<phase, sector, sent, DFU_State, CurrentAddr, flash>> /\ ~need_detach'
  BY DEF HostCommandLate, HostBlockLate, DnloadCommandTimeout, DnloadBlockTimeout, NoEffect, Serving
<1>2. CASE HostCommandLate
  <2>1. phase \in {"erase", "address"} /\ poll = "none" /\ poll' = "first" /\ missed' = missed
    BY <1>2 DEF HostCommandLate
  <2>2. DFU_State # "dfuDNBUSY"
    BY <1>0, <2>1 DEF ProtocolInv
  <2>3. ProtocolInv' /\ PointerInv'
    BY <1>0, <1>1, <2>1, <2>2 DEF ProtocolInv, PointerInv, CommandDone
  <2>4. FlashInv'
    BY <1>0, <1>1, <2>1, <2>2 DEF FlashInv, CommandDone, BlankSector
  <2>5. QED
    BY <1>1, <2>3, <2>4 DEF Core
<1>3. CASE HostBlockLate
  <2>1. phase = "write" /\ poll = "none" /\ sent < Len(Image) /\ poll' = "block" /\ missed'
    BY <1>3 DEF HostBlockLate
  <2>2. Taken = sent /\ Taken' = sent + 1
    BY <1>1, <2>1 DEF Taken
  <2>3. PICK j \in 0 .. sent : CurrentAddr = BlockAddr(j + 1)
    BY <1>0, <2>1, <2>2 DEF PointerInv
  <2>4. j \in 0 .. Taken' /\ CurrentAddr' = BlockAddr(j + 1)
    BY <1>0, <1>1, <2>2, <2>3
  <2>5. ProtocolInv' /\ PointerInv'
    BY <1>0, <1>1, <2>1, <2>4 DEF ProtocolInv, PointerInv
  <2>6. FlashInv'
    BY <1>1, <2>1 DEF FlashInv
  <2>7. QED
    BY <1>1, <2>5, <2>6 DEF Core
<1>4. QED
  BY <1>2, <1>3

LEMMA PollStep == SessionInv /\ HostPoll => Core'
<1> SUFFICES ASSUME SessionInv, HostPoll PROVE Core'
  OBVIOUS
<1>0. /\ ProtocolInv /\ PointerInv /\ FlashInv
      /\ sent \in Nat /\ Len(Image) \in Nat /\ sector \in Nat
      /\ FirstSector \in Nat /\ LastSector \in Nat
  BY ImageFacts, HostSectorFacts DEF SessionInv, SessionTypeOK, ProtocolInv, HostSectors
<1>1. /\ UNCHANGED <<CurrentAddr, flash, missed>> /\ ~need_detach'
      /\ reply' = Answer(DFU_Status, DFU_State, {})
      /\ DFU_State' = IF DFU_State = "dfuDNBUSY" THEN "dfuDNLOAD_IDLE" ELSE DFU_State
  BY DEF HostPoll, GetStatus, Serving
<1>2. \A st, sa : Answered(st, sa) <=> DFU_Status = st /\ DFU_State = sa
  BY <1>1 DEF Answered, Answer
<1>3. CASE PollBusy
  <2>1. /\ DFU_State = "dfuDNBUSY" /\ DFU_State' = "dfuDNLOAD_IDLE"
        /\ poll \in {"first", "busy", "block"}
        /\ poll' = IF poll = "first" THEN "busy" ELSE poll
        /\ UNCHANGED <<phase, sector, sent>>
    BY <1>1, <1>2, <1>3 DEF PollBusy
  <2>2. ProtocolInv'
    BY <1>0, <1>1, <2>1 DEF ProtocolInv
  <2>3. PointerInv'
    BY <1>0, <1>1, <2>1 DEF PointerInv, CommandDone, Taken
  <2>4. FlashInv'
    BY <1>0, <1>1, <2>1 DEF FlashInv, CommandDone, Taken, Stored, BlankSector
  <2>5. QED
    BY <2>2, <2>3, <2>4 DEF Core
<1>4. CASE PollReady /\ poll = "block"
  <2>1. /\ DFU_State = "dfuDNLOAD_IDLE" /\ DFU_State' = DFU_State
        /\ poll' = "none" /\ sent' = sent + 1 /\ UNCHANGED <<phase, sector>>
    BY <1>1, <1>2, <1>4 DEF PollReady
  <2>2. phase = "write" /\ Taken' = Taken
    BY <1>0, <1>4, <2>1 DEF ProtocolInv, Taken
  <2>3. ProtocolInv' /\ PointerInv'
    BY <1>0, <1>1, <2>1, <2>2 DEF ProtocolInv, PointerInv
  <2>4. FlashInv'
    BY <1>0, <1>1, <1>4, <2>1, <2>2 DEF FlashInv, Taken, Stored
  <2>5. QED
    BY <2>3, <2>4 DEF Core
<1>5. CASE PollReady /\ poll = "busy"
  <2>1. /\ DFU_State = "dfuDNLOAD_IDLE" /\ DFU_State' = DFU_State
        /\ poll' = "none" /\ Proceed
    BY <1>1, <1>2, <1>5 DEF PollReady
  <2>2. sent' = 0 /\ sent = 0 /\ phase \in {"erase", "address"}
    BY <1>0, <2>1 DEF ProtocolInv, Proceed
  <2>3. ProtocolInv'
    BY <1>0, <1>1, <2>1, <2>2 DEF ProtocolInv, Proceed, HostSectors
  <2>4. PointerInv'
    <3>1. Taken' = 0
      BY <2>1, <2>2 DEF Taken
    <3>2. BlockAddr(0 + 1) = AppStart
      BY ImageFacts, Sizes DEF BlockAddr
    <3>3. CASE phase' = "write"
      <4>1. CurrentAddr' = AppStart
        BY <1>0, <1>1, <1>5, <2>1, <2>2, <3>3 DEF PointerInv, CommandDone, Proceed
      <4>2. \E i \in 0 .. Taken' : CurrentAddr' = BlockAddr(i + 1) /\ (missed' \/ i = Taken')
        BY <3>1, <3>2, <4>1
      <4>3. QED
        BY <3>3, <4>2 DEF PointerInv
    <3>4. CASE phase' # "write"
      BY <2>1, <3>4 DEF PointerInv, CommandDone
    <3>5. QED
      BY <3>3, <3>4
  <2>5. FlashInv'
    <3>1. CASE phase = "erase"
      BY <1>0, <1>1, <1>5, <2>1, <3>1 DEF FlashInv, CommandDone, Proceed, BlankSector, HostSectors
    <3>2. CASE phase = "address"
      <4>1. \A k \in 1 .. Len(Image) : \A r \in ImageRows(k) : flash[r] = Blank
        <5>1. SUFFICES ASSUME NEW k \in 1 .. Len(Image), NEW r \in ImageRows(k)
                       PROVE  flash[r] = Blank
          OBVIOUS
        <5>2. r \in Rows /\ sector_by_address(RowAddr(r)) \in HostSectors
          BY ImageRowsInHost DEF ImageRows, WindowRows
        <5>3. r \in SectorRows(sector_by_address(RowAddr(r)))
          BY <5>2, RowSector
        <5>4. QED
          BY <1>0, <3>2, <5>2, <5>3 DEF FlashInv, BlankSector
      <4>2. phase' = "write" /\ Taken' = 0 /\ sent' = 0
        BY <2>1, <2>2, <3>2 DEF Proceed, Taken
      <4>3. QED
        BY <1>1, <4>1, <4>2 DEF FlashInv
    <3>3. QED
      BY <2>2, <3>1, <3>2
  <2>6. QED
    BY <2>3, <2>4, <2>5 DEF Core
<1>6. CASE PollFinished
  <2>1. phase = "finish" /\ phase' = "done" /\ UNCHANGED <<sector, sent, poll>>
    BY <1>6 DEF PollFinished
  <2>2. QED
    BY <1>0, <1>1, <2>1 DEF Core, ProtocolInv, PointerInv, FlashInv, Stored
<1>7. CASE PollSurprise
  <2>1. phase' = "failed" /\ poll' = "none" /\ UNCHANGED <<sector, sent>>
    BY <1>7 DEF PollSurprise
  <2>2. QED
    BY <1>0, <1>1, <2>1 DEF Core, ProtocolInv, PointerInv, FlashInv
<1>8. QED
  BY <1>3, <1>4, <1>5, <1>6, <1>7 DEF HostPoll, PollReady

LEMMA EndingStep ==
  SessionInv /\ (HostLeave \/ HostRetry \/ Leave \/ UNCHANGED sessionVars)
    => Core' /\ flash' = flash
<1> SUFFICES ASSUME SessionInv, HostLeave \/ HostRetry \/ Leave \/ UNCHANGED sessionVars
             PROVE  Core' /\ flash' = flash
  OBVIOUS
<1>0. ProtocolInv /\ PointerInv /\ FlashInv
  BY DEF SessionInv
<1>1. CASE UNCHANGED sessionVars
  BY <1>0, <1>1 DEF sessionVars, vars, hostVars, Core, ProtocolInv, PointerInv, FlashInv,
     CommandDone, Taken, Stored, BlankSector
<1>2. CASE HostRetry
  BY <1>0, <1>2 DEF HostRetry, vars, Core, ProtocolInv, PointerInv, FlashInv
<1>3. CASE HostLeave
  BY <1>0, <1>3 DEF HostLeave, Detach, Core, ProtocolInv, PointerInv, FlashInv, Stored
<1>4. CASE Leave
  <2>1. phase = "left" /\ flash' = flash /\ ~need_detach' /\ UNCHANGED hostVars
    BY <1>0, <1>4 DEF Leave, DetachReset, Restart, ProtocolInv
  <2>2. QED
    BY <1>0, <2>1 DEF hostVars, Core, ProtocolInv, PointerInv, FlashInv, Stored
<1>5. QED
  BY <1>1, <1>2, <1>3, <1>4

LEMMA PowerLossStep == SessionInv /\ HostPowerLoss => Core'
<1> SUFFICES ASSUME SessionInv, HostPowerLoss PROVE Core'
  OBVIOUS
<1>0. ProtocolInv /\ FlashInv
  BY DEF SessionInv
<1>1. /\ phase' = IF phase = "left" THEN "left" ELSE "failed"
      /\ poll' = "none" /\ UNCHANGED <<sector, sent, missed>> /\ sector \in HostSectors
  BY <1>0 DEF HostPowerLoss, ProtocolInv
<1>2. ~need_detach'
  BY DEF HostPowerLoss, PowerLoss, PowerLossInErase, PowerLossInWrite, Restart
<1>3. phase = "left" => flash' = flash
  BY DEF HostPowerLoss, PowerLoss
<1>4. QED
  BY <1>0, <1>1, <1>2, <1>3 DEF Core, ProtocolInv, PointerInv, FlashInv, Stored

LEMMA SessionStep == SessionInv /\ [SessionNext]_sessionVars => SessionInv'
<1> SUFFICES ASSUME SessionInv, [SessionNext]_sessionVars PROVE SessionInv'
  OBVIOUS
<1>1. Core'
  BY ClearStep, CommandStep, BlockStep, EndStep, LateStep, PollStep, EndingStep, PowerLossStep
     DEF SessionNext, HostRequest, Fault
<1>2. QED
  BY <1>1, SessionTypeStep DEF SessionInv, Core

LEMMA SessionStart == SessionInit => SessionInv
<1> SUFFICES ASSUME SessionInit PROVE SessionInv
  OBVIOUS
<1>1. SessionTypeOK
  <2>1. FirstSector \in Sectors /\ 0 \in 0 .. Len(Image) /\ 0 \in 0 .. MaxFaults
    BY ImageFacts, SessionAssumption
  <2>2. TypeOK
    BY InitType DEF SessionInit
  <2>3. QED
    BY <2>1, <2>2 DEF SessionInit, SessionTypeOK, Phases, Polls
<1>2. ProtocolInv /\ PointerInv /\ FlashInv
  BY HostSectorFacts DEF SessionInit, Init, ProtocolInv, PointerInv, FlashInv, HostSectors
<1>3. QED
  BY <1>1, <1>2 DEF SessionInv

-----------------------------------------------------------------------------
(***************************************************************************)
(* The invariant, for every layout, image, host address and number of      *)
(* faults.                                                                 *)
(***************************************************************************)
THEOREM SessionInvariant == SessionSpec => []SessionInv
<1>1. QED
  BY SessionStart, SessionStep, PTL DEF SessionSpec

(***************************************************************************)
(* An update that the host saw end well, none of whose blocks was lost on  *)
(* the way, is in the flash, row by row.                                   *)
(***************************************************************************)
THEOREM SessionDoneMeansImage == SessionSpec => []DoneMeansImage
<1>1. SessionInv => DoneMeansImage
  BY DEF SessionInv, FlashInv, DoneMeansImage
<1>2. QED
  BY <1>1, SessionInvariant, PTL

-----------------------------------------------------------------------------
(***************************************************************************)
(* The rows outside the sectors of the image.                              *)
(***************************************************************************)
LEMMA TornOutside ==
  ASSUME NEW new, NEW rows, rows \subseteq HostRows, flash \in [Rows -> Content],
         Torn(flash, new, rows)
  PROVE  \A r \in Rows \ HostRows : flash'[r] = flash[r]
  BY DEF Torn

LEMMA OutsideStep ==
  SessionInv /\ [SessionNext]_sessionVars => \A r \in Rows \ HostRows : flash'[r] = flash[r]
<1> SUFFICES ASSUME SessionInv, [SessionNext]_sessionVars
             PROVE  \A r \in Rows \ HostRows : flash'[r] = flash[r]
  OBVIOUS
<1>0. /\ TypeOK /\ sector \in HostSectors /\ sent \in Nat
      /\ flash \in [Rows -> Content]
      /\ ProtocolInv /\ PointerInv
  BY ImageFacts DEF SessionInv, SessionTypeOK, TypeOK, ProtocolInv
<1>1. CASE HostClear \/ HostPoll
  BY <1>1 DEF HostClear, HostPoll, ClrStatus, GetStatus
<1>2. CASE HostCommand
  <2>1. CASE phase = "erase"
    BY <1>0, <1>2, <2>1, EraseSector DEF HostCommand
  <2>2. CASE phase = "address"
    BY <1>2, <2>2 DEF HostCommand, DnloadSetAddress
  <2>3. QED
    BY <1>2, <2>1, <2>2 DEF HostCommand
<1>3. ASSUME phase = "write", poll = "none", sent < Len(Image)
      PROVE  \E j \in 1 .. Len(Image) : CurrentAddr = BlockAddr(j) /\ ImageRows(j) \subseteq HostRows
  <2>1. PICK j \in 0 .. sent : CurrentAddr = BlockAddr(j + 1)
    BY <1>0, <1>3 DEF PointerInv, Taken
  <2>2. j + 1 \in 1 .. Len(Image)
    BY <1>0, <1>3, ImageFacts
  <2>3. QED
    BY <2>1, <2>2, ImageRowsInHost
<1>4. CASE HostBlock
  <2>1. PICK j \in 1 .. Len(Image) : CurrentAddr = BlockAddr(j) /\ ImageRows(j) \subseteq HostRows
    BY <1>3, <1>4 DEF HostBlock
  <2>2. PICK ok \in BOOLEAN : WriteBlock(Image[sent + 1], ok)
    BY <1>4 DEF HostBlock, DnloadBlock
  <2>3. QED
    BY <1>0, <2>1, <2>2, WriteImageBlock
<1>5. CASE HostPowerLoss
  <2>1. CASE PowerLoss
    BY <2>1 DEF PowerLoss
  <2>2. CASE PowerLossInErase(SectorBase(sector))
    <3>1. SectorRows(sector_by_address(SectorBase(sector))) \subseteq HostRows
      BY <1>0, HostSectorFacts DEF HostRows
    <3>2. QED
      BY <1>0, <2>2, <3>1, TornOutside DEF PowerLossInErase
  <2>3. CASE phase = "write" /\ poll = "none" /\ sent < Len(Image) /\ PowerLossInWrite(Image[sent + 1])
    <3>1. WindowRows(CurrentAddr, TransferSize) \subseteq HostRows
      BY <1>3, <2>3 DEF ImageRows
    <3>2. QED
      BY <1>0, <2>3, <3>1, TornOutside DEF PowerLossInWrite
  <2>4. QED
    BY <1>5, <2>1, <2>2, <2>3 DEF HostPowerLoss
<1>6. QED
  BY <1>1, <1>2, <1>4, <1>5, EndStep, LateStep, EndingStep DEF SessionNext, HostRequest, Fault

(***************************************************************************)
(* No step of an update, retried or cut off anywhere, changes a row that   *)
(* the image's sectors do not cover.                                       *)
(***************************************************************************)
THEOREM SessionOutsideUntouched == SessionSpec => OutsideUntouched
<1>1. SessionInv /\ [SessionNext]_sessionVars => [\A r \in Rows \ HostRows : flash'[r] = flash[r]]_sessionVars
  BY OutsideStep
<1>2. QED
  BY <1>1, SessionInvariant, PTL DEF SessionSpec, OutsideUntouched

-----------------------------------------------------------------------------

(***************************************************************************)
(* Every block of the image has a row of its own, the one at its address.  *)
(***************************************************************************)
LEMMA MultipleDivides ==
  ASSUME NEW b \in Nat, NEW d \in Nat \ {0}, b % d = 0
  PROVE  b \div d \in Nat /\ b = (b \div d) * d
  OBVIOUS

LEMMA MultipleModulus ==
  ASSUME NEW q \in Nat, NEW d \in Nat \ {0}, NEW a \in Nat, a = q * d
  PROVE  a % d = 0
  BY Z3

LEMMA SectorBaseAligned == \A s \in Sectors : SectorBase(s) \in Nat /\ SectorBase(s) % RowSize = 0
<1> USE LayoutAssumption
<1> DEFINE small == SmallSize \div RowSize
           large == LargeSize \div RowSize
<1>1. small \in Nat /\ SmallSize = small * RowSize /\ large \in Nat /\ LargeSize = large * RowSize
  BY MultipleDivides
<1> HIDE DEF small, large
<1> TAKE s \in Sectors
<1>2. CASE s < SmallSectors
  <2>1. SectorBase(s) = s * SmallSize /\ s \in Nat
    BY <1>2 DEF SectorBase, Sectors
  <2>2. SectorBase(s) = (s * small) * RowSize /\ s * small \in Nat /\ SectorBase(s) \in Nat
    BY <1>1, <2>1, Z3
  <2>3. QED
    BY <2>2, MultipleModulus
<1>3. CASE s >= SmallSectors
  <2> DEFINE n == s - SmallSectors
  <2>1. SectorBase(s) = SmallSectors * SmallSize + n * LargeSize /\ n \in Nat
    BY <1>3 DEF SectorBase, SmallBytes, Sectors
  <2> HIDE DEF n
  <2>2. SectorBase(s) = (SmallSectors * small + n * large) * RowSize
    BY <1>1, <2>1, Z3
  <2>3. SmallSectors * small + n * large \in Nat /\ SectorBase(s) \in Nat
    BY <1>1, <2>1, Z3
  <2>4. QED
    BY <2>2, <2>3, MultipleModulus
<1>4. QED
  BY <1>2, <1>3 DEF Sectors

LEMMA BlockRow ==
  ASSUME NEW k \in 1 .. Len(Image)
  PROVE  \E r \in Rows : RowAddr(r) = BlockAddr(k) /\ r \in ImageRows(k)
<1> USE LayoutAssumption, Sizes, ImageFacts
<1> DEFINE r == BlockAddr(k) \div RowSize
<1>1. BlockAddr(k) \in Nat /\ BlockAddr(k) + TransferSize <= FlashSize
  BY BlockAddrFacts, SessionAssumption
<1>2. BlockAddr(k) % RowSize = 0
  <2> DEFINE q == AppStart \div RowSize
  <2>1. AppStart % RowSize = 0
    BY SectorBaseAligned, SessionAssumption
  <2>2. q \in Nat /\ AppStart = q * RowSize
    BY <2>1, MultipleDivides
  <2> HIDE DEF q
  <2>3. k - 1 \in Nat /\ q + (k - 1) * BlockRows \in Nat
    BY <2>2
  <2>4. BlockAddr(k) = (q + (k - 1) * BlockRows) * RowSize
    BY <2>2, <2>3, Z3 DEF BlockAddr, TransferSize
  <2>5. QED
    BY <1>1, <2>3, <2>4, MultipleModulus
<1>3. r \in Nat /\ r * RowSize = BlockAddr(k)
  BY <1>1, <1>2, MultipleDivides
<1>4. RowSize <= TransferSize
  BY Z3 DEF TransferSize
<1>5. r \in Rows
  <2>1. FlashSize < (FlashSize \div RowSize) * RowSize + RowSize /\ FlashSize \div RowSize \in Nat
    BY Quotient
  <2>2. r * RowSize + RowSize < (FlashSize \div RowSize) * RowSize + RowSize
    BY <1>1, <1>3, <1>4, <2>1
  <2>3. r < FlashSize \div RowSize
    BY <1>3, <2>1, <2>2, Z3
  <2>4. QED
    BY <1>3, <2>1, <2>3 DEF Rows
<1>6. RowAddr(r) = BlockAddr(k)
  BY <1>3 DEF RowAddr
<1>7. r \in ImageRows(k)
  BY <1>1, <1>5, <1>6 DEF ImageRows, WindowRows
<1>8. QED
  BY <1>5, <1>6, <1>7

\* A block one of whose rows holds nothing of an image is not stored.
LEMMA NotStored ==
  ASSUME NEW k \in 1 .. Len(Image), \A r \in ImageRows(k) : flash[r] = Blank
  PROVE  ~Stored(k)
  BY BlockRow, ImageFacts, ContentAssumption DEF Stored

\* Erasing, to the end or not, stores no block.
LEMMA EraseStoresNothing ==
  ASSUME \A r \in Rows : flash'[r] \in {flash[r], Blank, Other}
  PROVE  StoredBlocks' \subseteq StoredBlocks
<1>1. SUFFICES ASSUME NEW k \in 1 .. Len(Image), Stored(k)', NEW r \in ImageRows(k)
               PROVE  flash[r] = Image[k]
  BY DEF StoredBlocks, Stored
<1>2. r \in Rows /\ flash'[r] = Image[k] /\ Image[k] \in Blocks
  BY <1>1, ImageFacts DEF Stored, ImageRows, WindowRows
<1>3. QED
  BY <1>2, ContentAssumption

LEMMA TornRows ==
  ASSUME NEW new, NEW rows, flash \in [Rows -> Content], Torn(flash, new, rows)
  PROVE  \A r \in Rows : flash'[r] \in {flash[r], new[r], Other}
  BY DEF Torn

LEMMA SameBlocks == flash' = flash => StoredBlocks' = StoredBlocks
  BY DEF StoredBlocks, Stored

\* Touching the rows of block j alone can only store j.
LEMMA OneBlock ==
  ASSUME NEW j \in 1 .. Len(Image), \A r \in Rows \ ImageRows(j) : flash'[r] = flash[r]
  PROVE  /\ StoredBlocks' \ {j} = StoredBlocks \ {j}
<1>1. ASSUME NEW k \in 1 .. Len(Image), k # j PROVE Stored(k)' <=> Stored(k)
  <2>1. \A r \in ImageRows(k) : r \in Rows \ ImageRows(j)
    BY <1>1, ImageRowsDisjoint DEF ImageRows, WindowRows
  <2>2. QED
    BY <2>1 DEF Stored
<1>2. QED
  BY <1>1 DEF StoredBlocks

-----------------------------------------------------------------------------
(***************************************************************************)
(* Each step of a session, in the terms of the update.                     *)
(***************************************************************************)
LEMMA EraseMaps ==
  ASSUME SessionInv, phase = "erase",
         \/ HostCommand
         \/ HostPowerLoss /\ PowerLossInErase(SectorBase(sector))
  PROVE  Update!Empty
<1>0. TypeOK /\ flash \in [Rows -> Content] /\ sector \in HostSectors
  BY DEF SessionInv, SessionTypeOK, TypeOK, ProtocolInv
<1>1. \A r \in Rows : flash'[r] \in {flash[r], Blank, Other}
  <2>1. CASE HostCommand
    <3>1. DnloadErase(SectorBase(sector), 5)
      BY <2>1 DEF HostCommand
    <3>2. \/ flash' = flash
          \/ \E s : flash' = Erased(flash, s)
      BY <3>1 DEF DnloadErase, iap_erase
    <3>3. QED
      BY <3>2 DEF Erased
  <2>2. CASE PowerLossInErase(SectorBase(sector))
    <3>1. Torn(flash, Erased(flash, sector_by_address(SectorBase(sector))),
               SectorRows(sector_by_address(SectorBase(sector))))
      BY <2>2 DEF PowerLossInErase
    <3>2. \A r \in Rows : flash'[r] \in {flash[r],
             Erased(flash, sector_by_address(SectorBase(sector)))[r], Other}
      BY <1>0, <3>1, TornRows
    <3>3. QED
      BY <3>2 DEF Erased
  <2>3. QED
    BY <2>1, <2>2
<1>2. StoredBlocks' \subseteq StoredBlocks
  BY <1>1, EraseStoresNothing
<1>3. phase' \in {"erase", "failed"} /\ missed' = missed
  BY DEF HostCommand, HostPowerLoss
<1>4. QED
  BY <1>2, <1>3 DEF Update!Empty, Update!GoesOn, Stage

LEMMA FillMaps ==
  ASSUME SessionInv,
         \/ HostBlock
         \/ /\ phase = "write" /\ poll = "none" /\ sent < Len(Image)
            /\ HostPowerLoss /\ PowerLossInWrite(Image[sent + 1])
  PROVE  [Update!UpdateNext]_Update!updateVars
<1>0. /\ TypeOK /\ PointerInv /\ FlashInv
      /\ phase = "write" /\ poll = "none" /\ sent \in Nat /\ sent < Len(Image)
      /\ Len(Image) \in Nat
      /\ flash \in [Rows -> Content]
  BY ImageFacts DEF SessionInv, SessionTypeOK, TypeOK, HostBlock
<1>1. Stage = "filling" /\ Stage' \in {Stage, "idle"} /\ missed' = missed
  BY <1>0 DEF HostBlock, HostPowerLoss, Stage
<1>2. StoredBlocks' \subseteq 1 .. Len(Image)
  BY DEF StoredBlocks
<1>3. CASE missed
  <2>1. Update!FillWrong
    BY <1>1, <1>2, <1>3 DEF Update!FillWrong, Update!GoesOn, Update!Positions
  <2>2. QED
    BY <2>1 DEF Update!UpdateNext
<1>4. CASE ~missed
  <2> DEFINE j == sent + 1
  <2>1. j \in 1 .. Len(Image)
    BY <1>0
  <2>2. CurrentAddr = BlockAddr(j)
    BY <1>0, <1>4 DEF PointerInv, Taken
  <2>3. /\ \A k \in 1 .. Len(Image) : k <= sent => Stored(k)
        /\ \A k \in 1 .. Len(Image) : k > sent => ~Stored(k)
    BY <1>0, <1>4, NotStored DEF FlashInv, Taken
  <2>4. StoredBlocks = 1 .. sent
    BY <1>0, <2>3 DEF StoredBlocks
  <2>5. \A r \in Rows \ ImageRows(j) : flash'[r] = flash[r]
    <3>1. CASE HostBlock
      BY <1>0, <2>1, <2>2, <3>1, WriteImageBlock DEF HostBlock, DnloadBlock
    <3>2. CASE PowerLossInWrite(Image[sent + 1])
      BY <1>0, <2>2, <3>2 DEF PowerLossInWrite, Torn, ImageRows
    <3>3. QED
      BY <3>1, <3>2
  <2>6. StoredBlocks' \ {j} = StoredBlocks \ {j}
    BY <2>1, <2>5, OneBlock
  <2>7. j \notin StoredBlocks /\ 1 .. (j - 1) \subseteq StoredBlocks
    BY <1>0, <2>4
  <2> HIDE DEF j
  <2>8. CASE j \in StoredBlocks'
    <3>1. StoredBlocks' = StoredBlocks \cup {j}
      BY <2>6, <2>7, <2>8
    <3>2. Update!Fill
      BY <1>1, <2>1, <2>7, <3>1 DEF Update!Fill, Update!GoesOn, Update!Positions
    <3>3. QED
      BY <3>2 DEF Update!UpdateNext
  <2>9. CASE j \notin StoredBlocks'
    <3>1. StoredBlocks' = StoredBlocks
      BY <2>6, <2>7, <2>9
    <3>2. QED
      BY <1>1, <3>1 DEF Update!UpdateNext, Update!GiveUp, Update!updateVars
  <2>10. QED
    BY <2>8, <2>9
<1>5. QED
  BY <1>3, <1>4

LEMMA PollMaps ==
  ASSUME SessionInv, HostPoll
  PROVE  [Update!UpdateNext]_Update!updateVars
<1>0. ProtocolInv /\ FlashInv
  BY DEF SessionInv
<1>1. StoredBlocks' = StoredBlocks /\ missed' = missed
  BY SameBlocks DEF HostPoll, GetStatus
<1>2. CASE phase' = phase
  BY <1>1, <1>2 DEF Stage, Update!updateVars
<1>3. CASE phase' = "failed"
  BY <1>1, <1>3 DEF Stage, Update!UpdateNext, Update!GiveUp
<1>4. CASE phase = "erase" /\ phase' = "address"
  BY <1>1, <1>4 DEF Stage, Update!updateVars
<1>5. CASE phase = "address" /\ phase' = "write"
  <2>1. \A k \in 1 .. Len(Image) : \A r \in ImageRows(k) : flash[r] = Blank
    <3>1. SUFFICES ASSUME NEW k \in 1 .. Len(Image), NEW r \in ImageRows(k)
                   PROVE  flash[r] = Blank
      OBVIOUS
    <3>2. r \in Rows /\ sector_by_address(RowAddr(r)) \in HostSectors
      BY ImageRowsInHost DEF ImageRows, WindowRows
    <3>3. r \in SectorRows(sector_by_address(RowAddr(r)))
      BY <3>2, RowSector
    <3>4. QED
      BY <1>0, <1>5, <3>2, <3>3 DEF FlashInv, BlankSector
  <2>2. StoredBlocks = {}
    BY <2>1, NotStored DEF StoredBlocks
  <2>3. QED
    BY <1>1, <1>5, <2>2 DEF Stage, Update!UpdateNext, Update!Emptied
<1>6. CASE phase = "finish" /\ phase' = "done"
  <2>1. missed \/ StoredBlocks = 1 .. Len(Image)
    BY <1>0, <1>6 DEF FlashInv, StoredBlocks
  <2>2. QED
    BY <1>1, <1>6, <2>1 DEF Stage, Update!UpdateNext, Update!Confirm, Update!Positions
<1>7. QED
  BY <1>0, <1>2, <1>3, <1>4, <1>5, <1>6
     DEF HostPoll, PollBusy, PollReady, PollFinished, PollSurprise, Proceed, ProtocolInv

LEMMA SessionStepIsUpdateStep ==
  SessionInv /\ [SessionNext]_sessionVars => [Update!UpdateNext]_Update!updateVars
<1> SUFFICES ASSUME SessionInv, [SessionNext]_sessionVars
             PROVE  [Update!UpdateNext]_Update!updateVars
  OBVIOUS
<1>1. CASE HostClear
  <2>1. Stage = "idle" /\ Stage' = "emptying" /\ missed' = FALSE
    BY <1>1 DEF HostClear, Stage
  <2>2. StoredBlocks' = StoredBlocks
    BY <1>1, SameBlocks DEF HostClear, ClrStatus
  <2>3. QED
    BY <2>1, <2>2 DEF Update!UpdateNext, Update!Begin
<1>2. CASE HostCommand
  <2>1. CASE phase = "erase"
    BY <1>2, <2>1, EraseMaps DEF Update!UpdateNext
  <2>2. CASE phase = "address"
    <3>1. StoredBlocks' = StoredBlocks
      BY <1>2, <2>2, SameBlocks DEF HostCommand, DnloadSetAddress
    <3>2. QED
      BY <1>2, <3>1 DEF HostCommand, Stage, Update!updateVars
  <2>3. QED
    BY <1>2, <2>1, <2>2 DEF HostCommand
<1>3. CASE HostBlock
  BY <1>3, FillMaps
<1>4. CASE HostEnd
  <2>1. phase = "write" /\ phase' = "finish" /\ missed' = missed
    BY <1>4 DEF HostEnd
  <2>2. StoredBlocks' = StoredBlocks
    BY <1>4, EndStep, SameBlocks
  <2>3. QED
    BY <2>1, <2>2 DEF Stage, Update!updateVars
<1>5. CASE HostPoll
  BY <1>5, PollMaps
<1>6. CASE HostLeave \/ HostRetry \/ Leave \/ UNCHANGED sessionVars
  <2>1. StoredBlocks' = StoredBlocks
    BY <1>6, EndingStep, SameBlocks
  <2>2. missed' = missed /\ Stage' = Stage
    BY <1>6 DEF HostLeave, HostRetry, Leave, hostVars, sessionVars, Stage
  <2>3. QED
    BY <2>1, <2>2 DEF Update!updateVars
<1>7. CASE HostCommandLate \/ HostBlockLate
  <2>1. StoredBlocks' = StoredBlocks
    BY <1>7, LateStep, SameBlocks
  <2>2. CASE HostCommandLate
    BY <2>1, <2>2 DEF HostCommandLate, Stage, Update!updateVars
  <2>3. CASE HostBlockLate
    BY <2>1, <2>3 DEF HostBlockLate, Stage, Update!UpdateNext, Update!Lose
  <2>4. QED
    BY <1>7, <2>2, <2>3
<1>8. CASE HostPowerLoss
  <2>1. CASE PowerLoss
    <3>1. StoredBlocks' = StoredBlocks
      BY <2>1, SameBlocks DEF PowerLoss
    <3>2. missed' = missed /\ Stage' \in {Stage, "idle"}
      BY <1>8 DEF HostPowerLoss, Stage
    <3>3. QED
      BY <3>1, <3>2 DEF Update!UpdateNext, Update!GiveUp, Update!updateVars
  <2>2. CASE phase = "erase" /\ PowerLossInErase(SectorBase(sector))
    BY <1>8, <2>2, EraseMaps DEF Update!UpdateNext
  <2>3. CASE phase = "write" /\ poll = "none" /\ sent < Len(Image) /\ PowerLossInWrite(Image[sent + 1])
    BY <1>8, <2>3, FillMaps
  <2>4. QED
    BY <1>8, <2>1, <2>2, <2>3 DEF HostPowerLoss
<1>9. QED
  BY <1>1, <1>2, <1>3, <1>4, <1>5, <1>6, <1>7, <1>8 DEF SessionNext, HostRequest, Fault

(***************************************************************************)
(* Every behaviour of host, device and flash is one of the update: an      *)
(* attempt empties, fills in order and is confirmed only when complete,    *)
(* and nothing happens to the image in between.                            *)
(***************************************************************************)
THEOREM SessionImplementsUpdate == SessionSpec => ImplementsUpdate
<1>1. SessionInit => Update!UpdateInit
  BY DEF SessionInit, Update!UpdateInit, Update!Positions, Stage, StoredBlocks
<1>2. QED
  BY <1>1, SessionInvariant, SessionStepIsUpdateStep, PTL
     DEF SessionSpec, ImplementsUpdate, Update!UpdateSpec
=============================================================================
