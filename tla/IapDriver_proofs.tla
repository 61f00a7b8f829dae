--------------------------- MODULE IapDriver_proofs ---------------------------
(***************************************************************************)
(* The flash driver for every layout, ROM and caller: its invariant is     *)
(* inductive, and its calls are the steps of FlashService.                 *)
(***************************************************************************)
EXTENDS IapDriver, FlashLayout_proofs

LEMMA FlashTypes ==
  ASSUME flash \in [Rows -> Content], NEW s, NEW a, NEW b \in Blocks \cup {Zeros}
  PROVE  /\ Erased(flash, s) \in [Rows -> Content]
         /\ Written(flash, a, b) \in [Rows -> Content]
  BY DEF Erased, Written, Programmed, Content

\* A sector the ROM prepares exists.
LEMMA PreparedExists == \A s : PrepareStatus(s) = "CMD_SUCCESS" => s \in Sectors
  BY DEF PrepareStatus

LEMMA RomTypes ==
  ASSUME DriverInv, NEW status, Rom(status), pc = "rom"
  PROVE  flash' \in [Rows -> Content] /\ prepared' \in SUBSET Sectors
<1>1. flash \in [Rows -> Content] /\ prepared \in SUBSET Sectors /\ call.block \in Blocks \cup {Zeros}
  BY DEF DriverInv, DriverTypeOK, NoCall, Calls
<1>2. QED
  BY <1>1, FlashTypes, PreparedExists
     DEF Rom, RomRefuses, RomPrepares, RomErases, RomCopies, RomChecks, romVars, Succeeds

-----------------------------------------------------------------------------
(***************************************************************************)
(* The invariant.                                                          *)
(***************************************************************************)
LEMMA AnswerStep == DriverInv /\ Answer => DriverInv'
<1> SUFFICES ASSUME DriverInv, Answer PROVE DriverInv'
  OBVIOUS
<1>0. DriverTypeOK /\ pc = "rom" /\ call \in Calls /\ command \in Commands
  BY DEF Answer, DriverInv, DriverTypeOK
<1>1. PICK status \in RomStatuses :
         /\ Rom(status)
         /\ interrupts' = TRUE
         /\ IF Continues(status) THEN SecondCommand
            ELSE Return(IF call.function = "iap_blank_check"
                        THEN status = "SECTOR_NOT_BLANK" ELSE Succeeds(status))
  BY DEF Answer
<1>2. /\ flash' \in [Rows -> Content] /\ prepared' \in SUBSET Sectors
      /\ pending' \in BOOLEAN /\ isr' \in BOOLEAN /\ interrupts' \in BOOLEAN
  BY <1>0, <1>1, RomTypes DEF Answer, DriverTypeOK
<1>3. CASE Continues(status)
  <2>1. /\ pc' = "enter" /\ UNCHANGED <<call, returned, before>>
        /\ command' = IF call.function = "iap_erase" THEN "ERASE_SECTORS" ELSE "COPY_RAM_TO_FLASH"
    BY <1>1, <1>3 DEF SecondCommand
  <2>2. command = "PREPARE_SECTORS" /\ status = "CMD_SUCCESS"
    BY <1>3 DEF Continues, Succeeds
  <2>3. Sector \in Sectors /\ prepared' = prepared \cup {Sector} /\ flash' = flash
    BY <1>1, <2>2, PreparedExists
       DEF Rom, RomRefuses, RomPrepares, RomErases, RomCopies, RomChecks, Succeeds
  <2>4. DriverTypeOK'
    BY <1>0, <1>2, <2>1 DEF DriverTypeOK, Commands
  <2>5. /\ call # NoCall /\ Sector' = Sector
        /\ call.function \in {"iap_erase", "iap_write"}
        /\ before.flash = flash /\ prepared = before.prepared
    <3>1. call.function \in Functions /\ (command = "BLANK_CHECK_SECTORS" <=> call.function = "iap_blank_check")
      BY <1>0 DEF DriverInv, Calls
    <3>2. QED
      BY <1>0, <2>1, <2>2, <3>1 DEF DriverInv, Sector, NoCall, Functions
  <2>6. QED
    BY <2>1, <2>3, <2>4, <2>5 DEF DriverInv
<1>4. CASE ~Continues(status)
  <2>1. /\ returned' \in BOOLEAN /\ call' = NoCall /\ command' = "none" /\ pc' = "caller"
        /\ before' = [flash |-> flash', prepared |-> prepared']
    BY <1>1, <1>4 DEF Return, Succeeds
  <2>2. DriverTypeOK'
    BY <1>2, <2>1 DEF DriverTypeOK
  <2>3. QED
    BY <2>1, <2>2 DEF DriverInv
<1>5. QED
  BY <1>3, <1>4

LEMMA DriverStep == DriverInv /\ [DriverNext]_driverVars => DriverInv'
<1> SUFFICES ASSUME DriverInv, [DriverNext]_driverVars PROVE DriverInv'
  OBVIOUS
<1>0. DriverTypeOK
  BY DEF DriverInv
<1>1. CASE Call
  <2>1. /\ call' \in Calls /\ pc' = "enter" /\ pc = "caller"
        /\ command' = IF call'.function = "iap_blank_check" THEN "BLANK_CHECK_SECTORS"
                      ELSE "PREPARE_SECTORS"
        /\ UNCHANGED <<flash, prepared, returned, before, interrupts, pending, isr>>
    BY <1>1 DEF Call, romVars, cpuVars
  <2>2. call'.function \in Functions /\ call' # NoCall
    BY <2>1 DEF Calls, NoCall, Functions
  <2>3. DriverTypeOK'
    BY <1>0, <2>1 DEF DriverTypeOK, Commands
  <2>4. QED
    BY <2>1, <2>2, <2>3 DEF DriverInv
<1>2. CASE Enter
  <2>1. pc = "enter" /\ pc' = "rom" /\ interrupts' = FALSE
        /\ UNCHANGED <<flash, prepared, call, command, returned, before, pending, isr>>
    BY <1>2 DEF Enter, romVars, callVars
  <2>2. QED
    BY <1>0, <2>1 DEF DriverInv, DriverTypeOK, Sector
<1>3. CASE Answer
  BY <1>3, AnswerStep
<1>4. CASE Raise \/ Take \/ IsrReturns \/ Busy \/ UNCHANGED driverVars
  <2>1. UNCHANGED <<flash, prepared, call, command, returned, before, pc, interrupts>>
        /\ pending' \in BOOLEAN /\ isr' \in BOOLEAN
    BY <1>0, <1>4 DEF Raise, Take, IsrReturns, Busy, driverVars, romVars, callVars, cpuVars, DriverTypeOK
  <2>2. QED
    BY <1>0, <2>1 DEF DriverInv, DriverTypeOK, Sector
<1>5. QED
  BY <1>1, <1>2, <1>3, <1>4 DEF DriverNext

LEMMA DriverStart == DriverInit => DriverInv
<1> SUFFICES ASSUME DriverInit PROVE DriverInv
  OBVIOUS
<1>1. flash \in [Rows -> Content]
  BY DEF DriverInit, Content
<1>2. QED
  BY <1>1 DEF DriverInit, DriverInv, DriverTypeOK

(***************************************************************************)
(* In the middle of a call the flash is as it was before it, and the only  *)
(* sector opened is the caller's.                                          *)
(***************************************************************************)
THEOREM DriverInvariant == DriverSpec => []DriverInv
<1>1. QED
  BY DriverStart, DriverStep, PTL DEF DriverSpec

-----------------------------------------------------------------------------
(***************************************************************************)
(* The refinement: nothing happens to the service until the call returns,  *)
(* and then its one step does.                                             *)
(***************************************************************************)
\* The service's layout is the driver's.
LEMMA SameLayout ==
  /\ Service!Rows = Rows /\ Service!Sectors = Sectors /\ Service!Addresses = Addresses
  /\ Service!Content = Content /\ Service!TransferSize = TransferSize
  /\ \A a : Service!sector_by_address(a) = sector_by_address(a)
  /\ \A s : Service!SectorRows(s) = SectorRows(s)
  /\ \A a, n : Service!WindowRows(a, n) = WindowRows(a, n)
<1>1. Service!SmallBytes = SmallBytes /\ Service!FlashSize = FlashSize
  BY DEF Service!SmallBytes, SmallBytes, Service!FlashSize, FlashSize
<1>2. /\ Service!Rows = Rows /\ Service!Sectors = Sectors /\ Service!Addresses = Addresses
      /\ Service!Content = Content /\ Service!TransferSize = TransferSize
      /\ \A a : Service!sector_by_address(a) = sector_by_address(a)
      /\ \A r : Service!RowAddr(r) = RowAddr(r)
  BY <1>1 DEF Service!Rows, Rows, Service!Sectors, Sectors, Service!Addresses, Addresses,
     Service!Content, Content, Service!TransferSize, TransferSize,
     Service!sector_by_address, sector_by_address, Service!RowAddr, RowAddr
<1>3. \A s : Service!SectorBase(s) = SectorBase(s) /\ Service!SectorSize(s) = SectorSize(s)
  BY <1>1 DEF Service!SectorBase, SectorBase, Service!SectorSize, SectorSize
<1>4. \A a, s : Service!InSector(a, s) <=> InSector(a, s)
  BY <1>3 DEF Service!InSector, InSector
<1>5. \A s : Service!SectorRows(s) = SectorRows(s)
  BY <1>2, <1>4 DEF Service!SectorRows, SectorRows
<1>6. \A a, n : Service!WindowRows(a, n) = WindowRows(a, n)
  BY <1>2 DEF Service!WindowRows, WindowRows
<1>7. QED
  BY <1>2, <1>5, <1>6

LEMMA SameRom ==
  /\ \A f, s : Service!Erased(f, s) = Erased(f, s)
  /\ \A f, a, b : Service!Written(f, a, b) = Written(f, a, b)
  /\ \A s : Service!PrepareStatus(s) = PrepareStatus(s)
  /\ \A a, p : Service!CopyStatus(a, p) = CopyStatus(a, p)
  /\ \A f, a : Service!iap_blank_check(f, a) = iap_blank_check(f, a)
<1>1. \A x, y : Service!Programmed(x, y) = Programmed(x, y)
  BY DEF Service!Programmed, Programmed
<1>2. \A f, s : Service!Erased(f, s) = Erased(f, s)
  BY SameLayout DEF Service!Erased, Erased
<1>3. \A f, a, b : Service!Written(f, a, b) = Written(f, a, b)
  BY SameLayout, <1>1 DEF Service!Written, Written
<1>4. Service!FlashSize = FlashSize
  BY DEF Service!SmallBytes, SmallBytes, Service!FlashSize, FlashSize
<1>5. \A s : Service!PrepareStatus(s) = PrepareStatus(s)
  BY SameLayout DEF Service!PrepareStatus, PrepareStatus
<1>6. \A a, p : Service!CopyStatus(a, p) = CopyStatus(a, p)
  BY SameLayout, <1>4 DEF Service!CopyStatus, CopyStatus
<1>7. \A f, s : Service!BlankCheckStatus(f, s) = BlankCheckStatus(f, s)
  BY SameLayout DEF Service!BlankCheckStatus, BlankCheckStatus
<1>8. QED
  BY SameLayout, <1>2, <1>3, <1>5, <1>6, <1>7 DEF Service!iap_blank_check, iap_blank_check

LEMMA ReturnMaps ==
  ASSUME DriverInv, Answer, pc' = "caller"
  PROVE  Service!ServiceNext
<1> USE SameLayout, SameRom
<1>0. /\ pc = "rom" /\ call \in Calls /\ call.address \in Addresses
      /\ call.block \in Blocks \cup {Zeros} /\ call.function \in Functions
      /\ before.flash = flash
  BY CallAssumption DEF Answer, DriverInv, DriverTypeOK, Calls
<1>1. PICK status \in RomStatuses :
         /\ Rom(status)
         /\ ~Continues(status)
         /\ Return(IF call.function = "iap_blank_check"
                   THEN status = "SECTOR_NOT_BLANK" ELSE Succeeds(status))
  BY DEF Answer, SecondCommand
<1>2. /\ before'.flash = flash' /\ before'.prepared = prepared'
      /\ returned' = IF call.function = "iap_blank_check"
                     THEN status = "SECTOR_NOT_BLANK" ELSE Succeeds(status)
      /\ returned' \in BOOLEAN
  BY <1>1 DEF Return, Succeeds
<1>3. CASE command = "BLANK_CHECK_SECTORS"
  <2>1. call.function = "iap_blank_check"
    BY <1>0, <1>3 DEF DriverInv
  <2>2. status = BlankCheckStatus(flash, Sector) /\ UNCHANGED <<flash, prepared>>
    BY <1>1, <1>3 DEF Rom, RomRefuses, RomPrepares, RomErases, RomCopies, RomChecks, romVars
  <2>3. returned' = iap_blank_check(before.flash, call.address)
    BY <1>0, <1>2, <2>1, <2>2 DEF iap_blank_check, Sector
  <2>4. UNCHANGED <<before.flash, before.prepared>>
    BY <1>0, <1>2, <1>3, <2>2 DEF DriverInv
  <2>5. QED
    BY <1>0, <1>2, <2>3, <2>4 DEF Service!ServiceNext
<1>4. CASE command = "PREPARE_SECTORS"
  <2>1. status = PrepareStatus(Sector) /\ status # "CMD_SUCCESS" /\ UNCHANGED <<flash, prepared>>
    BY <1>1, <1>4 DEF Rom, RomRefuses, RomPrepares, RomErases, RomCopies, RomChecks, Continues, Succeeds
  <2>2. ~returned' /\ UNCHANGED <<before.flash, before.prepared>>
    <3>1. call.function # "iap_blank_check" /\ prepared = before.prepared
      BY <1>0, <1>4 DEF DriverInv
    <3>2. QED
      BY <1>0, <1>2, <2>1, <3>1 DEF Succeeds
  <2>3. Service!iap_erase(call.address, returned')
    BY <2>1, <2>2 DEF Service!iap_erase, Sector
  <2>4. QED
    BY <1>0, <1>2, <2>3 DEF Service!ServiceNext
<1>5. CASE command = "ERASE_SECTORS"
  <2>1. /\ call.function = "iap_erase" /\ Sector \in Sectors
        /\ prepared = before.prepared \cup {Sector}
    BY <1>0, <1>5 DEF DriverInv
  <2>2. PrepareStatus(Sector) = "CMD_SUCCESS"
    BY <2>1 DEF PrepareStatus
  <2>3. CASE RomRefuses(status)
    <3>1. ~returned' /\ UNCHANGED <<flash, prepared>> /\ RomMayFail
      BY <1>2, <2>1, <2>3 DEF RomRefuses, romVars, Succeeds
    <3>2. Service!iap_erase(call.address, returned')
      BY <1>0, <1>2, <2>1, <2>2, <3>1 DEF Service!iap_erase, Sector
    <3>3. QED
      BY <1>0, <1>2, <3>2 DEF Service!ServiceNext
  <2>4. CASE RomErases(status)
    <3>1. returned' /\ flash' = Erased(flash, Sector) /\ prepared' = prepared \ {Sector}
      BY <1>2, <2>1, <2>4 DEF RomErases, Succeeds
    <3>2. prepared' = before.prepared \ {Sector}
      BY <2>1, <3>1
    <3>3. Service!iap_erase(call.address, returned')
      BY <1>0, <1>2, <2>2, <3>1, <3>2 DEF Service!iap_erase, Sector
    <3>4. QED
      BY <1>0, <1>2, <3>3 DEF Service!ServiceNext
  <2>5. QED
    BY <1>1, <1>5, <2>3, <2>4 DEF Rom, RomPrepares, RomCopies, RomChecks
<1>6. CASE command = "COPY_RAM_TO_FLASH"
  <2>1. /\ call.function = "iap_write" /\ Sector \in Sectors
        /\ prepared = before.prepared \cup {Sector}
    BY <1>0, <1>6 DEF DriverInv
  <2>2. PrepareStatus(Sector) = "CMD_SUCCESS"
    BY <2>1 DEF PrepareStatus
  <2>3. \/ /\ ~returned' /\ UNCHANGED <<flash, prepared>>
           /\ CopyStatus(call.address, prepared) # "CMD_SUCCESS" \/ RomMayFail
        \/ /\ returned' /\ CopyStatus(call.address, prepared) = "CMD_SUCCESS"
           /\ flash' = Written(flash, call.address, call.block)
           /\ prepared' = {t \in prepared :
                 SectorRows(t) \cap WindowRows(call.address, TransferSize) = {}}
    BY <1>1, <1>2, <1>6, <2>1
       DEF Rom, RomRefuses, RomPrepares, RomErases, RomCopies, RomChecks, romVars, Succeeds
  <2>4. Service!iap_write(call.address, call.block, returned')
    BY <1>0, <1>2, <2>1, <2>2, <2>3 DEF Service!iap_write, Sector
  <2>5. QED
    BY <1>0, <1>2, <2>4 DEF Service!ServiceNext
<1>7. QED
  BY <1>0, <1>3, <1>4, <1>5, <1>6 DEF DriverInv, DriverTypeOK, Commands

(***************************************************************************)
(* What the device's handlers take for one step is one step.               *)
(***************************************************************************)
THEOREM DriverImplementsService == DriverSpec => ImplementsService
<1>1. DriverInit => Service!ServiceInit
  BY DriverStart, SameLayout DEF DriverInit, DriverInv, DriverTypeOK, Service!ServiceInit
<1>2. DriverInv /\ [DriverNext]_driverVars => [Service!ServiceNext]_Service!serviceVars
  <2> SUFFICES ASSUME DriverInv, [DriverNext]_driverVars
               PROVE  [Service!ServiceNext]_Service!serviceVars
    OBVIOUS
  <2>1. CASE Answer /\ pc' = "caller"
    BY <2>1, ReturnMaps
  <2>2. CASE ~(Answer /\ pc' = "caller")
    <3>1. UNCHANGED <<before, returned>>
      BY <2>2 DEF DriverNext, driverVars, callVars, Call, Enter, Busy, Answer, SecondCommand, Return,
         Raise, Take, IsrReturns
    <3>2. QED
      BY <3>1 DEF Service!serviceVars
  <2>3. QED
    BY <2>1, <2>2
<1>3. QED
  BY <1>1, <1>2, DriverInvariant, PTL DEF DriverSpec, ImplementsService, Service!ServiceSpec
=============================================================================
