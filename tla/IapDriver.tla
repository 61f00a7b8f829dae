------------------------------ MODULE IapDriver ------------------------------
(***************************************************************************)
(* The flash driver of src/iap/iap.c, command by command.  A call is one   *)
(* or two commands to the in-application programming (IAP) code in ROM.    *)
(* ExecuteCommand gives a command with the interrupts off, and gives it    *)
(* again for as long as the ROM answers BUSY.  The ROM is not part of the  *)
(* repository: it may answer BUSY at any time, and any of the statuses     *)
(* FlashLayout has for it.                                                 *)
(***************************************************************************)
EXTENDS FlashLayout

CONSTANTS
    RomMayFail,      \* may the ROM refuse a command whose arguments are right
    CallAddresses    \* the addresses the callers give
ASSUME CallAssumption == RomMayFail \in BOOLEAN /\ CallAddresses \subseteq Addresses

VARIABLES
    flash, prepared,  \* the flash, and the sectors the ROM holds open
    call,             \* the call being served
    command,          \* what ExecuteCommand is to give, or gives
    pc,               \* where the driver is
    interrupts,       \* are they enabled
    pending, isr,     \* an interrupt is raised, or being served
    returned,         \* what the last call returned
    before            \* history: flash and prepared at the last return

romVars == <<flash, prepared>>
callVars == <<call, command, returned, before>>
cpuVars == <<interrupts, pending, isr>>
driverVars == <<romVars, callVars, cpuVars, pc>>

Functions == {"iap_erase", "iap_write", "iap_blank_check"}
Calls == [function : Functions, address : CallAddresses, block : Blocks \cup {Zeros}]
Commands == {"PREPARE_SECTORS", "ERASE_SECTORS", "COPY_RAM_TO_FLASH", "BLANK_CHECK_SECTORS"}
NoCall == [function |-> "none", address |-> 0, block |-> Zeros]

Sector == sector_by_address(call.address)

DriverTypeOK ==
    /\ flash \in [Rows -> Content]
    /\ prepared \in SUBSET Sectors
    /\ call \in Calls \cup {NoCall}
    /\ command \in Commands \cup {"none"}
    /\ pc \in {"caller", "enter", "rom"}
    /\ interrupts \in BOOLEAN /\ pending \in BOOLEAN /\ isr \in BOOLEAN
    /\ returned \in BOOLEAN
    /\ before \in [flash : [Rows -> Content], prepared : SUBSET Sectors]

DriverInit ==
    /\ \E c \in {Blank, Other} : flash = [r \in Rows |-> c]
    /\ prepared = {}
    /\ call = NoCall /\ command = "none"
    /\ pc = "caller"
    /\ interrupts = TRUE /\ pending = FALSE /\ isr = FALSE
    /\ returned = FALSE
    /\ before = [flash |-> flash, prepared |-> prepared]

\* The task has the processor: no interrupt is served or about to be.
TaskRuns == ~isr /\ ~(pending /\ interrupts)

-----------------------------------------------------------------------------
(***************************************************************************)
(* The three functions up to their first command.                          *)
(***************************************************************************)
Call ==
    /\ TaskRuns /\ pc = "caller"
    /\ call' \in Calls
    /\ command' = IF call'.function = "iap_blank_check" THEN "BLANK_CHECK_SECTORS"
                  ELSE "PREPARE_SECTORS"
    /\ pc' = "enter"
    /\ UNCHANGED <<romVars, cpuVars, returned, before>>

\* OS_CRITICAL_ENTER, and the first time around the loop.
Enter ==
    /\ TaskRuns /\ pc = "enter"
    /\ interrupts' = FALSE
    /\ pc' = "rom"
    /\ UNCHANGED <<romVars, callVars, pending, isr>>

\* The ROM answers BUSY: the loop gives the command again.
Busy ==
    /\ TaskRuns /\ pc = "rom"
    /\ UNCHANGED driverVars

-----------------------------------------------------------------------------
(***************************************************************************)
(* The ROM carries a command out and answers with `status'.                *)
(***************************************************************************)
Succeeds(status) == status = "CMD_SUCCESS"

RomRefuses(status) ==
    /\ RomMayFail /\ command \in {"ERASE_SECTORS", "COPY_RAM_TO_FLASH"}
    /\ status = "REFUSED"
    /\ UNCHANGED romVars

RomPrepares(status) ==
    /\ command = "PREPARE_SECTORS"
    /\ status = PrepareStatus(Sector)
    /\ prepared' = IF Succeeds(status) THEN prepared \cup {Sector} ELSE prepared
    /\ UNCHANGED flash

RomErases(status) ==
    /\ command = "ERASE_SECTORS" /\ Sector \in prepared
    /\ status = "CMD_SUCCESS"
    /\ flash' = Erased(flash, Sector)
    /\ prepared' = prepared \ {Sector}

RomCopies(status) ==
    /\ command = "COPY_RAM_TO_FLASH"
    /\ status = CopyStatus(call.address, prepared)
    /\ IF Succeeds(status)
       THEN /\ flash' = Written(flash, call.address, call.block)
            /\ prepared' = {t \in prepared :
                  SectorRows(t) \cap WindowRows(call.address, TransferSize) = {}}
       ELSE UNCHANGED romVars

RomChecks(status) ==
    /\ command = "BLANK_CHECK_SECTORS"
    /\ status = BlankCheckStatus(flash, Sector)
    /\ UNCHANGED romVars

Rom(status) ==
    RomRefuses(status) \/ RomPrepares(status) \/ RomErases(status)
    \/ RomCopies(status) \/ RomChecks(status)

RomStatuses == {"CMD_SUCCESS", "REFUSED", "INVALID_SECTOR", "SECTOR_NOT_BLANK", "DST_ADDR_ERROR",
                "DST_ADDR_NOT_MAPPED", "SECTOR_NOT_PREPARED_FOR_WRITE_OPERATION"}

(***************************************************************************)
(* ... and ExecuteCommand returns.  A prepared sector leads to the second  *)
(* command, and anything else out of the function.                         *)
(***************************************************************************)
\* Faulty: a status after the first command is not told from success.
FaultyReturn(value) ==
    /\ returned' = (value \/ command = "COPY_RAM_TO_FLASH")
    /\ call' = NoCall /\ command' = "none"
    /\ before' = [flash |-> flash', prepared |-> prepared']
    /\ pc' = "caller"

Return(value) ==
    /\ returned' = value
    /\ call' = NoCall /\ command' = "none"
    /\ before' = [flash |-> flash', prepared |-> prepared']
    /\ pc' = "caller"

\* Faulty: the second command follows whatever the first answered, and again
\* until it succeeds.
FaultyContinues(status) == command = "PREPARE_SECTORS" \/ ~Succeeds(status)

Continues(status) == command = "PREPARE_SECTORS" /\ Succeeds(status)

SecondCommand ==
    /\ command' = IF call.function = "iap_erase" THEN "ERASE_SECTORS" ELSE "COPY_RAM_TO_FLASH"
    /\ pc' = "enter"
    /\ UNCHANGED <<call, returned, before>>

\* Faulty: OS_CRITICAL_EXIT is missing where the command failed.
FaultyAnswer ==
    /\ TaskRuns /\ pc = "rom"
    /\ \E status \in RomStatuses :
          /\ Rom(status)
          /\ interrupts' = Succeeds(status)
          /\ IF Continues(status) THEN SecondCommand
             ELSE Return(IF call.function = "iap_blank_check"
                         THEN status = "SECTOR_NOT_BLANK" ELSE Succeeds(status))
    /\ UNCHANGED <<pending, isr>>

Answer ==
    /\ TaskRuns /\ pc = "rom"
    /\ \E status \in RomStatuses :
          /\ Rom(status)
          /\ interrupts' = TRUE
          /\ IF Continues(status) THEN SecondCommand
             ELSE Return(IF call.function = "iap_blank_check"
                         THEN status = "SECTOR_NOT_BLANK" ELSE Succeeds(status))
    /\ UNCHANGED <<pending, isr>>

-----------------------------------------------------------------------------
(***************************************************************************)
(* An interrupt is raised, taken as soon as interrupts are on, and over.   *)
(***************************************************************************)
Raise ==
    /\ ~pending /\ pending' = TRUE
    /\ UNCHANGED <<romVars, callVars, pc, interrupts, isr>>

Take ==
    /\ pending /\ interrupts /\ ~isr
    /\ pending' = FALSE /\ isr' = TRUE
    /\ UNCHANGED <<romVars, callVars, pc, interrupts>>

IsrReturns ==
    /\ isr /\ isr' = FALSE
    /\ UNCHANGED <<romVars, callVars, pc, interrupts, pending>>

DriverNext == Call \/ Enter \/ Busy \/ Answer \/ Raise \/ Take \/ IsrReturns

DriverSpec == DriverInit /\ [][DriverNext]_driverVars

(***************************************************************************)
(* The processor goes on, interrupts are served and leave it to the task   *)
(* again and again, and the ROM does not answer BUSY for ever.  Nothing    *)
(* says that a caller calls or that an interrupt is raised.                *)
(***************************************************************************)
FairDriver ==
    /\ DriverSpec
    /\ SF_driverVars(Enter) /\ SF_driverVars(Answer)
    /\ WF_driverVars(Take) /\ WF_driverVars(IsrReturns)
    /\ []<>TaskRuns

-----------------------------------------------------------------------------
(***************************************************************************)
(* What holds in the middle of a call.                                     *)
(***************************************************************************)
DriverInv ==
    /\ DriverTypeOK
    /\ (pc = "caller") = (call = NoCall)
    /\ pc = "caller" => command = "none" /\ before = [flash |-> flash, prepared |-> prepared]
    /\ pc # "caller" =>
          /\ command = "BLANK_CHECK_SECTORS" <=> call.function = "iap_blank_check"
          /\ command # "none"
          /\ command = "ERASE_SECTORS" => call.function = "iap_erase"
          /\ command = "COPY_RAM_TO_FLASH" => call.function = "iap_write"
          /\ before.flash = flash
          /\ command \in {"PREPARE_SECTORS", "BLANK_CHECK_SECTORS"} => prepared = before.prepared
          /\ command \in {"ERASE_SECTORS", "COPY_RAM_TO_FLASH"} =>
                Sector \in Sectors /\ prepared = before.prepared \cup {Sector}

(***************************************************************************)
(* To its callers, the two commands of a call with everything that comes   *)
(* between them are one step: the driver implements FlashService.          *)
(***************************************************************************)
Service == INSTANCE FlashService WITH flash <- before.flash, prepared <- before.prepared

ImplementsService == Service!ServiceSpec

(***************************************************************************)
(* A call ends, however often the ROM is busy and whatever interrupts come *)
(* in between, and an interrupt that a command kept off is served.         *)
(***************************************************************************)
CallReturns == (pc # "caller") ~> (pc = "caller")
InterruptServed == pending ~> isr
=============================================================================
