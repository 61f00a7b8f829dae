------------------------------ MODULE DfuDevice ------------------------------
(***************************************************************************)
(* The DFU interface of src/src/usb_task/usb_task.c, one action per class  *)
(* request as EVENT_USB_Device_ControlRequest handles it, over the flash   *)
(* driver of src/iap/iap.c.  The USB task runs one handler at a time, so a *)
(* handler is one step here; the packet-level interplay of that task with  *)
(* the USB interrupt is not in this module.  A power loss may cut a        *)
(* handler inside a flash operation.                                       *)
(*                                                                         *)
(* The host is free: any request, in any order.                            *)
(***************************************************************************)
EXTENDS FlashDriver

CONSTANTS
    CommandWords,   \* the addresses a host puts after a DfuSe command byte
    UploadSizes,    \* wLength of the UPLOAD requests of a host that keeps to
                    \* the transfer size it is told, as nothing checks it
    Spells,         \* [Blocks -> first byte and next four bytes of the block]
    CommandSizes    \* of those downloads: 5, or 1 for a bare command byte

\* The first byte of a wValue 0 download that the handler tells apart.
GET_COMMANDS == 0      \* 0x00
SET_ADDRESS == 33      \* 0x21
ERASE_SECTOR == 65     \* 0x41
OTHER_BYTE == 146      \* any other; 0x92 is the DfuSe "read unprotect"
FirstBytes == {GET_COMMANDS, SET_ADDRESS, ERASE_SECTOR, OTHER_BYTE}

ASSUME RequestAssumption ==
    /\ CommandWords \subseteq Addresses
    /\ UploadSizes \subseteq 1 .. TransferSize
    /\ Spells \in [Blocks -> [first : FirstBytes, word : Addresses]]
    /\ CommandSizes \subseteq {1, 5}

States == {"dfuIDLE", "dfuDNBUSY", "dfuDNLOAD_IDLE", "dfuERROR"}
Statuses == {"OK", "errWRITE", "errERASE"}

VARIABLES
    DFU_State, DFU_Status,
    CurrentAddr,
    firmware_data,  \* first byte of the buffer and the word in the next four
    need_detach,
    reply,          \* data stage of the last transfer to the host, if it had one
    outcome         \* history: what became of the last DNLOAD or UPLOAD

vars == <<DFU_State, DFU_Status, CurrentAddr, firmware_data, need_detach,
          flash, prepared, reply, outcome>>

Outcomes == {"none", "done", "failed", "missed", "ignored"}

Answer(status, state, rows) == [status |-> status, state |-> state, rows |-> rows]
NoData == Answer("none", "none", {})
Replies == [status : Statuses \cup {"none"}, state : States \cup {"none"},
            rows : SUBSET (Rows \X Content)]

TypeOK ==
    /\ DFU_State \in States
    /\ DFU_Status \in Statuses
    /\ CurrentAddr \in Addresses
    /\ firmware_data \in [first : FirstBytes, word : Addresses]
    /\ need_detach \in BOOLEAN
    /\ flash \in [Rows -> Content]
    /\ prepared \in SUBSET Sectors
    /\ reply \in Replies
    /\ outcome \in Outcomes

EmptyBuffer == [first |-> GET_COMMANDS, word |-> 0]

\* What start-up and task_loop leave in RAM before the first request.
Init ==
    /\ DFU_State = "dfuIDLE"
    /\ DFU_Status = "OK"
    /\ CurrentAddr = 0
    /\ firmware_data = EmptyBuffer
    /\ need_detach = FALSE
    /\ \E c \in {Blank, Other} : flash = [r \in Rows |-> c]
    /\ prepared = {}
    /\ reply = NoData
    /\ outcome = "none"

-----------------------------------------------------------------------------
(***************************************************************************)
(* Parts of the handlers.                                                  *)
(***************************************************************************)
Serving == ~need_detach   \* task_loop still polls the stack

\* Faulty: the status of an earlier command is left standing.
FaultyBusyKeepsStatus == DFU_State' = "dfuDNBUSY" /\ UNCHANGED DFU_Status

Busy == DFU_State' = "dfuDNBUSY" /\ DFU_Status' = "OK"

\* Faulty: the return value of the flash driver is dropped.
FaultyReportDropped(ok, error) ==
    Busy /\ outcome' = IF ok THEN "done" ELSE "failed"

\* The result of a flash operation, set over dfuDNBUSY / OK when it failed.
Report(ok, error) ==
    IF ok THEN Busy /\ outcome' = "done"
    ELSE DFU_State' = "dfuERROR" /\ DFU_Status' = error /\ outcome' = "failed"

\* A DNLOAD leaves the state machine as it was.
NoEffect(what) ==
    /\ outcome' = what
    /\ reply' = NoData
    /\ UNCHANGED <<DFU_State, DFU_Status, CurrentAddr, need_detach, flash, prepared>>

\* The buffer after `size' bytes of a command: a bare byte leaves the word of
\* whatever the buffer held before.
CommandData(first, word, size) ==
    [first |-> first, word |-> IF size = 5 THEN word ELSE firmware_data.word]

(***************************************************************************)
(* DFU_DNLOAD with wValue 0: a DfuSe command.                              *)
(***************************************************************************)
DnloadGetCommands ==
    /\ firmware_data' = CommandData(GET_COMMANDS, 0, 5)
    /\ Busy /\ outcome' = "done" /\ reply' = NoData
    /\ UNCHANGED <<CurrentAddr, need_detach, flash, prepared>>

DnloadSetAddress(word, size) ==
    /\ firmware_data' = CommandData(SET_ADDRESS, word, size)
    /\ CurrentAddr' = firmware_data'.word
    /\ Busy /\ outcome' = "done" /\ reply' = NoData
    /\ UNCHANGED <<need_detach, flash, prepared>>

\* Faulty: the address is read from the buffer before the data stage fills it.
FaultyDnloadErase(word, size) ==
    /\ firmware_data' = CommandData(ERASE_SECTOR, word, size)
    /\ \E ok \in BOOLEAN : iap_erase(firmware_data.word, ok) /\ Report(ok, "errERASE")
    /\ reply' = NoData
    /\ UNCHANGED <<CurrentAddr, need_detach>>

DnloadErase(word, size) ==
    /\ firmware_data' = CommandData(ERASE_SECTOR, word, size)
    /\ \E ok \in BOOLEAN :
          /\ iap_erase(CommandData(ERASE_SECTOR, word, size).word, ok)
          /\ Report(ok, "errERASE")
    /\ reply' = NoData
    /\ UNCHANGED <<CurrentAddr, need_detach>>

\* A command byte the handler does not know, and GET COMMANDS without more
\* bytes, are acknowledged and change nothing but the buffer.
DnloadUnknown(first, word, size) ==
    /\ first = OTHER_BYTE \/ (first = GET_COMMANDS /\ size = 1)
    /\ firmware_data' = CommandData(first, word, size)
    /\ NoEffect("ignored")

DnloadCommand ==
    /\ Serving
    /\ \/ DnloadGetCommands
       \/ \E word \in CommandWords, size \in CommandSizes :
             \/ DnloadSetAddress(word, size)
             \/ DnloadErase(word, size)
             \/ \E first \in FirstBytes : DnloadUnknown(first, word, size)

\* No OUT packet within USB_STREAM_TIMEOUT_MS: status stage, and return.
DnloadCommandTimeout ==
    /\ Serving
    /\ NoEffect("missed")
    /\ UNCHANGED firmware_data

(***************************************************************************)
(* DFU_DNLOAD with wValue 1: no branch of the handler takes it.            *)
(***************************************************************************)
DnloadReserved ==
    /\ Serving
    /\ NoEffect("ignored")
    /\ UNCHANGED firmware_data

(***************************************************************************)
(* DFU_DNLOAD with wValue 2 or more: the next block, whatever its number.  *)
(***************************************************************************)
WriteBlock(block, ok) ==
    /\ iap_write(CurrentAddr, block, ok)
    /\ Report(ok, "errWRITE")
    /\ CurrentAddr' = (CurrentAddr + TransferSize) % AddrSpace
    /\ reply' = NoData
    /\ UNCHANGED need_detach

DnloadBlock(block) ==
    /\ Serving
    /\ firmware_data' = Spells[block]
    /\ \E ok \in BOOLEAN : WriteBlock(block, ok)

\* wLength 0 ends the download in dfuDNLOAD_IDLE ...
DnloadEnd ==
    /\ Serving
    /\ DFU_State = "dfuDNLOAD_IDLE"
    /\ DFU_State' = "dfuIDLE"
    /\ reply' = NoData
    /\ outcome' = "done"
    /\ UNCHANGED <<DFU_Status, CurrentAddr, firmware_data, need_detach, flash, prepared>>

\* ... and writes the cleared buffer in every other state.
DnloadEmpty ==
    /\ Serving
    /\ DFU_State # "dfuDNLOAD_IDLE"
    /\ firmware_data' = EmptyBuffer
    /\ \E ok \in BOOLEAN : WriteBlock(Zeros, ok)

\* A chunk of the block does not come in time.  The buffer was cleared, and
\* holds the start of the block when the first chunk came.
DnloadBlockTimeout(block) ==
    /\ Serving
    /\ firmware_data' \in {EmptyBuffer, Spells[block]}
    /\ NoEffect("missed")

(***************************************************************************)
(* DFU_UPLOAD.  Only the flash is represented in the data returned.        *)
(***************************************************************************)
Upload(size) ==
    /\ Serving
    /\ reply' = Answer("none", "none", {<<r, flash[r]>> : r \in WindowRows(CurrentAddr, size)})
    /\ CurrentAddr' = (CurrentAddr + size) % AddrSpace
    /\ Busy /\ outcome' = "done"
    /\ UNCHANGED <<firmware_data, need_detach, flash, prepared>>

\* Faulty: dfuDNBUSY is reported for ever.
FaultyGetStatus ==
    /\ Serving
    /\ reply' = Answer(DFU_Status, DFU_State, {})
    /\ UNCHANGED <<DFU_State, DFU_Status, CurrentAddr, firmware_data, need_detach, flash,
                   prepared, outcome>>

GetStatus ==
    /\ Serving
    /\ reply' = Answer(DFU_Status, DFU_State, {})
    /\ DFU_State' = IF DFU_State = "dfuDNBUSY" THEN "dfuDNLOAD_IDLE" ELSE DFU_State
    /\ UNCHANGED <<DFU_Status, CurrentAddr, firmware_data, need_detach, flash,
                   prepared, outcome>>

ClrStatus ==
    /\ Serving
    /\ DFU_Status' = "OK"
    /\ DFU_State' = "dfuIDLE"
    /\ reply' = NoData
    /\ outcome' = "none"
    /\ UNCHANGED <<CurrentAddr, firmware_data, need_detach, flash, prepared>>

GetState ==
    /\ Serving
    /\ reply' = Answer("none", DFU_State, {})
    /\ UNCHANGED <<DFU_State, DFU_Status, CurrentAddr, firmware_data, need_detach,
                   flash, prepared, outcome>>

Abort ==
    /\ Serving
    /\ DFU_State' = "dfuIDLE"
    /\ reply' = NoData
    /\ outcome' = "none"
    /\ UNCHANGED <<DFU_Status, CurrentAddr, firmware_data, need_detach, flash, prepared>>

Detach ==
    /\ Serving
    /\ need_detach' = TRUE
    /\ reply' = NoData
    /\ UNCHANGED <<DFU_State, DFU_Status, CurrentAddr, firmware_data, flash,
                   prepared, outcome>>

-----------------------------------------------------------------------------
(***************************************************************************)
(* task_loop after a DETACH: one second of delays, no request handled, and *)
(* then a system reset.  A power loss comes at any time; inside a flash    *)
(* operation it leaves any of the rows concerned as they were, done, or    *)
(* torn.  Both end in a restart, here always of the bootloader.            *)
(***************************************************************************)
Restart ==
    /\ DFU_State' = "dfuIDLE"
    /\ DFU_Status' = "OK"
    /\ CurrentAddr' = 0
    /\ firmware_data' = EmptyBuffer
    /\ need_detach' = FALSE
    /\ prepared' = {}
    /\ reply' = NoData
    /\ outcome' = "none"

DetachReset ==
    /\ need_detach
    /\ Restart
    /\ UNCHANGED flash

PowerLoss ==
    /\ Restart
    /\ UNCHANGED flash

\* The flash with each of the rows in `rows' as in old, as in new, or torn.
Torn(old, new, rows) ==
    \E part \in [rows -> {"old", "new", "torn"}] :
        flash' = [r \in Rows |->
                    IF r \notin rows \/ part[r] = "old" THEN old[r]
                    ELSE IF part[r] = "new" THEN new[r] ELSE Other]

PowerLossInErase(word) ==
    /\ Serving
    /\ sector_by_address(word) \in Sectors
    /\ Torn(flash, Erased(flash, sector_by_address(word)),
            SectorRows(sector_by_address(word)))
    /\ Restart

PowerLossInWrite(block) ==
    /\ Serving
    /\ sector_by_address(CurrentAddr) \in Sectors
    /\ CopyStatus(CurrentAddr, prepared \cup {sector_by_address(CurrentAddr)}) = "CMD_SUCCESS"
    /\ Torn(flash, Written(flash, CurrentAddr, block),
            WindowRows(CurrentAddr, TransferSize))
    /\ Restart

Next ==
    \/ DnloadCommand \/ DnloadCommandTimeout \/ DnloadReserved
    \/ \E b \in Blocks : DnloadBlock(b) \/ DnloadBlockTimeout(b) \/ PowerLossInWrite(b)
    \/ DnloadEnd \/ DnloadEmpty
    \/ \E n \in UploadSizes : Upload(n)
    \/ GetStatus \/ ClrStatus \/ GetState \/ Abort \/ Detach
    \/ DetachReset \/ PowerLoss
    \/ \E w \in CommandWords : PowerLossInErase(w)

Spec == Init /\ [][Next]_vars

-----------------------------------------------------------------------------
(***************************************************************************)
(* An error status belongs to dfuERROR, or to the dfuIDLE an ABORT leaves  *)
(* behind; a download in progress never carries one.  GETSTATUS returns    *)
(* the two variables side by side and no handler sets both in one place.   *)
(***************************************************************************)
StatusStateAgree ==
    /\ DFU_State = "dfuERROR" => DFU_Status # "OK"
    /\ DFU_Status # "OK" => DFU_State \in {"dfuERROR", "dfuIDLE"}

(***************************************************************************)
(* What the last DNLOAD or UPLOAD did and what GETSTATUS would say agree,   *)
(* until the host clears or aborts: a refused flash operation is visible   *)
(* however many status polls come first, and no error is left once a later *)
(* one has been carried out.  Exempt is a DNLOAD that the handler only     *)
(* acknowledges: one whose data is missed (the timeouts at                 *)
(* usb_task.c:98-107 and 187-194) or that no branch takes (wValue 1, an    *)
(* unknown command byte).  It keeps the status of the command before it,   *)
(* an error included, although usb_task.c:36-38 calls DFU_Status the       *)
(* status of the last executed command.                                    *)
(***************************************************************************)
OutcomeReported ==
    /\ outcome = "failed" => DFU_State = "dfuERROR" /\ DFU_Status # "OK"
    /\ outcome = "done" => DFU_State # "dfuERROR" /\ DFU_Status = "OK"
=============================================================================
