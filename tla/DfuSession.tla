------------------------------ MODULE DfuSession ------------------------------
(***************************************************************************)
(* A firmware update: the device of DfuDevice and a DfuSe host such as     *)
(* dfu-util, which the repository names as its counterpart and does not    *)
(* contain.  The host clears the status, erases the sectors of the image   *)
(* one by one, sets the address pointer, sends the image block by block,   *)
(* and ends with an empty download.  It polls GETSTATUS after each         *)
(* command: a DfuSe command must first be seen busy and then done, a block *)
(* must be seen done.  At the first surprise it gives up, and the user     *)
(* starts again from the beginning.                                        *)
(*                                                                         *)
(* The data stage of a download may come too late for the device, and the  *)
(* power may fail at any moment; MaxFaults bounds the two together.        *)
(***************************************************************************)
EXTENDS DfuDevice, Sequences

CONSTANTS
    AppStart,    \* USER_PROGRAM_START: 0x00010000
    Image,       \* the blocks of the new firmware
    MaxFaults    \* bound on lost data stages and power losses

VARIABLES
    phase,       \* what the host is doing
    sector,      \* the sector it erases next
    sent,        \* blocks it has seen written
    poll,        \* the answer it waits for
    missed,      \* history: a block of this session did not reach the device
    faults       \* history: faults so far

hostVars == <<phase, sector, sent, poll, missed, faults>>
sessionVars == <<vars, hostVars>>

ImageEnd == AppStart + Len(Image) * TransferSize
FirstSector == sector_by_address(AppStart)
LastSector == sector_by_address(ImageEnd - 1)
HostSectors == FirstSector .. LastSector
HostRows == UNION {SectorRows(s) : s \in HostSectors}
BlockAddr(k) == AppStart + (k - 1) * TransferSize
ImageRows(k) == WindowRows(BlockAddr(k), TransferSize)

\* The image starts at the base of a sector and ends inside the flash, and
\* sectors hold whole blocks.
ASSUME SessionAssumption ==
    /\ Image \in Seq(Blocks) /\ Len(Image) > 0
    /\ FirstSector \in Sectors /\ AppStart = SectorBase(FirstSector)
    /\ ImageEnd <= FlashSize /\ FlashSize < AddrSpace
    /\ SmallSize % TransferSize = 0 /\ LargeSize % TransferSize = 0
    /\ MaxFaults \in Nat

Phases == {"start", "erase", "address", "write", "finish", "done", "left", "failed"}
Polls == {"none", "first", "busy", "block"}

SessionTypeOK ==
    /\ TypeOK
    /\ phase \in Phases
    /\ sector \in Sectors
    /\ sent \in 0 .. Len(Image)
    /\ poll \in Polls
    /\ missed \in BOOLEAN
    /\ faults \in 0 .. MaxFaults

SessionInit ==
    /\ Init
    /\ phase = "start"
    /\ sector = FirstSector
    /\ sent = 0
    /\ poll = "none"
    /\ missed = FALSE
    /\ faults = 0

-----------------------------------------------------------------------------
(***************************************************************************)
(* The host's requests.                                                    *)
(***************************************************************************)
HostClear ==
    /\ phase = "start"
    /\ ClrStatus
    /\ phase' = "erase"
    /\ sector' = FirstSector
    /\ sent' = 0
    /\ poll' = "none"
    /\ missed' = FALSE
    /\ UNCHANGED faults

\* A DfuSe command of the current phase, and what the host waits for next.
HostCommand ==
    /\ Serving /\ poll = "none"
    /\ \/ phase = "erase" /\ DnloadErase(SectorBase(sector), 5)
       \/ phase = "address" /\ DnloadSetAddress(AppStart, 5)
    /\ poll' = "first"
    /\ UNCHANGED <<phase, sector, sent, missed, faults>>

HostBlock ==
    /\ phase = "write" /\ poll = "none" /\ sent < Len(Image)
    /\ DnloadBlock(Image[sent + 1])
    /\ poll' = "block"
    /\ UNCHANGED <<phase, sector, sent, missed, faults>>

HostEnd ==
    /\ phase = "write" /\ poll = "none" /\ sent = Len(Image)
    /\ DnloadEnd \/ DnloadEmpty
    /\ phase' = "finish"
    /\ UNCHANGED <<sector, sent, poll, missed, faults>>

\* The data stage comes after the device has stopped waiting for it: the
\* device answers the status stage all the same and the host cannot tell.
HostCommandLate ==
    /\ faults < MaxFaults
    /\ phase \in {"erase", "address"} /\ poll = "none"
    /\ DnloadCommandTimeout
    /\ poll' = "first"
    /\ faults' = faults + 1
    /\ UNCHANGED <<phase, sector, sent, missed>>

HostBlockLate ==
    /\ faults < MaxFaults
    /\ phase = "write" /\ poll = "none" /\ sent < Len(Image)
    /\ DnloadBlockTimeout(Image[sent + 1])
    /\ poll' = "block"
    /\ missed' = TRUE
    /\ faults' = faults + 1
    /\ UNCHANGED <<phase, sector, sent>>

(***************************************************************************)
(* A status poll, by what it returns.                                      *)
(***************************************************************************)
Answered(status, state) == reply'.status = status /\ reply'.state = state

\* What follows a DfuSe command that is over.
Proceed ==
    /\ \/ /\ phase = "erase" /\ sector < LastSector
          /\ sector' = sector + 1
          /\ UNCHANGED phase
       \/ /\ phase = "erase" /\ sector = LastSector
          /\ phase' = "address"
          /\ UNCHANGED sector
       \/ /\ phase = "address"
          /\ phase' = "write"
          /\ UNCHANGED sector
    /\ UNCHANGED sent

PollBusy ==
    /\ poll \in {"first", "busy", "block"}
    /\ Answered("OK", "dfuDNBUSY")
    /\ poll' = IF poll = "first" THEN "busy" ELSE poll
    /\ UNCHANGED <<phase, sector, sent>>

PollReady ==
    /\ Answered("OK", "dfuDNLOAD_IDLE")
    /\ \/ poll = "busy" /\ Proceed
       \/ poll = "block" /\ sent' = sent + 1 /\ UNCHANGED <<phase, sector>>
    /\ poll' = "none"

PollFinished ==
    /\ phase = "finish" /\ poll = "none"
    /\ Answered("OK", "dfuIDLE")
    /\ phase' = "done"
    /\ UNCHANGED <<sector, sent, poll>>

PollSurprise ==
    /\ \/ poll = "first" /\ ~Answered("OK", "dfuDNBUSY")
       \/ /\ poll \in {"busy", "block"}
          /\ ~Answered("OK", "dfuDNBUSY") /\ ~Answered("OK", "dfuDNLOAD_IDLE")
       \/ phase = "finish" /\ ~Answered("OK", "dfuIDLE")
    /\ phase' = "failed"
    /\ poll' = "none"
    /\ UNCHANGED <<sector, sent>>

HostPoll ==
    /\ GetStatus
    /\ PollBusy \/ PollReady \/ PollFinished \/ PollSurprise
    /\ UNCHANGED <<missed, faults>>

\* dfu-util's leave request, and the user's next attempt.
HostLeave ==
    /\ phase = "done"
    /\ Detach
    /\ phase' = "left"
    /\ UNCHANGED <<sector, sent, poll, missed, faults>>

HostRetry ==
    /\ phase = "failed"
    /\ phase' = "start"
    /\ UNCHANGED <<vars, sector, sent, poll, missed, faults>>

(***************************************************************************)
(* The power fails: between two requests, or inside the flash operation of *)
(* the request the host is about to send.  A host that has left does not   *)
(* notice.                                                                 *)
(***************************************************************************)
HostPowerLoss ==
    /\ faults < MaxFaults
    /\ \/ PowerLoss
       \/ phase = "erase" /\ poll = "none" /\ PowerLossInErase(SectorBase(sector))
       \/ /\ phase = "write" /\ poll = "none" /\ sent < Len(Image)
          /\ PowerLossInWrite(Image[sent + 1])
    /\ phase' = IF phase = "left" THEN "left" ELSE "failed"
    /\ poll' = "none"
    /\ faults' = faults + 1
    /\ UNCHANGED <<sector, sent, missed>>

\* The device resets itself after the detach; the host is gone.
Leave ==
    /\ DetachReset
    /\ UNCHANGED hostVars

HostRequest == HostClear \/ HostCommand \/ HostBlock \/ HostEnd \/ HostPoll \/ HostLeave
Fault == HostCommandLate \/ HostBlockLate \/ HostPowerLoss

SessionNext == HostRequest \/ HostRetry \/ Fault \/ Leave

SessionSpec == SessionInit /\ [][SessionNext]_sessionVars

-----------------------------------------------------------------------------
(***************************************************************************)
(* Why the update works: the inductive invariant behind the two safety     *)
(* properties.  It ties the host's progress to the device's state machine, *)
(* to the address pointer and to the contents of the flash.                *)
(***************************************************************************)
Stored(k) == \A r \in ImageRows(k) : flash[r] = Image[k]
BlankSector(s) == \A r \in SectorRows(s) : flash[r] = Blank

\* Blocks sent in this session, the one being polled included.
Taken == IF poll = "block" THEN sent + 1 ELSE sent

\* The DfuSe command being polled has been carried out.
CommandDone == poll = "busy" \/ (poll = "first" /\ DFU_State = "dfuDNBUSY")

ProtocolInv ==
    /\ sector \in HostSectors
    /\ need_detach => phase = "left"
    /\ phase \in {"erase", "address"} =>
          /\ sent = 0
          /\ poll # "block"
          /\ poll = "none" => DFU_State # "dfuDNBUSY"
    /\ phase = "write" =>
          /\ poll \in {"none", "block"}
          /\ poll = "none" => DFU_State = "dfuDNLOAD_IDLE"
          /\ poll = "block" => sent < Len(Image)
    /\ phase \notin {"erase", "address", "write"} => poll = "none"

\* A lost block leaves the pointer behind, never ahead.
PointerInv ==
    /\ phase = "address" /\ CommandDone => CurrentAddr = AppStart
    /\ phase = "write" => \E j \in 0 .. Taken : /\ CurrentAddr = BlockAddr(j + 1)
                                                /\ missed \/ j = Taken

FlashInv ==
    /\ phase = "erase" =>
          \A s \in HostSectors : s < sector \/ (s = sector /\ CommandDone) => BlankSector(s)
    /\ phase = "address" => \A s \in HostSectors : BlankSector(s)
    /\ phase = "write" /\ ~missed =>
          \A k \in 1 .. Len(Image) :
             /\ k <= sent \/ (k = Taken /\ DFU_State # "dfuERROR") => Stored(k)
             /\ k > Taken => \A r \in ImageRows(k) : flash[r] = Blank
    /\ phase \in {"finish", "done", "left"} /\ ~missed =>
          \A k \in 1 .. Len(Image) : Stored(k)

SessionInv == SessionTypeOK /\ ProtocolInv /\ PointerInv /\ FlashInv

(***************************************************************************)
(* An update the host believes in is in the flash: at the end every row of *)
(* every block holds that block, whatever was erased, refused, torn or     *)
(* retried before, if each data stage of this session came in time.        *)
(***************************************************************************)
DoneMeansImage ==
    phase \in {"done", "left"} /\ ~missed => \A k \in 1 .. Len(Image) : Stored(k)

(***************************************************************************)
(* Whatever happens to an update, the rows outside the sectors of the      *)
(* image are never touched: not by a block after a lost one, not by the    *)
(* empty download that ends the session, not by a retry that finds the     *)
(* address pointer of an earlier session.                                  *)
(***************************************************************************)
OutsideUntouched ==
    [][\A r \in Rows \ HostRows : flash'[r] = flash[r]]_sessionVars

-----------------------------------------------------------------------------
(***************************************************************************)
(* Host, device and flash together implement FirmwareUpdate.               *)
(***************************************************************************)
Stage == CASE phase \in {"start", "failed"} -> "idle"
           [] phase \in {"erase", "address"} -> "emptying"
           [] phase \in {"write", "finish"} -> "filling"
           [] OTHER -> "confirmed"

StoredBlocks == {k \in 1 .. Len(Image) : Stored(k)}

Update == INSTANCE FirmwareUpdate
            WITH Length <- Len(Image), stage <- Stage, stored <- StoredBlocks, lossy <- missed

(***************************************************************************)
(* Every attempt, the retries after a power loss included, empties the     *)
(* place of the image before the first block, fills it in order, and is    *)
(* only taken for finished when the image is complete; between attempts    *)
(* and after the last one nothing is lost.                                 *)
(***************************************************************************)
ImplementsUpdate == Update!UpdateSpec
=============================================================================
