-------------------------- MODULE BootSystem_proofs --------------------------
(***************************************************************************)
(* The machine of BootSystem, for every layout and image: it implements    *)
(* the update of DfuSession, so the theorems about that hold of it; its    *)
(* own invariant is inductive; and a finished update starts its image.     *)
(***************************************************************************)
EXTENDS BootSystem, DfuSession_proofs

(***************************************************************************)
(* Resets, restarts, the button and the application are stutters of the    *)
(* update: whatever main decides, the update of DfuSession goes on or has  *)
(* to be taken up again.                                                   *)
(***************************************************************************)
LEMMA SystemStepIsSessionStep == [SystemNext]_systemVars => [SessionNext]_sessionVars
  BY DEF SystemNext, systemVars, main, Serve, user_app_start_user, PowerFails, PowerCycle,
     AppReset, PinOn, PinOff, Retry, SessionNext, Fault

THEOREM SystemImplementsSession == SystemSpec => SessionSpec
<1>1. SystemInit => SessionInit
  BY DEF SystemInit
<1>2. QED
  BY <1>1, SystemStepIsSessionStep, PTL DEF SystemSpec, SessionSpec

\* The properties of an update hold on the whole machine.
THEOREM SystemKeepsSession == SystemSpec => []SessionInv /\ []DoneMeansImage /\ OutsideUntouched
<1>1. QED
  BY SystemImplementsSession, SessionInvariant, SessionDoneMeansImage, SessionOutsideUntouched, PTL

-----------------------------------------------------------------------------
(***************************************************************************)
(* The first sector of the image has a row, so an image in the flash is    *)
(* seen by the blank check.                                                *)
(***************************************************************************)
LEMMA FirstRow == \E r \in Rows : r \in ImageRows(1) /\ r \in SectorRows(FirstSector)
<1>1. 1 \in 1 .. Len(Image) /\ BlockAddr(1) = AppStart
  BY ImageFacts, Sizes DEF BlockAddr
<1>2. PICK r \in Rows : RowAddr(r) = AppStart /\ r \in ImageRows(1)
  BY <1>1, BlockRow
<1>3. r \in SectorRows(FirstSector)
  BY <1>2, RowSector, SessionAssumption DEF FirstSector
<1>4. QED
  BY <1>2, <1>3

LEMMA AppExists == app_magic_is_existing <=> ~BlankSector(FirstSector)
  BY SessionAssumption DEF app_magic_is_existing, iap_blank_check, BlankCheckStatus,
     BlankSector, FirstSector

LEMMA StoredNotBlank == \A k \in 1 .. Len(Image) : k = 1 /\ Stored(k) => ~BlankSector(FirstSector)
  BY FirstRow, ImageFacts, ContentAssumption DEF Stored, BlankSector

-----------------------------------------------------------------------------
(***************************************************************************)
(* The invariant of the machine, on top of that of the update.             *)
(***************************************************************************)
LEMMA SystemTypeStep == SystemTypeOK /\ [SystemNext]_systemVars => SystemTypeOK'
<1> SUFFICES ASSUME SystemTypeOK, [SystemNext]_systemVars PROVE SystemTypeOK'
  OBVIOUS
<1>1. mode' \in Modes /\ boot_mem' \in share_mem_t
  <2>1. Cleared \in share_mem_t /\ Request \in share_mem_t
    BY DEF Cleared, Request, share_mem_t, Magics
  <2>2. QED
    BY <2>1 DEF SystemTypeOK, Modes, SystemNext, systemVars, bootVars, main, bootmode_start,
       user_app_start_hard, Serve, user_app_start_user, PowerFails, PowerCycle, AppReset,
       PinOn, PinOff, Retry
<1>2. pin' \in BOOLEAN
  BY DEF SystemTypeOK, SystemNext, systemVars, bootVars, main, Serve, user_app_start_user,
     PowerFails, PowerCycle, AppReset, PinOn, PinOff, Retry
<1>3. QED
  BY <1>1, <1>2 DEF SystemTypeOK

LEMMA ClearedIsNoRequest == ~Requested(Cleared)
  BY DEF Requested, Cleared

LEMMA SystemInvStep == SessionInv /\ SystemInv /\ [SystemNext]_systemVars => SystemInv'
<1> SUFFICES ASSUME SessionInv, SystemInv, [SystemNext]_systemVars PROVE SystemInv'
  OBVIOUS
<1>0. /\ SystemTypeOK'
      /\ need_detach => phase = "left"
      /\ mode \in Modes
  BY SystemTypeStep DEF SystemInv, SystemTypeOK, SessionInv, ProtocolInv
<1>1. CASE main
  <2>1. UNCHANGED <<need_detach, phase, flash>>
    BY <1>1 DEF main, sessionVars, vars, hostVars
  <2>2. DeviceAtRest /\ DeviceAtRest'
    BY <1>1, <2>1 DEF main, SystemInv, DeviceAtRest
  <2>3. CASE user_app_start_hard /\ ~boot_mode_requested /\ app_magic_is_existing
    BY <1>0, <2>1, <2>2, <2>3, AppExists
       DEF user_app_start_hard, boot_mode_requested, SystemInv, BlankSector
  <2>4. CASE bootmode_start
    BY <1>0, <2>4 DEF bootmode_start, SystemInv
  <2>5. QED
    BY <1>1, <2>3, <2>4 DEF main
<1>2. CASE Serve
  BY <1>0, <1>2 DEF Serve, bootVars, SystemInv
<1>3. CASE user_app_start_user
  <2>1. mode' = "reset" /\ ~need_detach' /\ phase' = "left"
    BY <1>0, <1>3 DEF user_app_start_user, Leave, DetachReset, Restart, hostVars
  <2>2. QED
    BY <1>0, <2>1 DEF SystemInv, DeviceAtRest
<1>4. CASE PowerFails
  <2>1. mode' = "reset" /\ ~need_detach' /\ phase' \in {"left", "failed"}
    BY <1>4 DEF PowerFails, HostPowerLoss, PowerLoss, PowerLossInErase, PowerLossInWrite, Restart
  <2>2. QED
    BY <1>0, <2>1 DEF SystemInv, DeviceAtRest
<1>5. CASE PowerCycle \/ AppReset
  <2>1. mode' = "reset" /\ UNCHANGED <<need_detach, phase>>
    BY <1>5 DEF PowerCycle, AppReset, sessionVars, vars, hostVars
  <2>2. DeviceAtRest
    BY <1>5 DEF PowerCycle, AppReset, SystemInv, DeviceAtRest
  <2>3. QED
    BY <1>0, <2>1, <2>2 DEF SystemInv, DeviceAtRest
<1>6. CASE PinOn \/ PinOff \/ UNCHANGED systemVars
  BY <1>0, <1>6 DEF PinOn, PinOff, systemVars, sessionVars, vars, hostVars, bootVars,
     SystemInv, DeviceAtRest, BlankSector
<1>7. CASE Retry
  BY <1>0, <1>7 DEF Retry, HostRetry, vars, bootVars, SystemInv, DeviceAtRest, BlankSector
<1>8. QED
  BY <1>1, <1>2, <1>3, <1>4, <1>5, <1>6, <1>7 DEF SystemNext

(***************************************************************************)
(* The application runs only over a sector with something in it, and the   *)
(* bootloader only over a cleared request.                                 *)
(***************************************************************************)
THEOREM SystemInvariant == SystemSpec => []SystemInv
<1>1. SystemInit => SystemInv
  BY DEF SystemInit, SessionInit, Init, SystemInv, SystemTypeOK, Modes, DeviceAtRest
<1>2. SystemSpec => []SessionInv
  BY SystemImplementsSession, SessionInvariant, PTL
<1>3. QED
  BY <1>1, <1>2, SystemInvStep, PTL DEF SystemSpec

LEMMA StartsImageStep ==
  ASSUME SessionInv, SystemInv, [SystemNext]_systemVars
  PROVE  /\ ResetsAfterDetach => ~Requested(boot_mem')
         /\ StartsAfterUpdate /\ ~Requested(boot_mem) /\ ~pin /\ ~missed
              => mode' = "application" /\ \A k \in 1 .. Len(Image) : Stored(k)
<1>1. ASSUME ResetsAfterDetach PROVE ~Requested(boot_mem')
  <2>1. mode = "bootloader" /\ ~Requested(boot_mem)
    BY <1>1, ClearedIsNoRequest DEF ResetsAfterDetach, SystemInv, DeviceAtRest
  <2>2. CASE PowerFails
    <3>1. faults \in Nat
      BY SessionAssumption DEF SessionInv, SessionTypeOK
    <3>2. faults' = faults + 1
      BY <2>2 DEF PowerFails, HostPowerLoss
    <3>3. QED
      BY <1>1, <3>1, <3>2 DEF ResetsAfterDetach
  <2>3. CASE PowerCycle
    BY <2>3 DEF PowerCycle
  <2>4. QED
    BY <2>1, <2>2, <2>3 DEF SystemNext, main, Serve, user_app_start_user, AppReset, PinOn,
       PinOff, Retry, bootVars, systemVars
<1>2. ASSUME StartsAfterUpdate, ~Requested(boot_mem), ~pin, ~missed
      PROVE  mode' = "application" /\ \A k \in 1 .. Len(Image) : Stored(k)
  <2>1. main
    BY <1>2 DEF StartsAfterUpdate, SystemNext, Serve, user_app_start_user, PowerFails,
       PowerCycle, AppReset, PinOn, PinOff, Retry, bootVars, systemVars
  <2>2. \A k \in 1 .. Len(Image) : Stored(k)
    BY <1>2 DEF StartsAfterUpdate, SessionInv, FlashInv
  <2>3. app_magic_is_existing
    BY <2>2, ImageFacts, StoredNotBlank, AppExists
  <2>4. QED
    BY <1>2, <2>1, <2>2, <2>3 DEF main, boot_mode_requested, user_app_start_hard
<1>3. QED
  BY <1>1, <1>2

(***************************************************************************)
(* A finished update starts what it stored, and its reset finds no request.*)
(***************************************************************************)
THEOREM SystemStartsImage == SystemSpec => UpdateStartsImage
<1>1. SystemSpec => []SessionInv
  BY SystemImplementsSession, SessionInvariant, PTL
<1>2. SessionInv /\ SystemInv /\ [SystemNext]_systemVars =>
        [/\ ResetsAfterDetach => ~Requested(boot_mem')
         /\ StartsAfterUpdate /\ ~Requested(boot_mem) /\ ~pin /\ ~missed
              => mode' = "application" /\ \A k \in 1 .. Len(Image) : Stored(k)]_systemVars
  BY StartsImageStep
<1>3. QED
  BY <1>1, <1>2, SystemInvariant, PTL DEF SystemSpec, UpdateStartsImage
=============================================================================
