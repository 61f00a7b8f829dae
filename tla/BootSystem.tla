------------------------------ MODULE BootSystem ------------------------------
(***************************************************************************)
(* The whole machine around an update: what src/main.c does at a reset,    *)
(* the memory the bootloader shares with the application, the BOOT_MODE    *)
(* pin, and the user, over the update of DfuSession.                       *)
(*                                                                         *)
(* A reset leads to main, which starts the application or the bootloader.  *)
(* A system reset keeps the shared memory (the linker does not initialise  *)
(* it); after a power failure it holds anything.  The application is not   *)
(* in the repository: all it does here is reset the machine, with or       *)
(* without the boot request the Readme describes.                          *)
(***************************************************************************)
EXTENDS DfuSession

VARIABLES
    mode,      \* where the processor is
    pin,       \* BOOT_ON_TEST(): the BOOT_MODE pin is active
    boot_mem   \* share_mem_t

bootVars == <<mode, pin, boot_mem>>
systemVars == <<sessionVars, bootVars>>

Modes == {"reset", "application", "bootloader"}

\* boot_mode_magic: the eight bytes of the Readme, the same but for the last
\* byte, or none of these.
Magics == {"boot001", "boot001?", "other"}
share_mem_t == [magic : Magics, request : 0 .. 2]
Cleared == [magic |-> "other", request |-> 0]
Request == [magic |-> "boot001", request |-> 1]

SystemInit ==
    /\ SessionInit
    /\ mode = "reset"
    /\ pin \in BOOLEAN
    /\ boot_mem \in share_mem_t

-----------------------------------------------------------------------------
(***************************************************************************)
(* main.                                                                   *)
(***************************************************************************)

\* strncmp over the seven characters of BOOT_SHARE_MAGIC, and any request
\* that is not zero.
Requested(mem) == mem.magic \in {"boot001", "boot001?"} /\ mem.request # 0

boot_mode_requested == Requested(boot_mem) \/ pin

\* Faulty: a sector found blank is taken for an application.
Faulty_app_magic_is_existing ==
    BlankCheckStatus(flash, sector_by_address(AppStart)) = "CMD_SUCCESS"

app_magic_is_existing == iap_blank_check(flash, AppStart)

\* Faulty: the shared memory is left as it is.
Faulty_bootmode_start ==
    /\ mode' = "bootloader"
    /\ UNCHANGED boot_mem

\* The shared memory is cleared, and the USB task starts from its initial
\* state: the device's Restart of the reset before.
bootmode_start ==
    /\ mode' = "bootloader"
    /\ boot_mem' = Cleared

user_app_start_hard ==
    /\ mode' = "application"
    /\ UNCHANGED boot_mem

main ==
    /\ mode = "reset"
    /\ IF ~boot_mode_requested /\ app_magic_is_existing
       THEN user_app_start_hard ELSE bootmode_start
    /\ UNCHANGED <<sessionVars, pin>>

\* The bootloader at work: the requests of a host, and the reset of
\* user_app_start_user after a DETACH, which keeps the shared memory.
Serve ==
    /\ mode = "bootloader"
    /\ HostRequest \/ HostCommandLate \/ HostBlockLate
    /\ UNCHANGED bootVars

user_app_start_user ==
    /\ mode = "bootloader"
    /\ Leave
    /\ mode' = "reset"
    /\ UNCHANGED <<pin, boot_mem>>

-----------------------------------------------------------------------------
(***************************************************************************)
(* The world.                                                              *)
(***************************************************************************)

\* A power failure counts as a fault; the memory holds anything afterwards.
PowerFails ==
    /\ HostPowerLoss
    /\ mode # "bootloader" => UNCHANGED flash
    /\ mode' = "reset"
    /\ boot_mem' \in share_mem_t
    /\ UNCHANGED pin

\* The user turns the machine off and on between two updates.  That the
\* memory then spells a request by chance is left to PowerFails.
PowerCycle ==
    /\ \/ mode = "application" /\ phase = "start"
       \/ mode = "bootloader" /\ phase = "left" /\ ~need_detach
    /\ mode' = "reset"
    /\ boot_mem' \in {mem \in share_mem_t : ~Requested(mem)}
    /\ UNCHANGED <<sessionVars, pin>>

\* The application resets the machine: for an update, or for reasons of its
\* own.  Only an update makes it write to the shared memory.
AppReset ==
    /\ mode = "application"
    /\ mode' = "reset"
    /\ \/ phase = "start" /\ boot_mem' = Request
       \/ UNCHANGED boot_mem
    /\ UNCHANGED <<sessionVars, pin>>

\* The user presses the button to get into the bootloader for an update, and
\* lets it go once there.
PinOn ==
    /\ mode # "bootloader" /\ phase = "start" /\ ~pin
    /\ pin' = TRUE
    /\ UNCHANGED <<sessionVars, mode, boot_mem>>

PinOff ==
    /\ mode = "bootloader" /\ pin
    /\ pin' = FALSE
    /\ UNCHANGED <<sessionVars, mode, boot_mem>>

Retry == HostRetry /\ UNCHANGED bootVars

SystemNext ==
    \/ main \/ Serve \/ user_app_start_user
    \/ PowerFails \/ PowerCycle \/ AppReset \/ PinOn \/ PinOff \/ Retry

SystemSpec == SystemInit /\ [][SystemNext]_systemVars

(***************************************************************************)
(* The processor runs; task_loop polls the stack and does the pending      *)
(* reset; the host sends its next request; the user tries again, with the  *)
(* button when no other way leads into the bootloader, and turns the       *)
(* machine off and on even if the application resets it all the time.      *)
(* Nothing is asked of the application, which may be a torn image.         *)
(***************************************************************************)
Fairness ==
    /\ WF_systemVars(main)
    /\ WF_systemVars(Serve /\ HostRequest)
    /\ WF_systemVars(user_app_start_user)
    /\ WF_systemVars(Retry)
    /\ WF_systemVars(PinOn)
    /\ WF_systemVars(PinOff)
    /\ SF_systemVars(PowerCycle)

FairSystem == SystemSpec /\ Fairness

-----------------------------------------------------------------------------
(***************************************************************************)
(* The inductive invariant of the machine: the application only runs over  *)
(* a sector that is not blank, the bootloader only over a cleared request  *)
(* (which is why a request cannot bring it back for ever), the device is   *)
(* at rest while it does not run, and the reset after a finished update    *)
(* finds no request.                                                       *)
(***************************************************************************)
SystemTypeOK ==
    /\ mode \in Modes
    /\ pin \in BOOLEAN
    /\ boot_mem \in share_mem_t

DeviceAtRest == ~need_detach /\ phase \in {"start", "failed", "left"}

SystemInv ==
    /\ SystemTypeOK
    /\ mode = "application" => ~BlankSector(FirstSector) /\ ~Requested(boot_mem)
    /\ mode = "bootloader" => boot_mem = Cleared
    /\ mode # "bootloader" => DeviceAtRest

(***************************************************************************)
(* A finished update starts what it stored: the system reset that ends it, *)
(* with the pin released and no power failure on the way, leads to the     *)
(* application and never back into the bootloader, although the application*)
(* may have entered it with a request in memory that a reset keeps.        *)
(***************************************************************************)
ResetsAfterDetach == need_detach /\ ~need_detach' /\ faults' = faults
StartsAfterUpdate == phase = "left" /\ mode = "reset" /\ mode' # "reset"

UpdateStartsImage ==
    [][/\ ResetsAfterDetach => ~Requested(boot_mem')
       /\ StartsAfterUpdate /\ ~Requested(boot_mem) /\ ~pin /\ ~missed
             => mode' = "application" /\ \A k \in 1 .. Len(Image) : Stored(k)]_systemVars

(***************************************************************************)
(* An update can always be taken up again and ends: after finitely many    *)
(* faults, wherever they cut it, some attempt ends and the device resets.  *)
(***************************************************************************)
UpdateEnds == <>(phase = "left" /\ ~need_detach)

(***************************************************************************)
(* Readme.md:10-11: the bootloader runs if the flash is empty at the user  *)
(* application's address.                                                  *)
(***************************************************************************)
EmptyMeansBootloader ==
    mode = "application" => \E r \in WindowRows(AppStart, RowSize) : flash[r] # Blank
=============================================================================
