----------------------------- MODULE FlashDriver -----------------------------
(***************************************************************************)
(* What src/iap/iap.c promises its callers: an erase and a write of the    *)
(* flash, each as one step with the answer the caller gets.  IapDriver has *)
(* the ROM commands behind it.                                             *)
(***************************************************************************)
EXTENDS FlashLayout

CONSTANT RomMayFail   \* may the ROM refuse a command whose arguments are right
ASSUME RomAssumption == RomMayFail \in BOOLEAN

VARIABLES
    flash,      \* [Rows -> Content]
    prepared    \* sectors the ROM holds open for a copy or an erase

(***************************************************************************)
(* iap.c.  Each call opens the sector of the address and then issues the   *)
(* command; ok is the value it returns.  A refusal after the first command *)
(* leaves the sector open.                                                 *)
(***************************************************************************)
\* Faulty: iap_erase that does not look at the answer to the erase command,
\* of a ROM that refuses it.
FaultyEraseUnchecked(address, ok) ==
    LET s == sector_by_address(address) IN
    /\ ok = (PrepareStatus(s) = "CMD_SUCCESS")
    /\ flash' = IF ok /\ ~RomMayFail THEN Erased(flash, s) ELSE flash
    /\ UNCHANGED prepared

iap_erase(address, ok) ==
    LET s == sector_by_address(address) IN
    \/ /\ PrepareStatus(s) # "CMD_SUCCESS" /\ ~ok
       /\ UNCHANGED <<flash, prepared>>
    \/ /\ PrepareStatus(s) = "CMD_SUCCESS" /\ ~ok /\ RomMayFail
       /\ prepared' = prepared \cup {s}
       /\ UNCHANGED flash
    \/ /\ PrepareStatus(s) = "CMD_SUCCESS" /\ ok
       /\ flash' = Erased(flash, s)
       /\ prepared' = prepared \ {s}

\* Faulty: iap_write that does not look at the answer to the first command.
FaultyWriteUnchecked(address, block, ok) ==
    /\ prepared' = prepared \cup {sector_by_address(address)}
    /\ ok = (CopyStatus(address, prepared') = "CMD_SUCCESS")
    /\ flash' = IF ok THEN Written(flash, address, block) ELSE flash

iap_write(address, block, ok) ==
    LET s == sector_by_address(address)
        opened == prepared \cup {s} IN
    \/ /\ PrepareStatus(s) # "CMD_SUCCESS" /\ ~ok
       /\ UNCHANGED <<flash, prepared>>
    \/ /\ PrepareStatus(s) = "CMD_SUCCESS" /\ ~ok
       /\ CopyStatus(address, opened) # "CMD_SUCCESS" \/ RomMayFail
       /\ prepared' = opened
       /\ UNCHANGED flash
    \/ /\ PrepareStatus(s) = "CMD_SUCCESS" /\ ok
       /\ CopyStatus(address, opened) = "CMD_SUCCESS"
       /\ flash' = Written(flash, address, block)
       /\ prepared' = {t \in opened : SectorRows(t) \cap WindowRows(address, TransferSize) = {}}
=============================================================================
