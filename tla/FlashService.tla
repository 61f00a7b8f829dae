----------------------------- MODULE FlashService -----------------------------
(***************************************************************************)
(* The flash driver as its callers know it: every call of iap_erase,       *)
(* iap_write and iap_blank_check is one step and returns an answer.        *)
(***************************************************************************)
EXTENDS FlashDriver

VARIABLE returned   \* what the last call returned

serviceVars == <<flash, prepared, returned>>

ServiceInit ==
    /\ flash \in [Rows -> Content]
    /\ prepared = {}
    /\ returned = FALSE

ServiceNext ==
    /\ returned' \in BOOLEAN
    /\ \E address \in Addresses :
          \/ iap_erase(address, returned')
          \/ \E block \in Blocks \cup {Zeros} : iap_write(address, block, returned')
          \/ /\ returned' = iap_blank_check(flash, address)
             /\ UNCHANGED <<flash, prepared>>

ServiceSpec == ServiceInit /\ [][ServiceNext]_serviceVars
=============================================================================
