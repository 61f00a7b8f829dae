----------------------------- MODULE MCDfuDevice -----------------------------
(***************************************************************************)
(* DfuDevice on a flash of two small sectors of one block and one large    *)
(* sector of two, two rows a block, with at most MaxRequests steps.        *)
(***************************************************************************)
EXTENDS DfuDevice

CONSTANTS MaxRequests

VARIABLE requests   \* steps so far

\* A block whose first bytes look like an ERASE command for the last sector.
MCSpells == [b \in Blocks |-> [first |-> ERASE_SECTOR, word |-> 12]]

MCvars == <<vars, requests>>
MCInit == Init /\ requests = 0
MCNext == requests < MaxRequests /\ Next /\ requests' = requests + 1
MCSpec == MCInit /\ [][MCNext]_MCvars
=============================================================================
