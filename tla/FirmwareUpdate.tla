---------------------------- MODULE FirmwareUpdate ----------------------------
(***************************************************************************)
(* What an update of the firmware promises, without flash, addresses or    *)
(* protocol: an attempt first empties the place of the image and then      *)
(* fills it in order, it can be given up anywhere, it is confirmed only    *)
(* when every block is in place, and outside an attempt nothing changes.   *)
(* An attempt that lost a block on the way (lossy) promises only the last. *)
(***************************************************************************)
EXTENDS Integers

CONSTANT Length   \* blocks of the image

VARIABLES
    stage,    \* of the attempt
    stored,   \* the blocks of the image that are in place
    lossy     \* a block of this attempt did not arrive

updateVars == <<stage, stored, lossy>>

Positions == 1 .. Length

UpdateInit ==
    /\ stage = "idle"
    /\ stored \in SUBSET Positions   \* whatever was there before
    /\ lossy = FALSE

Begin ==
    /\ stage = "idle" /\ stage' = "emptying"
    /\ lossy' = FALSE
    /\ UNCHANGED stored

\* Going on, or losing the power in the middle.
GoesOn == stage' \in {stage, "idle"} /\ UNCHANGED lossy

Empty ==
    /\ stage = "emptying"
    /\ stored' \in SUBSET stored
    /\ GoesOn

Emptied ==
    /\ stage = "emptying" /\ stored = {} /\ stage' = "filling"
    /\ UNCHANGED <<stored, lossy>>

Fill ==
    /\ stage = "filling"
    /\ \E k \in Positions \ stored : 1 .. (k - 1) \subseteq stored /\ stored' = stored \cup {k}
    /\ GoesOn

Lose ==
    /\ stage = "filling"
    /\ lossy' = TRUE
    /\ UNCHANGED <<stage, stored>>

FillWrong ==
    /\ stage = "filling" /\ lossy
    /\ stored' \in SUBSET Positions
    /\ GoesOn

Confirm ==
    /\ stage = "filling" /\ (stored = Positions \/ lossy)
    /\ stage' = "confirmed"
    /\ UNCHANGED <<stored, lossy>>

GiveUp ==
    /\ stage' = "idle"
    /\ UNCHANGED <<stored, lossy>>

UpdateNext == Begin \/ Empty \/ Emptied \/ Fill \/ Lose \/ FillWrong \/ Confirm \/ GiveUp

UpdateSpec == UpdateInit /\ [][UpdateNext]_updateVars
=============================================================================
