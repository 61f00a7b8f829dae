---------------------------- MODULE MCBootSystem ----------------------------
(***************************************************************************)
(* BootSystem with an image of three blocks in one large sector and half   *)
(* of the next.                                                            *)
(***************************************************************************)
EXTENDS BootSystem

CONSTANTS b1, b2

MCSpells == [b \in Blocks |-> [first |-> ERASE_SECTOR, word |-> 12]]
MCImage == <<b1, b2, b1>>
=============================================================================
