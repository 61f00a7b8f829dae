----------------------------- MODULE MCIapDriver -----------------------------
(***************************************************************************)
(* IapDriver on a flash of three sectors.                                  *)
(***************************************************************************)
EXTENDS IapDriver
=============================================================================
