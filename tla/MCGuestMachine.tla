--------------------------- MODULE MCGuestMachine ---------------------------
(***************************************************************************)
(* Small instances of GuestMachine for TLC.                                *)
(***************************************************************************)
EXTENDS GuestMachine
=============================================================================
