---------------------------- MODULE MCCodexFiles ----------------------------
(***************************************************************************)
(* Small instances of CodexFiles for TLC.                                  *)
(***************************************************************************)
EXTENDS CodexFiles
=============================================================================
