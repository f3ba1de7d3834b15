----------------------------- MODULE MCLending -----------------------------
(***************************************************************************)
(* Small instances of Lending for TLC.                                     *)
(***************************************************************************)
EXTENDS Lending, TLC

\* No action and no property tells one opening from another.
Interchangeable == Permutations(Opening)
=============================================================================
