----------------------------- MODULE MCSessions -----------------------------
(***************************************************************************)
(* Small instances of Sessions for TLC.                                    *)
(***************************************************************************)
EXTENDS Sessions, TLC

\* Invocations, identifiers and images are interchangeable: no action or
\* safety property names one of them.
Interchangeable ==
  Permutations(Invocation) \cup Permutations(Id) \cup Permutations(Image)
=============================================================================
