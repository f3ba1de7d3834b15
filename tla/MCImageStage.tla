---------------------------- MODULE MCImageStage ----------------------------
(***************************************************************************)
(* Small instances of ImageStage for TLC.                                  *)
(***************************************************************************)
EXTENDS ImageStage, TLC

CONSTANTS gateway, audit, v0, v1, v2

Of(deps, other, src) == [deps |-> deps, other |-> other, src |-> src]

\* The guest program depends on the other crate in a way that is followed or
\* in one that is not; the other crate is in one of two versions, or not
\* there.
SmallContents ==
  (gateway :> {Of({audit}, {}, v0), Of({}, {audit}, v0)}) @@
  (audit :> {Of({}, {}, v1), Of({}, {}, v2), Absent})

\* Processes are not told apart, nor are the versions of the other crate.
Interchangeable == Permutations(Process) \cup Permutations({v1, v2})
=============================================================================
