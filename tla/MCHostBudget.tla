---------------------------- MODULE MCHostBudget ----------------------------
(***************************************************************************)
(* Small instances of HostBudget for TLC.                                  *)
(***************************************************************************)
EXTENDS HostBudget, TLC

Of(c, m) == [cpus |-> c, memory |-> m]

\* Three cores and five units of memory to give away; a word holds fifteen.
SmallHost == Of(5, 7)
SmallReserve == Of(2, 2)
DiskFloors == [w \in Workload |-> IF w = "build" THEN 2 ELSE 1]

\* Somebody else's machine has more memory than a word can say.
ForeignSizes == {Of(1, 20)}

\* No action and no property tells invocations or sessions apart.
Interchangeable == Permutations(Invocation) \cup Permutations(Session)
=============================================================================
