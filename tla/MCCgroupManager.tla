--------------------------- MODULE MCCgroupManager ---------------------------
(***************************************************************************)
(* The instances of CgroupManager that TLC checks.  Executions are         *)
(* interchangeable, and so are identifiers.                                *)
(***************************************************************************)
EXTENDS CgroupManager, TLC

\* A prepared machine whose identifiers do not repeat ..
FreshHost == [reuse |-> FALSE, leftovers |-> FALSE, delegated |-> TRUE]

\* .. and one where all that may be wrong with names is, and nobody has
\* prepared the tree for certain.
BusyHost == [reuse |-> TRUE, leftovers |-> TRUE, delegated |-> FALSE]

FreshAndBusy == {FreshHost, BusyHost}

Symmetry == Permutations(Runs) \cup Permutations(Pids)

=============================================================================
