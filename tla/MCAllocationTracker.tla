------------------------ MODULE MCAllocationTracker ------------------------
(***************************************************************************)
(* Small instances of AllocationTracker for TLC.                           *)
(***************************************************************************)
EXTENDS AllocationTracker, TLC

\* Threads are interchangeable (safety runs only).
Symmetry == Permutations(Threads)
=============================================================================
