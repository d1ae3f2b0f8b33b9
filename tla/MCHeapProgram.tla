--------------------------- MODULE MCHeapProgram ---------------------------
(***************************************************************************)
(* Small instances of HeapProgram for TLC.                                 *)
(***************************************************************************)
EXTENDS HeapProgram, TLC

Symmetry == Permutations(Threads)
=============================================================================
