------------------------- MODULE MCCudaBufferOwners -------------------------
(* CudaBufferOwners for TLC: two read handles, of which none is special. *)
EXTENDS CudaBufferOwners, TLC

CONSTANTS r1, r2

\* No definition tells the read handles apart.
Symmetry == Permutations({r1, r2})
=============================================================================
