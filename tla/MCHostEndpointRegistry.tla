----------------------- MODULE MCHostEndpointRegistry -----------------------
(* HostEndpointRegistry for TLC: three processes, of which none is special. *)
EXTENDS HostEndpointRegistryRefinement, TLC

CONSTANTS p1, p2, p3, i1, i2

MCProc == {p1, p2, p3}
MCSlot == {i1, i2}

\* No definition tells the processes apart, nor the slots.
Symmetry == Permutations(MCProc) \cup Permutations(MCSlot)
=============================================================================
