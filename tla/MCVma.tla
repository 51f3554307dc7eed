-------------------------------- MODULE MCVma --------------------------------
(* Constants of the checked instance of VmaList. *)
EXTENDS VmaList

CONSTANTS p1, p2

MCProcs == {p1, p2}
MCSymmetry == Permutations(MCProcs)
==============================================================================
