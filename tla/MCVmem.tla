-------------------------------- MODULE MCVmem -------------------------------
(* The constants of the checked instances of Vmem are model values. *)
EXTENDS Vmem
CONSTANTS p, q
==============================================================================
