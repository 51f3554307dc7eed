------------------------------ MODULE MCKmalloc ------------------------------
(* Constants of the checked instances of Kmalloc: two pools, with 4 and 2  *)
(* objects to a page.                                                      *)
EXTENDS Kmalloc

PowersOfTwo == [o \in Orders |-> 2 ^ o]
TwoSizes == [c \in Classes |-> 2 ^ c]
=============================================================================
