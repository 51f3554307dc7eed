------------------------------- MODULE MCBuddy -------------------------------
(* Constants of the checked instances of Buddy. *)
EXTENDS Buddy

PowersOfTwo == [o \in Orders |-> 2 ^ o]
Reserved2 == {2}
Zeroed == {0}
==============================================================================
