------------------------------ MODULE MCThreads ------------------------------
(* Constants of the checked instances of Threads. *)
EXTENDS Threads

CONSTANTS init, t1, t2

Three == {init, t1, t2}
Two == {init, t1}
==============================================================================
