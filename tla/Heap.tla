-------------------------------- MODULE Heap --------------------------------
(***************************************************************************)
(* What kmalloc and kfree of src/mm.c promise their callers: an object of  *)
(* n units lies inside the page pool, apart from every other live object,  *)
(* and stays where it is until its owner frees it.                         *)
(***************************************************************************)
EXTENDS Integers

CONSTANTS Limit,    \* units in the page pool
          Sizes     \* the sizes that are asked for

VARIABLE live       \* the objects in use, [addr, size]

Extent(b) == b.addr .. (b.addr + b.size - 1)

Init == live = {}

Malloc(a, n) ==
    LET b == [addr |-> a, size |-> n]
    IN /\ Extent(b) \subseteq 0 .. (Limit - 1)
       /\ \A c \in live : a # c.addr /\ Extent(b) \cap Extent(c) = {}
       /\ live' = live \cup {b}

Free(b) == b \in live /\ live' = live \ {b}

Next == \/ \E a \in 0 .. (Limit - 1), n \in Sizes : Malloc(a, n)
        \/ \E b \in live : Free(b)

Spec == Init /\ [][Next]_live
=============================================================================
