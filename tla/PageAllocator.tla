---------------------------- MODULE PageAllocator ----------------------------
(***************************************************************************)
(* What src/mm.c promises to the callers of alloc_pages and free_pages:    *)
(* a granted block is a naturally aligned run of 2^order page frames that  *)
(* no other granted block touches; it keeps its place and its size until   *)
(* the last of its owners gives it back.  How free memory is kept is not   *)
(* said here: that is module Buddy, which implements this one.             *)
(***************************************************************************)
EXTENDS Integers

CONSTANTS Orders,    \* the block orders that may be asked for
          Size,      \* Size[o]: page frames in a block of order o
          Frames     \* the page frames of the pool

VARIABLES owners,    \* owners[f]: references to the granted block headed by f
          ord        \* ord[f]: its order; 0 when f heads no granted block

avars == <<owners, ord>>

Span(f, o) == f .. (f + Size[o] - 1)

Granted == {f \in Frames : owners[f] > 0}

Init == /\ owners = [f \in Frames |-> 0]
        /\ ord = [f \in Frames |-> 0]

Room(f, o) ==
    /\ f % Size[o] = 0
    /\ Span(f, o) \subseteq Frames
    /\ \A g \in Granted : Span(f, o) \cap Span(g, ord[g]) = {}

Alloc(f, o) ==
    /\ Room(f, o)
    /\ owners' = [owners EXCEPT ![f] = 1]
    /\ ord' = [ord EXCEPT ![f] = o]

Share(f) ==
    /\ f \in Granted
    /\ owners' = [owners EXCEPT ![f] = @ + 1]
    /\ UNCHANGED ord

Drop(f) ==
    /\ f \in Granted
    /\ owners' = [owners EXCEPT ![f] = @ - 1]
    /\ ord' = [ord EXCEPT ![f] = IF owners[f] = 1 THEN 0 ELSE @]

Next == \E f \in Frames : Share(f) \/ Drop(f) \/ \E o \in Orders : Alloc(f, o)

Spec == Init /\ [][Next]_avars
==============================================================================
