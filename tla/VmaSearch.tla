------------------------------ MODULE VmaSearch ------------------------------
(***************************************************************************)
(* The areas of an address space as a list of [start, end, prot], and the  *)
(* searches of src/mm.c in it: the place create_vma gives a new area       *)
(* (chk_vma_valid) and the area of a faulting address.  Addresses are in   *)
(* units smaller than a page.                                              *)
(***************************************************************************)
EXTENDS Integers, Sequences, SequencesExt

CONSTANTS Procs,     \* processes, each with an mm_struct of its own
          Page,      \* PGSIZE
          TextSizes, \* PGROUNDUP(execute->len) of the programs
          Stack,     \* USER_STACK
          StackSize, \* THREAD_SIZE * 4
          Addrs,     \* addresses and lengths mmap is asked for
          Lens,
          Prots,     \* protections mmap is asked for
          MaxAreas,  \* bound: areas of one address space
          Wrap       \* 2^64, at which unsigned long wraps

NONE == 0
RW == 3

ASSUME VmaAssumption ==
    /\ Page \in Nat \ {0} /\ MaxAreas \in Nat /\ Wrap \in Nat
    /\ Stack \in Nat /\ StackSize \in Nat /\ Stack % Page = 0 /\ Stack + StackSize < Wrap
    /\ Addrs \subseteq Nat /\ Lens \subseteq Nat /\ Prots \subseteq {NONE, RW}
    /\ \A t \in TextSizes : t \in Nat \ {0} /\ t % Page = 0 /\ t < Stack
    /\ \A a \in Addrs, n \in Lens : Stack + StackSize + a + n + Page < Wrap

PGROUNDDOWN(a) == a - (a % Page)
PGROUNDUP(a) == PGROUNDDOWN(a + Page - 1)
Area(start, size, prot) == [start |-> start, end |-> start + size, prot |-> prot]

(* chk_vma_valid: the start asked for, if no area overlaps or touches;     *)
(* else the end of the first area with a larger gap behind it; else 0.     *)
Apart(v, w) == v.start > w.end \/ v.end < w.start
Free(L, start, size) == \A k \in DOMAIN L : Apart(L[k], Area(start, size, NONE))
GapAfterStart(L, k) == L[k + 1].start - L[k].start   \* mutant: from the start
GapAfter(L, k) == (PGROUNDDOWN(L[k + 1].start) - PGROUNDUP(L[k].end)) % Wrap
Gaps(L, size) == {k \in 1 .. (Len(L) - 1) : GapAfter(L, k) > size}
FirstGap(L, size) == CHOOSE k \in Gaps(L, size) : \A j \in Gaps(L, size) : k <= j

chk_vma_valid(L, start, size) ==
    IF Free(L, start, size) THEN start
    ELSE IF Gaps(L, size) # {} THEN PGROUNDUP(L[FirstGap(L, size)].end)
    ELSE 0

(* chk_vma_valid answers 0, where the text is. *)
NoRoom(L, start, size) == ~Free(L, start, size) /\ Gaps(L, size) = {}

(***************************************************************************)
(* The fault handler's searches.                                           *)
(***************************************************************************)
chk_addr_valid(L, a) == \E k \in DOMAIN L : a >= L[k].start /\ a <= L[k].end

AreaAtInclusive(L, a) ==   \* mutant: the end belongs to the area here too
    LET k == SelectInSeq(L, LAMBDA v : a >= v.start /\ a <= v.end)
    IN IF k = 0 THEN Len(L) ELSE k
AreaAt(L, a) ==   \* the last one when none matches
    LET k == SelectInSeq(L, LAMBDA v : a >= v.start /\ a < v.end)
    IN IF k = 0 THEN Len(L) ELSE k
==============================================================================
