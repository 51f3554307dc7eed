------------------------------- MODULE Kmalloc -------------------------------
(***************************************************************************)
(* The kernel heap of src/mm.c: kmalloc and kfree, over pools of equal     *)
(* objects carved out of single pages, and over the page allocator for     *)
(* whatever is larger.  The page allocator is taken at its promise, module *)
(* PageAllocator, which module Buddy implements.  Addresses and sizes are  *)
(* in units of the smallest object.  A call that returns NULL (all         *)
(* MAX_DYNAMIC_PAGE pages of the pool full, or no page left) changes       *)
(* nothing and is no step.                                                 *)
(***************************************************************************)
EXTENDS Integers, Sequences, FiniteSets, SequencesExt

CONSTANTS Classes,      \* the pools kmalloc uses, 3 .. MEMPOOL_TYPE - 1
          ObjSize,      \* mem_pool[c].size
          MaxDynPages,  \* MAX_DYNAMIC_PAGE
          PageSize,     \* PAGE_SIZE
          MaxOrder,     \* MAX_BUDDY_ORDER
          Size,         \* Size[o] = 1 << o
          Sizes         \* the sizes the kernel asks for

Orders == 0 .. MaxOrder
Frames == 0 .. (Size[MaxOrder] - 1)
Slots == Classes \X (1 .. MaxDynPages)
NULL == -1

ASSUME HeapAssumption ==
    /\ MaxOrder \in Nat /\ PageSize \in Nat \ {0} /\ MaxDynPages \in Nat \ {0}
    /\ Classes \subseteq Nat /\ IsFiniteSet(Classes) /\ Classes # {}
    /\ ObjSize \in [Classes -> Nat \ {0}]
    /\ \A c \in Classes : PageSize % ObjSize[c] = 0
    /\ \A c, d \in Classes : c < d => ObjSize[c] < ObjSize[d]
    /\ Size \in [Orders -> Nat \ {0}] /\ Size[0] = 1
    /\ Sizes \subseteq Nat \ {0}

VARIABLES used,      \* used[c, i]: mem_pool[c].d_page[i].used
          page,      \* page[c, i]: the frame at its page_addr
          free_obj,
          freelist,  \* freelist[c, i]: its free objects, first to last
          owners, ord,   \* the page allocator
          live       \* the objects in use: recorded, the heap does not know

dpage == <<used, page, free_obj, freelist>>
pages == <<owners, ord>>
vars == <<used, page, free_obj, freelist, owners, ord, live>>

Pages == INSTANCE PageAllocator

MaxObject == CHOOSE s \in {ObjSize[c] : c \in Classes} :
                \A c \in Classes : ObjSize[c] <= s
ClassOf(n) == CHOOSE c \in Classes :
                /\ n <= ObjSize[c]
                /\ \A d \in Classes : n <= ObjSize[d] => c <= d
OrderOf(n) ==   \* 0 when no order is large enough
    IF \E o \in Orders : n <= Size[o] * PageSize
      THEN CHOOSE o \in Orders : /\ n <= Size[o] * PageSize
                                 /\ \A q \in Orders : n <= Size[q] * PageSize => o <= q
      ELSE 0

Init == /\ used = [s \in Slots |-> FALSE]
        /\ page = [s \in Slots |-> NULL]
        /\ free_obj = [s \in Slots |-> 0]
        /\ freelist = [s \in Slots |-> <<>>]
        /\ Pages!Init
        /\ live = {}

(* alloc_pages for a size no pool serves *)
KmallocPages(n) ==
    /\ n > MaxObject
    /\ \E f \in Frames :
         /\ Pages!Alloc(f, OrderOf(n))
         /\ live' = live \cup {[addr |-> f * PageSize, size |-> n]}
    /\ UNCHANGED dpage

(* dynamic_allocator stops at the first page that is new or not full *)
Full(s) == used[s] /\ free_obj[s] = 0
FirstUsable(c, i) ==
    /\ ~Full(<<c, i>>)
    /\ \A j \in 1 .. (i - 1) : Full(<<c, j>>)

CarvedPacked(f, c) ==   \* mutant: objects overlap
    [k \in 1 .. (PageSize \div ObjSize[c]) |-> f * PageSize + (k - 1)]
Carved(f, c) ==
    [k \in 1 .. (PageSize \div ObjSize[c]) |-> f * PageSize + (k - 1) * ObjSize[c]]

TakenUncounted(s, l, count, n) ==   \* mutant: the counter is left as it was
    /\ free_obj' = [free_obj EXCEPT ![s] = count]
    /\ freelist' = [freelist EXCEPT ![s] = Tail(l)]
    /\ live' = live \cup {[addr |-> Head(l), size |-> n]}

TakenUnset(s, l, count, n) ==   \* mutant: the carving does not set the counter
    /\ free_obj' = [free_obj EXCEPT ![s] = @ - 1]
    /\ freelist' = [freelist EXCEPT ![s] = Tail(l)]
    /\ live' = live \cup {[addr |-> Head(l), size |-> n]}

(* remove_dpage: the head of the list l goes to the caller; the counter,   *)
(* which stands at count, is decremented beside it, not read off the list  *)
Taken(s, l, count, n) ==
    /\ free_obj' = [free_obj EXCEPT ![s] = count - 1]
    /\ freelist' = [freelist EXCEPT ![s] = Tail(l)]
    /\ live' = live \cup {[addr |-> Head(l), size |-> n]}

KmallocObject(n) ==
    /\ n <= MaxObject
    /\ \E i \in 1 .. MaxDynPages :
         LET s == <<ClassOf(n), i>>
         IN /\ FirstUsable(ClassOf(n), i)
            /\ used[s]
            /\ Taken(s, freelist[s], free_obj[s], n)
    /\ UNCHANGED <<used, page, pages>>

KmallocNewPage(n) ==
    /\ n <= MaxObject
    /\ \E i \in 1 .. MaxDynPages, f \in Frames :
         LET s == <<ClassOf(n), i>>
         IN /\ FirstUsable(ClassOf(n), i)
            /\ ~used[s]
            /\ Pages!Alloc(f, 0)
            /\ used' = [used EXCEPT ![s] = TRUE]
            /\ page' = [page EXCEPT ![s] = f]
            /\ Taken(s, Carved(f, ClassOf(n)), PageSize \div ObjSize[ClassOf(n)], n)

InSlotOffByOne(s, a) ==   \* mutant: <= PAGE_SIZE
    used[s] /\ a >= page[s] * PageSize /\ a <= (page[s] + 1) * PageSize
InSlot(s, a) == used[s] /\ a >= page[s] * PageSize /\ a < (page[s] + 1) * PageSize

(* kfree *)
Kfree(b) ==
    /\ live' = live \ {b}
    /\ IF \E s \in Slots : InSlot(s, b.addr)
         THEN \E s \in Slots :
                /\ InSlot(s, b.addr)
                /\ free_obj' = [free_obj EXCEPT ![s] = @ + 1]
                /\ freelist' = [freelist EXCEPT ![s] = <<b.addr>> \o @]
                /\ UNCHANGED <<used, page, pages>>
         ELSE /\ Pages!Drop(b.addr \div PageSize)
              /\ UNCHANGED dpage

Next == \/ \E n \in Sizes : KmallocPages(n) \/ KmallocObject(n) \/ KmallocNewPage(n)
        \/ \E b \in live : Kfree(b)

Spec == Init /\ [][Next]_vars

(***************************************************************************)
(* Properties.                                                             *)
(***************************************************************************)
TypeOK ==
    /\ used \in [Slots -> BOOLEAN]
    /\ page \in [Slots -> Frames \cup {NULL}]
    /\ free_obj \in [Slots -> Nat]
    /\ \A s \in Slots : freelist[s] \in Seq(Nat)
    /\ owners \in [Frames -> Nat] /\ ord \in [Frames -> Orders]
    /\ \A b \in live : b.addr \in Nat /\ b.size \in Sizes

(* A pool page is partitioned: each of its objects is in use, or on the    *)
(* free list, once; free_obj, set, incremented and decremented on its own, *)
(* counts that list; an object in use is at least as large as what was     *)
(* asked for.  dynamic_allocator trusts free_obj, remove_dpage the list,   *)
(* and nothing checks one by the other.                                    *)
PoolsExact ==
    \A s \in Slots : used[s] =>
        LET c == s[1]
            inUse == {b \in live : InSlot(s, b.addr)}
            free == Range(freelist[s])
        IN /\ free_obj[s] = Len(freelist[s])
           /\ Cardinality(free) = Len(freelist[s])
           /\ free \cap {b.addr : b \in inUse} = {}
           /\ free \cup {b.addr : b \in inUse} =
                 {page[s] * PageSize + j * ObjSize[c] : j \in 0 .. (PageSize \div ObjSize[c] - 1)}
           /\ \A b \in inUse : b.size <= ObjSize[c]

(* Every granted block is one pool page, or one large object, and not      *)
(* both, and neither is shared: kfree finds the right one of its two ways  *)
(* to free from the address alone, and no page is lost to both.            *)
Large == {b \in live : \A s \in Slots : ~InSlot(s, b.addr)}
PagesKept ==
    LET slots == {s \in Slots : used[s]}
        pool == {page[s] : s \in slots}
        large == {b.addr \div PageSize : b \in Large}
    IN /\ Cardinality(pool) = Cardinality(slots)
       /\ Cardinality(large) = Cardinality(Large)
       /\ pool \cap large = {}
       /\ {f \in Frames : owners[f] > 0} = pool \cup large
       /\ \A f \in pool : owners[f] = 1 /\ ord[f] = 0
       /\ \A b \in Large : b.addr % PageSize = 0

(* The heap keeps its promise: objects in use never overlap, whichever     *)
(* pools and blocks they come from, and only kfree ends one.               *)
Objects == INSTANCE Heap WITH Limit <- Size[MaxOrder] * PageSize
Implements == Objects!Spec
=============================================================================
