-------------------------------- MODULE Buddy --------------------------------
(***************************************************************************)
(* The page-frame allocator of src/mm.c: the buddy free lists, the frame   *)
(* table with its copy-on-write reference counts, and the boot-time        *)
(* construction of the lists.  The kernel runs on one CPU and allocates    *)
(* with interrupts masked, so one call is in progress at a time; pc says   *)
(* which, and each recursive call of release_redundant_block and           *)
(* merge_page is a step of its own.  The block a call works on is cur.     *)
(***************************************************************************)
EXTENDS Integers, Sequences, FiniteSets, SequencesExt

CONSTANTS MaxOrder,   \* MAX_BUDDY_ORDER
          Size,       \* Size[o] = 1 << o, page frames in a block of order o
          Reserved,   \* frames handed to mem_reserve at boot, each once
                      \* (by __buddy_init; {} in buddy_init)
          InitRefs,   \* what reference_cnt, never initialised, may hold at boot
          MaxRefs     \* bound: owners of one block

Orders == 0 .. MaxOrder
PageNum == Size[MaxOrder]
Frames == 0 .. (PageNum - 1)
Usage == {"AVAL", "USED", "F"}

ASSUME OrderAssumption == MaxOrder \in Nat
ASSUME SizeAssumption ==
    /\ Size \in [Orders -> Nat \ {0}]
    /\ Size[0] = 1
    /\ \A o \in Orders : o < MaxOrder => Size[o + 1] = 2 * Size[o]
    /\ \A o \in Orders : PageNum % Size[o] = 0
ASSUME PoolAssumption ==
    /\ Reserved \subseteq Frames
    /\ InitRefs \subseteq Int
    /\ MaxRefs \in Nat

VARIABLES used,       \* page_frame[f].used
          order,      \* page_frame[f].order
          refcnt,     \* page_frame[f].reference_cnt
          list,       \* list[o]: the nodes of buddy[o].head, first to last
          pg_free,    \* buddy[o].pg_free
          pc,         \* the call in progress
          cur,        \* its block: pf of the split, p of the merge
          target,     \* target_order of the split
          boot_i,     \* loop index of buddy_init
          refs,       \* refs[f]: owners of the granted block headed by f
          leaked,     \* frames of a block the last owner gave up in vain
          misused     \* a caller has freed a page of no granted block
                      \* (these three record what the callers did)

frame == <<used, order, refcnt>>
lists == <<list, pg_free>>
ghost == <<refs, leaked, misused>>
vars == <<used, order, refcnt, list, pg_free, pc, cur, target, boot_i,
          refs, leaked, misused>>

(***************************************************************************)
(* memset_pageframe on one field: n frames from `from` get the value v.    *)
(***************************************************************************)
Fill(field, from, n, v) ==
    [f \in Frames |-> IF from <= f /\ f < from + n THEN v ELSE field[f]]

(* insert_pageframe at the tail, remove_pageframe of the k-th node *)
InsertedNowhere(L, o, f) == L   \* mutant: the second half is not queued
RemovedFirst(L, o, k) == [L EXCEPT ![o] = Tail(@)]   \* mutant: pops the head
Inserted(L, o, f) == [L EXCEPT ![o] = Append(@, f)]
Removed(L, o, k) == [L EXCEPT ![o] = RemoveAt(@, k)]

(* page_id ^ (1 << order) for a page_id that is a multiple of 1 << order *)
BuddyOf(f, o) == IF f % (2 * Size[o]) = 0 THEN f + Size[o] ELSE f - Size[o]

Held(f) == refs[f] > 0
Span(f) == f .. (f + Size[order[f]] - 1)
HeldFrames == UNION {Span(f) : f \in {g \in Frames : Held(g)}}

Init ==
    /\ used = [f \in Frames |-> "AVAL"]
    /\ order = [f \in Frames |-> 0]
    /\ refcnt \in [Frames -> InitRefs]
    /\ list = [o \in Orders |-> IF o = 0 THEN [k \in 1 .. PageNum |-> k - 1] ELSE <<>>]
    /\ pg_free = [o \in Orders |-> IF o = 0 THEN PageNum ELSE 0]
    /\ pc = "boot"
    /\ cur = 0
    /\ target = 0
    /\ boot_i = 0
    /\ refs = [f \in Frames |-> 0]
    /\ leaked = {}
    /\ misused = FALSE

(***************************************************************************)
(* Boot.                                                                   *)
(***************************************************************************)
(* One frame of a region handed to mem_reserve.  The regions are apart: a  *)
(* frame of two of them would be unlinked twice, the second time through   *)
(* the NULL that remove_pageframe left in it, which is not modelled.       *)
MemReserve(f) ==
    /\ pc = "boot" /\ boot_i = 0
    /\ f \in Reserved /\ used[f] # "USED"
    /\ used' = [used EXCEPT ![f] = "USED"]
    /\ \E k \in DOMAIN list[order[f]] :
          /\ list[order[f]][k] = f
          /\ list' = Removed(list, order[f], k)
    /\ pg_free' = [pg_free EXCEPT ![order[f]] = @ - 1]
    /\ UNCHANGED <<order, refcnt, pc, cur, target, boot_i, ghost>>

BootSkipStuck ==   \* mutant: `continue` without the increment
    /\ pc = "boot" /\ boot_i < PageNum
    /\ order[boot_i] # 0 \/ used[boot_i] # "AVAL"
    /\ UNCHANGED vars

BootSkip ==
    /\ pc = "boot" /\ boot_i < PageNum
    /\ \A f \in Reserved : used[f] = "USED"
    /\ order[boot_i] # 0 \/ used[boot_i] # "AVAL"
    /\ boot_i' = boot_i + 1
    /\ UNCHANGED <<frame, lists, pc, cur, target, ghost>>

BootMerge ==
    /\ pc = "boot" /\ boot_i < PageNum
    /\ \A f \in Reserved : used[f] = "USED"
    /\ order[boot_i] = 0 /\ used[boot_i] = "AVAL"
    /\ \E k \in DOMAIN list[0] : list[0][k] = boot_i /\ list' = Removed(list, 0, k)
    /\ pg_free' = [pg_free EXCEPT ![0] = @ - 1]
    /\ pc' = "merge"
    /\ cur' = boot_i
    /\ boot_i' = boot_i + 1
    /\ UNCHANGED <<frame, target, ghost>>

BootDone ==
    /\ pc = "boot" /\ boot_i = PageNum
    /\ pc' = "idle"
    /\ UNCHANGED <<frame, lists, cur, target, boot_i, ghost>>

(***************************************************************************)
(* alloc_pages.  A call that finds every list empty, or asks for more than *)
(* MAX_BUDDY_ORDER, returns NULL and changes nothing.                      *)
(***************************************************************************)
FirstFit(o, i) ==
    /\ i \in o .. MaxOrder
    /\ pg_free[i] > 0
    /\ \A j \in o .. (i - 1) : pg_free[j] <= 0

AllocPages(o) ==
    /\ pc = "idle"
    /\ \E i \in Orders :
         /\ FirstFit(o, i)
         /\ \E k \in DOMAIN list[i] :
              /\ used[list[i][k]] = "AVAL"
              /\ \A j \in 1 .. (k - 1) : used[list[i][j]] # "AVAL"
              /\ cur' = list[i][k]
              /\ list' = Removed(list, i, k)
         /\ pg_free' = [pg_free EXCEPT ![i] = @ - 1]
    /\ target' = o
    /\ pc' = "split"
    /\ UNCHANGED <<frame, boot_i, ghost>>

SplitStep ==
    /\ pc = "split" /\ order[cur] > target
    /\ LET o == order[cur] - 1
           second == cur + Size[o]
       IN /\ used' = [Fill(used, second + 1, Size[o] - 1, "F") EXCEPT ![second] = "AVAL"]
          /\ order' = [Fill(order, second, Size[o], o) EXCEPT ![cur] = o]
          /\ list' = Inserted(list, o, second)
          /\ pg_free' = [pg_free EXCEPT ![o] = @ + 1]
    /\ UNCHANGED <<refcnt, pc, cur, target, boot_i, ghost>>

SplitDone ==
    /\ pc = "split" /\ order[cur] = target
    /\ used' = Fill(used, cur, Size[target], "USED")
    /\ order' = Fill(order, cur, Size[target], target)
    /\ refcnt' = [refcnt EXCEPT ![cur] = @ + 1]
    /\ refs' = [refs EXCEPT ![cur] = 1]
    /\ pc' = "idle"
    /\ cur' = 0 /\ target' = 0
    /\ UNCHANGED <<lists, boot_i, leaked, misused>>

(***************************************************************************)
(* free_pages, called by an owner of the block or, by mistake, for a page  *)
(* that no granted block contains (a double free).                         *)
(***************************************************************************)
SharedMore(p) == refcnt[p] > 2     \* mutant: off by one, the other way
Shared(p) == refcnt[p] > 1

FreePages(p) ==
    /\ pc = "idle"
    /\ Held(p) \/ p \notin HeldFrames \cup Reserved \cup leaked
    /\ misused' = (misused \/ ~Held(p))
    /\ refcnt' = [refcnt EXCEPT ![p] = @ - 1]
    /\ refs' = IF Held(p) THEN [refs EXCEPT ![p] = @ - 1] ELSE refs
    /\ leaked' = IF Shared(p) /\ refs[p] = 1 THEN leaked \cup Span(p) ELSE leaked
    /\ IF Shared(p)
         THEN UNCHANGED <<used, order, pc, cur>>
         ELSE IF used[p] # "USED"
         THEN /\ pc' = "hung"
              /\ UNCHANGED <<used, order, cur>>
         ELSE /\ used' = [Fill(used, p + 1, Size[order[p]] - 1, "F") EXCEPT ![p] = "AVAL"]
              /\ order' = Fill(order, p, Size[order[p]], order[p])
              /\ cur' = p
              /\ pc' = "merge"
    /\ UNCHANGED <<lists, target, boot_i>>

(* merge_page tests the order last, after it has read the two fields of    *)
(* the "buddy" of a block of order MAX_BUDDY_ORDER, one past the table.    *)
MergeableAnyOrder(p, o) ==   \* mutant: the order is not compared
    o < MaxOrder /\ used[BuddyOf(p, o)] = "AVAL"
MergeableUp(p, o) ==         \* mutant: never joins the lower buddy
    /\ o < MaxOrder /\ BuddyOf(p, o) > p
    /\ used[BuddyOf(p, o)] = "AVAL" /\ order[BuddyOf(p, o)] = o
Mergeable(p, o) ==
    /\ o < MaxOrder
    /\ used[BuddyOf(p, o)] = "AVAL"
    /\ order[BuddyOf(p, o)] = o

RaisedBySum(f, o) ==   \* mutant: the orders of the two halves are added
    [order EXCEPT ![f] = @ + o + 1]
Raised(f, o) == [order EXCEPT ![f] = o + 1]

MergeStep ==
    /\ pc = "merge"
    /\ Mergeable(cur, order[cur])
    /\ LET o == order[cur]
           bd == BuddyOf(cur, o)
           low == IF bd > cur THEN cur ELSE bd
           q == order[bd]
       IN /\ \E k \in DOMAIN list[q] : list[q][k] = bd /\ list' = Removed(list, q, k)
          /\ pg_free' = [pg_free EXCEPT ![q] = @ - 1]
          /\ order' = Raised(low, o)
          /\ cur' = low
    /\ UNCHANGED <<used, refcnt, pc, target, boot_i, ghost>>

MergeDone ==
    /\ pc = "merge"
    /\ ~Mergeable(cur, order[cur])
    /\ LET o == order[cur]
       IN /\ used' = [Fill(used, cur + 1, Size[o] - 1, "F") EXCEPT ![cur] = "AVAL"]
          /\ order' = Fill(order, cur, Size[o], o)
          /\ list' = Inserted(list, o, cur)
          /\ pg_free' = [pg_free EXCEPT ![o] = @ + 1]
    /\ pc' = IF boot_i < PageNum THEN "boot" ELSE "idle"
    /\ cur' = 0
    /\ UNCHANGED <<refcnt, target, boot_i, ghost>>

(***************************************************************************)
(* The two places that touch reference_cnt from outside: a page table is   *)
(* copied by fork (copy_page_table), a shared page is written and replaced *)
(* by a private copy (the copy-on-write arm of mem_abort_handler).  Both   *)
(* work on user pages, which are blocks of order 0.                        *)
(***************************************************************************)
Share(p) ==
    /\ pc = "idle"
    /\ Held(p) /\ order[p] = 0 /\ refs[p] < MaxRefs
    /\ refcnt' = [refcnt EXCEPT ![p] = @ + 1]
    /\ refs' = [refs EXCEPT ![p] = @ + 1]
    /\ UNCHANGED <<used, order, lists, pc, cur, target, boot_i, leaked, misused>>

UnshareForgets(p) ==   \* mutant: the copy is made, the count kept
    /\ pc = "idle" /\ refs[p] > 1 /\ order[p] = 0 /\ refcnt[p] # 1
    /\ refs' = [refs EXCEPT ![p] = @ - 1]
    /\ UNCHANGED <<frame, lists, pc, cur, target, boot_i, leaked, misused>>

Unshare(p) ==
    /\ pc = "idle"
    /\ refs[p] > 1 /\ order[p] = 0
    /\ refcnt[p] # 1
    /\ refcnt' = [refcnt EXCEPT ![p] = @ - 1]
    /\ refs' = [refs EXCEPT ![p] = @ - 1]
    /\ UNCHANGED <<used, order, lists, pc, cur, target, boot_i, leaked, misused>>

(* while(1) after "Double free occured!!!" *)
Hung == pc = "hung" /\ UNCHANGED vars

Boot == BootSkip \/ BootMerge \/ BootDone \/ \E f \in Reserved : MemReserve(f)
KernelStep == Boot \/ SplitStep \/ SplitDone \/ MergeStep \/ MergeDone
Call == \/ \E o \in Orders : AllocPages(o)
        \/ \E p \in Frames : FreePages(p) \/ Share(p) \/ Unshare(p)

Next == KernelStep \/ Call \/ Hung

(* the CPU, once in the allocator, is not taken away from it *)
Spec == Init /\ [][Next]_vars /\ WF_vars(KernelStep)

(***************************************************************************)
(* Properties.                                                             *)
(***************************************************************************)
TypeOK ==
    /\ used \in [Frames -> Usage]
    /\ order \in [Frames -> Orders]
    /\ refcnt \in [Frames -> Int]
    /\ list \in [Orders -> Seq(Frames)]
    /\ pg_free \in [Orders -> Int]
    /\ pc \in {"boot", "idle", "split", "merge", "hung"}
    /\ cur \in Frames
    /\ target \in Orders
    /\ boot_i \in 0 .. PageNum
    /\ refs \in [Frames -> Nat]
    /\ leaked \subseteq Frames
    /\ misused \in BOOLEAN

InFlight == IF pc \in {"split", "merge"} THEN Span(cur) ELSE {}
Listed(f) == \E o \in Orders : \E k \in DOMAIN list[o] : list[o][k] = f

(* Two blocks never share a frame: not two granted ones, nor a granted one *)
(* and a listed one or the one the call in progress is cutting or merging. *)
(* What merge_page trusts when it takes a buddy for free by two fields of  *)
(* its frame is exactly this.                                              *)
BlocksApart ==
    \A f, g \in Frames :
        /\ Held(f) \/ Listed(f)
        /\ Held(g) \/ Listed(g)
        => /\ f # g => Span(f) \cap Span(g) = {}
           /\ Span(f) \cap InFlight = {}
           /\ ~(Held(f) /\ Listed(f))

(* The frame table and the lists say the same: a frame is on list o, once, *)
(* exactly when its fields say "free head of order o"; pg_free counts the  *)
(* list.  get_pageframe and merge_page unlink on the fields' word alone.   *)
ListsExact ==
    \A o \in Orders :
        /\ pg_free[o] = Len(list[o])
        /\ \A f \in Frames :
             Cardinality({k \in DOMAIN list[o] : list[o][k] = f}) =
                IF used[f] = "AVAL" /\ order[f] = o /\ f \notin InFlight THEN 1 ELSE 0

(* No frame is lost: whatever the history of splits and merges, a frame    *)
(* outside the block in flight is reserved or belongs to a listed or a     *)
(* granted block.  (Of a table that starts zeroed; else blocks leak.)      *)
NoFrameLost ==
    \A f \in Frames :
        \/ f \in Reserved \cup InFlight \cup HeldFrames
        \/ \E h \in Frames : Listed(h) /\ f \in Span(h)

(* Coalescing is complete: between calls, if some aligned run of 2^o       *)
(* frames is neither granted nor reserved, alloc_pages(o) succeeds.        *)
AllocComplete ==
    pc = "idle" =>
        \A o \in Orders :
            (\E f \in Frames :
                /\ f % Size[o] = 0
                /\ (f .. (f + Size[o] - 1)) \cap (HeldFrames \cup Reserved) = {})
            => \E i \in Orders : FirstFit(o, i)

(* reference_cnt of a granted block is the number of its owners, and 0 for *)
(* a block nobody owns: fork's sharing, copy-on-write's un-sharing and the *)
(* early return of free_pages keep it so (when the table starts zeroed).   *)
RefsExact == pc # "hung" => refcnt = refs

(* The double-free detector fires when, and only when, a caller has freed  *)
(* a page of no granted block.                                             *)
DoubleFreeCaught == (pc = "hung") <=> misused

(* While a block stays granted no call, its own or another's, changes its  *)
(* order or takes one of its frames out of USED.                           *)
HeldStable ==
    [][\A f \in Frames :
         Held(f) /\ refs'[f] > 0 =>
            /\ order'[f] = order[f]
            /\ \A g \in Span(f) : used'[g] = "USED"]_vars

(* release_redundant_block and merge_page recurse only finitely often:     *)
(* boot ends and every call returns.                                       *)
CallsReturn == (pc \in {"boot", "split", "merge"}) ~> (pc = "idle")

(* Buddy implements PageAllocator: a block is granted when the split ends  *)
(* and given up when its last owner enters free_pages.                     *)
Pages == INSTANCE PageAllocator WITH
           owners <- refs,
           ord <- [f \in Frames |-> IF Held(f) THEN order[f] ELSE 0]
Implements == Pages!Spec
==============================================================================
