--------------------------------- MODULE Vmem --------------------------------
(***************************************************************************)
(* Virtual memory: demand paging and copy-on-write (mem_abort_handler of   *)
(* src/mm.c), page tables (src/mem.c) and their use by fork and exec       *)
(* (src/thread.c).  An access that faults is executed again when the       *)
(* handler returns, so it stays in want[p] until it succeeds.  Pages are   *)
(* whole and are all in an area; module Vma has the areas, and an access   *)
(* outside them ends like one that its area forbids.                       *)
(*                                                                         *)
(* The hardware may keep a page table entry of the current process in the  *)
(* TLB and use it until it is evicted or invalidated.  switch_ttbr0 and    *)
(* to_el0 invalidate; copy_page_table and mem_abort_handler do not.        *)
(***************************************************************************)
EXTENDS Integers, FiniteSets, Functions

CONSTANTS Procs, First,
          Text,      \* pages of the program image; their area has prot 0
          Data,      \* pages of areas with PROT_WRITE
          ReadOnly,  \* pages of areas without
          Frames,    \* numbers of the frames user pages come from
          Values, Zero,
          TlbCaches  \* {FALSE}: a TLB that keeps no entry; TRUE: one that may

Pages == Text \cup Data \cup ReadOnly
NoPte == [frame |-> -1, ro |-> TRUE]
Ptes == [frame : Frames, ro : BOOLEAN] \cup {NoPte}
Read == "read"
Nothing == <<>>
(* what is written is never Zero, which tells it from an untouched page *)
Kinds == (Values \ {Zero}) \cup {Read}
Accesses == Pages \X Kinds

ASSUME VmemAssumption ==
    /\ First \in Procs /\ IsFiniteSet(Procs) /\ IsFiniteSet(Pages)
    /\ Frames \subseteq Nat /\ IsFiniteSet(Frames)
    /\ Cardinality(Text) <= Cardinality(Frames)
    /\ Zero \in Values /\ Values # {Zero} /\ Read \notin Values
    /\ Text \cap Data = {} /\ Text \cap ReadOnly = {} /\ Data \cap ReadOnly = {}
    /\ TlbCaches \subseteq BOOLEAN

VARIABLES proc,    \* live, dead, or none before it is forked
          cur, pte, tlb,
          refcnt,  \* reference_cnt of each frame; 0: not granted yet
          content, want, stuck,
          caches   \* of this machine's TLB, one of TlbCaches

vars == <<proc, cur, pte, tlb, refcnt, content, want, stuck, caches>>

(* bound: exec, which leaks, leaves frames enough for every page there is  *)
Reserve == Cardinality(Procs) * Cardinality(Data \cup ReadOnly)

Fresh == {f \in Frames : refcnt[f] = 0}
NextFresh == CHOOSE f \in Fresh : TRUE   \* all are alike
Placed(fs) == CHOOSE m \in Injection(Text, fs) : TRUE
Flushed == [v \in Pages |-> NoPte]

(* __exec maps the text writable: m is where its pages go *)
TextPte(table, m) ==
    [v \in Pages |-> IF v \in Text THEN [frame |-> m[v], ro |-> FALSE] ELSE table[v]]
(* alloc_pages zeroes a page; __exec then fills it from the image *)
Zeroed(fs) == [f \in Frames |-> IF f \in fs THEN Zero ELSE content[f]]
Granted(counts, fs) == [f \in Frames |-> IF f \in fs THEN 1 ELSE counts[f]]

Init ==
    /\ proc = [p \in Procs |-> IF p = First THEN "live" ELSE "none"]
    /\ cur = First
    /\ LET m == Placed(Frames)
       IN /\ pte = [p \in Procs |-> IF p = First THEN TextPte(Flushed, m) ELSE Flushed]
          /\ refcnt = Granted([f \in Frames |-> 0], Range(m))
    /\ tlb = Flushed
    /\ \E x \in Values \ {Zero} :   \* what is in a page nobody has used
         content = [f \in Frames |-> IF refcnt[f] = 0 THEN x ELSE Zero]
    /\ want = [p \in Procs |-> Nothing]
    /\ stuck = FALSE /\ caches \in TlbCaches

(***************************************************************************)
(* The current process.                                                    *)
(***************************************************************************)
Running(p) == cur = p /\ proc[p] = "live" /\ ~stuck
Calling(p) == Running(p) /\ want[p] = Nothing
Accessing(p, v, x) == Running(p) /\ want[p] = <<v, x>>
Entry(v) == IF tlb[v] # NoPte THEN tlb[v] ELSE pte[cur][v]

Start(p, v, x) ==
    /\ Calling(p)
    /\ want' = [want EXCEPT ![p] = <<v, x>>]
    /\ UNCHANGED <<proc, cur, pte, tlb, refcnt, content, stuck, caches>>

Access(p, v, x) ==
    /\ Accessing(p, v, x)
    /\ Entry(v) # NoPte /\ (Entry(v).ro => x = Read)
    /\ content' = IF x = Read THEN content ELSE [content EXCEPT ![Entry(v).frame] = x]
    /\ want' = [want EXCEPT ![p] = Nothing]
    /\ UNCHANGED <<proc, cur, pte, tlb, refcnt, stuck, caches>>

(* Translation fault: a zeroed page is mapped, writable if its area is. *)
DemandPage(p, v, x) ==
    /\ Accessing(p, v, x) /\ Entry(v) = NoPte /\ Fresh # {}
    /\ pte' = [pte EXCEPT ![p][v] = [frame |-> NextFresh, ro |-> v \notin Data]]
    /\ refcnt' = Granted(refcnt, {NextFresh})
    /\ content' = Zeroed({NextFresh})
    /\ UNCHANGED <<proc, cur, tlb, want, stuck, caches>>

(* Permission fault, in the order of the handler's tests. *)
WriteFault(p, v, x) ==
    Accessing(p, v, x) /\ Entry(v) # NoPte /\ Entry(v).ro /\ x # Read

SegFault(p, v, x) ==
    /\ WriteFault(p, v, x) /\ v \notin Data
    /\ proc' = [proc EXCEPT ![p] = "dead"]
    /\ want' = [want EXCEPT ![p] = Nothing]
    /\ UNCHANGED <<cur, pte, tlb, refcnt, content, stuck, caches>>

Mine(f) == refcnt[f] = 1

TakenReadOnly(p, v) == pte   \* mutant: the entry is not written back
Taken(p, v) == [pte EXCEPT ![p][v].ro = FALSE]

TakeOver(p, v, x) ==
    /\ WriteFault(p, v, x) /\ v \in Data
    /\ pte[p][v].ro /\ Mine(pte[p][v].frame)
    /\ pte' = Taken(p, v)
    /\ UNCHANGED <<proc, cur, tlb, refcnt, content, want, stuck, caches>>

CopiedEmpty(f, g) == content   \* mutant: no memcpy
Copied(f, g) == [content EXCEPT ![g] = content[f]]

CopyOnWrite(p, v, x) ==
    /\ WriteFault(p, v, x) /\ v \in Data
    /\ pte[p][v].ro /\ ~Mine(pte[p][v].frame)
    /\ Fresh # {}
    /\ LET f == pte[p][v].frame
       IN /\ refcnt' = [refcnt EXCEPT ![f] = @ - 1, ![NextFresh] = 1]
          /\ content' = Copied(f, NextFresh)
    /\ pte' = [pte EXCEPT ![p][v] = [frame |-> NextFresh, ro |-> FALSE]]
    /\ UNCHANGED <<proc, cur, tlb, want, stuck, caches>>

(* "Will never reach if everything works well", while(1) *)
FallThrough(p, v, x) ==
    /\ WriteFault(p, v, x) /\ v \in Data
    /\ ~pte[p][v].ro
    /\ stuck' = TRUE
    /\ UNCHANGED <<proc, cur, pte, tlb, refcnt, content, want, caches>>

Instr(p) == \E v \in Pages, x \in Kinds :
              \/ Access(p, v, x) \/ DemandPage(p, v, x) \/ SegFault(p, v, x)
              \/ TakeOver(p, v, x) \/ CopyOnWrite(p, v, x) \/ FallThrough(p, v, x)

(* copy_page_table: both sides read-only, one more reference to each page  *)
ShareAll(p, c) ==
    LET shared == [v \in Pages |-> [pte[p][v] EXCEPT !.ro = TRUE]]
    IN [pte EXCEPT ![p] = shared, ![c] = shared]
RefsUncounted(p) == refcnt   \* mutant: reference_cnt is not incremented
RefsDropped(p) == [f \in Frames |->   \* mutant: decremented
                    refcnt[f] - Cardinality({v \in Pages : pte[p][v].frame = f})]
RefsShared(p) == [f \in Frames |->
                    refcnt[f] + Cardinality({v \in Pages : pte[p][v].frame = f})]

Fork(p, c) ==
    /\ Calling(p) /\ proc[c] = "none"
    /\ proc' = [proc EXCEPT ![c] = "live"]
    /\ pte' = ShareAll(p, c)
    /\ refcnt' = RefsShared(p)
    /\ UNCHANGED <<cur, tlb, content, want, stuck, caches>>

(* __exec: new pages for the text; the old ones, and the rest of the page  *)
(* table, are left as they are (clear_pgd is empty).                       *)
Exec(p) ==
    /\ Calling(p)
    /\ Cardinality(Fresh) >= Cardinality(Text) + Reserve
    /\ LET m == Placed(Fresh)
       IN /\ pte' = [pte EXCEPT ![p] = TextPte(@, m)]
          /\ refcnt' = Granted(refcnt, Range(m))
          /\ content' = Zeroed(Range(m))
    /\ tlb' = Flushed
    /\ UNCHANGED <<proc, cur, want, stuck, caches>>

(* __exit frees no page *)
Exit(p) ==
    /\ Calling(p)
    /\ proc' = [proc EXCEPT ![p] = "dead"]
    /\ UNCHANGED <<cur, pte, tlb, refcnt, content, want, stuck, caches>>

(* schedule, switch_ttbr0 *)
Unflushed == tlb   \* mutant: no tlbi
SwitchFlushed == Flushed

Switch(p) ==
    /\ proc[p] = "live" /\ p # cur /\ ~stuck
    /\ cur' = p
    /\ tlb' = SwitchFlushed
    /\ UNCHANGED <<proc, pte, refcnt, content, want, stuck, caches>>

(***************************************************************************)
(* The hardware.                                                           *)
(***************************************************************************)
Walk(v) ==
    /\ caches /\ ~stuck /\ pte[cur][v] # NoPte /\ tlb[v] = NoPte
    /\ tlb' = [tlb EXCEPT ![v] = pte[cur][v]]
    /\ UNCHANGED <<proc, cur, pte, refcnt, content, want, stuck, caches>>

Evict(v) ==
    /\ caches /\ ~stuck /\ tlb[v] # NoPte
    /\ tlb' = [tlb EXCEPT ![v] = NoPte]
    /\ UNCHANGED <<proc, cur, pte, refcnt, content, want, stuck, caches>>

(* Everybody gone, or the kernel in while(1). *)
Stopped == (stuck \/ \A p \in Procs : proc[p] # "live") /\ UNCHANGED vars

Next == \/ \E p \in Procs :
             \/ Instr(p) \/ Exec(p) \/ Exit(p) \/ Switch(p)
             \/ \E v \in Pages, x \in Kinds : Start(p, v, x)
             \/ \E c \in Procs : Fork(p, c)
        \/ \E v \in Pages : Walk(v) \/ Evict(v)
        \/ Stopped

(* Every live process is dispatched again and again (module Threads) and   *)
(* then executes its instruction before the next tick, or the one after.   *)
Fairness == \A p \in Procs : SF_vars(Instr(p)) /\ SF_vars(Switch(p))
Spec == Init /\ [][Next]_vars /\ Fairness

(***************************************************************************)
(* Properties.                                                             *)
(***************************************************************************)
TypeOK ==
    /\ proc \in [Procs -> {"none", "live", "dead"}]
    /\ cur \in Procs
    /\ pte \in [Procs -> [Pages -> Ptes]]
    /\ tlb \in [Pages -> Ptes]
    /\ refcnt \in [Frames -> Nat]
    /\ content \in [Frames -> Values]
    /\ want \in [Procs -> Accesses \cup {Nothing}]
    /\ stuck \in BOOLEAN /\ caches \in TlbCaches

Mapping(f) == {m \in Procs \X Pages : pte[m[1]][m[2]].frame = f}

(* "Only one process accessing this page": a count of 1 means one mapping, *)
(* a writable page has no other, and no mapped frame is granted again.     *)
(* Exits and execs only make counts too high, which costs copies.          *)
CountsCover ==
    \A f \in Frames :
        /\ Cardinality(Mapping(f)) <= refcnt[f]
        /\ \A m, n \in Mapping(f) : m # n => pte[m[1]][m[2]].ro

(* An entry left in the TLB may outlive the permission fork took away, but *)
(* it grants writes only to the frame that the page is still mapped to.    *)
WritesStayHome ==
    \A v \in Pages :
        tlb[v] # NoPte /\ ~tlb[v].ro => tlb[v].frame = pte[cur][v].frame

(* An access completes, in at most two faults, or its process is killed;  *)
(* only an entry that stayed in the TLB can keep it in the handler.        *)
AccessEnds ==
    \A p \in Procs : (want[p] # Nothing) ~> (want[p] = Nothing \/ (caches /\ stuck))

(* The while(1) at the end of mem_abort_handler: "Will never reach if      *)
(* everything works well".                                                 *)
NeverStuck == ~stuck

(* Every process has a memory of its own, whatever is shared below: a      *)
(* write is seen by the writer only, a fork copies, and no fault changes   *)
(* what any process would read.  This is so on a machine whose TLB keeps   *)
(* no entry: one kept over a fork lets the parent write into shared pages. *)
Memory == INSTANCE PrivateMemory WITH
            sound <- ~caches,
            mem <- [p \in Procs |-> [v \in Pages |->
                      IF pte[p][v] = NoPte THEN Zero ELSE content[pte[p][v].frame]]]
Implements == Memory!Spec
==============================================================================
