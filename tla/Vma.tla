--------------------------------- MODULE Vma ---------------------------------
(***************************************************************************)
(* What src/mm.c promises of the areas of each process: a list that exec   *)
(* fills with text and stack, mmap adds one area to at its place, fork     *)
(* copies, and no other process changes.  VmaList is the linked list that  *)
(* keeps this promise.                                                     *)
(***************************************************************************)
EXTENDS VmaSearch

VARIABLES mmap,     \* the list of each process, from first to last
          overlaid  \* some request found no gap and was placed at 0, recorded

vars == <<mmap, overlaid>>

(* vma_insert: before the first area that starts after the new one's end   *)
Inserted(L, new) ==
    LET k == SelectInSeq(L, LAMBDA v : v.start > new.end)
    IN IF k = 0 THEN Append(L, new) ELSE InsertAt(L, k, new)

(* create_vma *)
Created(L, start, size, prot) ==
    Inserted(L, Area(IF L = <<>> THEN start ELSE chk_vma_valid(L, start, size),
                     size, prot))

(* The areas of a program just executed. *)
Image(text) == Created(Created(<<>>, 0, text, NONE), Stack, StackSize, RW)

(* init_mm: an address space starts without areas. *)
Init == /\ mmap = [p \in Procs |-> <<>>]
        /\ overlaid = [p \in Procs |-> FALSE]

(* __exec: clear_vma, then text and stack *)
Exec(p, t) == /\ mmap' = [mmap EXCEPT ![p] = Image(t)]
              /\ overlaid' = [overlaid EXCEPT ![p] = FALSE]

(* __mmap, of a program that runs *)
Mmap(p, addr, n, prot) ==
    LET a == PGROUNDDOWN(addr)
        size == PGROUNDUP(n)
    IN /\ Len(mmap[p]) \in 1 .. (MaxAreas - 1)
       /\ mmap' = [mmap EXCEPT ![p] = Created(@, a, size, prot)]
       /\ overlaid' = [overlaid EXCEPT ![p] = @ \/ NoRoom(mmap[p], a, size)]

(* __fork: the new process q gets the areas of p *)
Fork(p, q) ==
    /\ mmap[p] # <<>> /\ mmap[q] = <<>>
    /\ mmap' = [mmap EXCEPT ![q] = mmap[p]]
    /\ overlaid' = [overlaid EXCEPT ![q] = overlaid[p]]

Next == \E p \in Procs :
    \/ \E t \in TextSizes : Exec(p, t)
    \/ \E a \in Addrs, n \in Lens, prot \in Prots : Mmap(p, a, n, prot)
    \/ \E q \in Procs : Fork(p, q)

Spec == Init /\ [][Next]_vars

(***************************************************************************)
(* Properties.                                                             *)
(***************************************************************************)
Top == Stack + StackSize + Page
Within(v, a) == a >= v.start /\ a < v.end

Sorted(L) == \A j, k \in DOMAIN L : j < k => L[j].end <= L[k].start
Found(L) ==
    \A a \in 0 .. Top :
        /\ \A k \in DOMAIN L : Within(L[k], a) => AreaAt(L, a) = k
        /\ (\E k \in DOMAIN L : Within(L[k], a)) => chk_addr_valid(L, a)
        /\ chk_addr_valid(L, a) =>
              \E k \in DOMAIN L : Within(L[k], a) \/ a = L[k].end

(* As long as every request of a process found room, its list is sorted    *)
(* and its areas are disjoint, wherever mmap asked them to be: vma_insert  *)
(* sorts by a comparison with the end of the new area, and chk_vma_valid   *)
(* alone keeps that right.                                                 *)
SortedDisjoint == \A p \in Procs : overlaid[p] \/ Sorted(mmap[p])

(* Every address inside an area is served, with the protection of that     *)
(* area; an address outside is refused, but for the first one past an end. *)
FaultFindsArea == \A p \in Procs : overlaid[p] \/ Found(mmap[p])
==============================================================================
