------------------------------- MODULE VmaList -------------------------------
(***************************************************************************)
(* The linked lists behind Vma: mm->mmap of every process and the          *)
(* vm_area_structs they chain, all from the same pool of kmalloc, as exec, *)
(* mmap and fork change them (clear_vma, create_vma, vma_insert, copy_vma  *)
(* of src/mm.c).  Each action is the call on the nodes together with the   *)
(* same call of Vma, whose list the links have to lead through.            *)
(***************************************************************************)
EXTENDS Vma, TLC

CONSTANT Nodes \* bound: vm_area_structs the pool has room for

NULL == 0

VARIABLES head,    \* mm->mmap of each process
          node,    \* the vm_area_structs that are allocated, by address
          pool     \* the free list of their pool, freed last given first

lists == <<head, node, pool>>

(* The nodes reached from h, up to NULL or to memory that was freed; one   *)
(* more than there are when the links run in a circle.                     *)
Walk(h, nd) ==
    LET at[k \in 1 .. (Nodes + 1)] ==
            IF k = 1 THEN h
            ELSE IF at[k - 1] \in DOMAIN nd THEN nd[at[k - 1]].vm_next ELSE NULL
    IN SelectSeq([k \in 1 .. (Nodes + 1) |-> at[k]], LAMBDA x : x \in DOMAIN nd)
List(h, nd) ==
    LET path == Walk(h, nd)
    IN [k \in DOMAIN path |-> [start |-> nd[path[k]].start, end |-> nd[path[k]].end,
                               prot |-> nd[path[k]].prot]]

(***************************************************************************)
(* The functions of mm.c on m: the head of one list, nodes and pool.       *)
(***************************************************************************)

(* Links n in before the first area that starts after its end, or last.    *)
vma_insert(m, n) ==
    LET path == Walk(m.head, m.node)
        right == SelectInSeq(path, LAMBDA x : m.node[x].start > m.node[n].end)
    IN CASE path = <<>> -> [m EXCEPT !.head = n]
         [] right = 1   -> [m EXCEPT !.head = n, !.node[n].vm_next = path[1]]
         [] right > 1   -> [m EXCEPT !.node[path[right - 1]].vm_next = n,
                                     !.node[n].vm_next = path[right]]
         [] OTHER       -> [m EXCEPT !.node[Last(path)].vm_next = n]

create_vma(m, start, size, prot) ==
    LET n == Head(m.pool)
        at == IF m.head = NULL THEN start
              ELSE chk_vma_valid(List(m.head, m.node), start, size)
        new == [start |-> at, end |-> at + size, prot |-> prot, vm_next |-> NULL]
    IN vma_insert([m EXCEPT !.node = @ @@ (n :> new), !.pool = Tail(@)], n)

clear_vma(m) ==
    LET path == Walk(m.head, m.node)
    IN [head |-> NULL,
        node |-> Restrict(m.node, DOMAIN m.node \ Range(path)),
        pool |-> Reverse(path) \o m.pool]

(* copy_vma: each node is copied, its link with it, and then linked to the *)
(* copy of the next.  dst are the new nodes.                               *)
CopiedShared(src, dst, nd) ==   \* mutant: the link stays as it was copied
    [x \in Range(dst) |-> nd[src[SelectInSeq(dst, LAMBDA y : y = x)]]]
Copied(src, dst, nd) ==
    [x \in Range(dst) |->
        LET k == SelectInSeq(dst, LAMBDA y : y = x)
        IN [nd[src[k]] EXCEPT !.vm_next = IF @ = NULL THEN NULL ELSE dst[k + 1]]]

(***************************************************************************)
(* Actions.                                                                *)
(***************************************************************************)
ListInit == /\ Init
            /\ head = [p \in Procs |-> NULL]
            /\ node = <<>>
            /\ pool = [k \in 1 .. Nodes |-> k]

Mine(p) == [head |-> head[p], node |-> node, pool |-> pool]
Become(p, m) == /\ head' = [head EXCEPT ![p] = m.head]
                /\ node' = m.node
                /\ pool' = m.pool

(* __exec *)
ListExec(p, t) ==
    LET m == IF head[p] # NULL THEN clear_vma(Mine(p)) ELSE Mine(p)
    IN /\ Len(m.pool) >= 2
       /\ Become(p, create_vma(create_vma(m, 0, t, NONE), Stack, StackSize, RW))
       /\ Exec(p, t)

(* __mmap *)
ListMmap(p, addr, n, prot) ==
    /\ head[p] # NULL /\ pool # <<>>
    /\ Become(p, create_vma(Mine(p), PGROUNDDOWN(addr), PGROUNDUP(n), prot))
    /\ Mmap(p, addr, n, prot)

(* __fork: copy_vma into the mm_struct of the new process q *)
ListFork(p, q) ==
    LET src == Walk(head[p], node)
        dst == SubSeq(pool, 1, Len(src))
    IN /\ head[p] # NULL /\ head[q] = NULL
       /\ Len(pool) >= Len(src)
       /\ Become(q, [head |-> dst[1], node |-> node @@ Copied(src, dst, node),
                     pool |-> SubSeq(pool, Len(src) + 1, Len(pool))])
       /\ Fork(p, q)

ListNext == \E p \in Procs :
    \/ \E t \in TextSizes : ListExec(p, t)
    \/ \E a \in Addrs, n \in Lens, prot \in Prots : ListMmap(p, a, n, prot)
    \/ \E q \in Procs : ListFork(p, q)

ListSpec == ListInit /\ [][ListNext]_<<lists, vars>>

(***************************************************************************)
(* Properties.                                                             *)
(***************************************************************************)

(* Followed by its links, every list is that of Vma: no insertion cuts a   *)
(* list or closes it to a circle, fork leaves parent and child with no     *)
(* node in common, and an exec that frees its nodes, used again by others, *)
(* takes an area from no other process.                                    *)
ListsAreAreas == \A p \in Procs : List(head[p], node) = mmap[p]
==============================================================================
