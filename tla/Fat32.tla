------------------------------- MODULE Fat32 -------------------------------
(***************************************************************************)
(* src/fat32.c: the root directory of a FAT32 card, one sector to the      *)
(* cluster, with its caches and its sync.  A system call is a step, since  *)
(* interrupts are masked, except that sync writes one block a step, and    *)
(* the power may fail at any of them.  writeblock of src/sdhost.c repeats  *)
(* until the card reports no error; a block reaches the card whole.        *)
(* Names have a "." and at most 13 characters, which is what an entry with *)
(* one long name holds; directories on the card are not entered.           *)
(***************************************************************************)
EXTENDS Integers, Sequences, FiniteSets, SequencesExt, FiniteSetsExt

CONSTANTS Names, Handles,
          Bufs, Lens, Offsets,  \* what is written, read and sought
          BLOCK_SIZE,           \* in the units of Bufs
          FAT_ENTRY_PER_BLK,
          FatBlks,              \* Sectors_Per_FAT / sectors_per_cluster
          ClusterBegin,         \* cluster_begin_lba
          MAX_ENTRY, MAX_FILE_BLK,
          Cards,                \* what the card may hold at first, [fat, dir, data]
          MaxCuts, MaxCalls     \* bounds

RootCluster == 2
FREE == 0
END == -1                       \* FAT_ENTRY_END_OF_FILE and the marks above it
BAD == -2                       \* the chain leaves fat[] or data[]
Junk == -1
Stride == 4 * FAT_ENTRY_PER_BLK         \* BLOCK_SIZE in bytes
ClusMod == 2 * FAT_ENTRY_PER_BLK        \* 0xFF + 1
Word == 256 * ClusMod                   \* 0xFFFF + 1
Clusters == 0 .. (FatBlks * FAT_ENTRY_PER_BLK - 1)
Fats == 0 .. (FatBlks - 1)
Slots == 1 .. MAX_ENTRY
Ids == 0 .. (MAX_FILE_BLK - 1)

ASSUME CardAssumption ==
    /\ BLOCK_SIZE \in Nat \ {0} /\ FAT_ENTRY_PER_BLK \in Nat /\ FAT_ENTRY_PER_BLK > 2
    /\ FatBlks \in Nat \ {0} /\ MAX_ENTRY \in Nat \ {0} /\ MAX_FILE_BLK \in Nat \ {0}
    /\ ClusterBegin \in Nat /\ ClusterBegin > FatBlks + 1
ASSUME CallAssumption ==
    /\ Names \subseteq STRING \ {""}
    /\ Bufs \subseteq Seq(Nat) /\ Lens \subseteq Nat /\ Offsets \subseteq Nat
ASSUME CardTypes ==
    Cards \subseteq [fat : [Fats -> [0 .. (FAT_ENTRY_PER_BLK - 1) -> Int]],
                     dir : [Slots -> [name : STRING, size : Nat, first : Nat]],
                     data : [Clusters -> [1 .. BLOCK_SIZE -> Int]]]

VARIABLES card,
          mfat,     \* fat[i]: [cached, dirty, table]
          dir,      \* the root's cache block: [cached, dirty, block]
          inode,    \* inode[i]: what entry[i].next points to,
                    \* [name, size, first, data: the cached blocks]
          dirty,    \* dirty_data: <<"dir", 0, 0>>, <<"fat", i, 0>>, <<"file", i, k>>
          hnd,      \* hnd[h]: an open file, [slot, pos]; slot 0: none
          got,      \* what the last call read
          safe,     \* recorded: the files at the end of the last sync
          stray,    \* recorded: a write elsewhere than at the end or to a file
                    \* without a cluster, or a read past the end, or a cluster
                    \* given to a second file
          torn,     \* recorded: the power failed during a sync
          far,      \* recorded: a cluster of another FAT block than the first was given
          pc, cuts, calls

memory == <<mfat, dir, inode, dirty>>
vars == <<card, memory, hnd, got, safe, stray, torn, far, pc, cuts, calls>>

NoEnt == [name |-> "", size |-> 0, first |-> 0]
NoData == [k \in Ids |-> [cached |-> FALSE, dirty |-> FALSE, id |-> 0, bytes |-> <<>>]]
NoInode == [name |-> "", size |-> 0, first |-> 0, data |-> NoData]
NoHandle == [slot |-> 0, pos |-> 0]

(***************************************************************************)
(* Blocks of the card.                                                     *)
(***************************************************************************)
BlkId(cluster) == ClusterBegin + (cluster - RootCluster)    \* get_cluster_blkid
ClusterAt(blk) == blk - ClusterBegin + RootCluster
IsData(blk) == ClusterAt(blk) \in Clusters /\ ClusterAt(blk) > RootCluster
CardBytes(blk) == IF IsData(blk) THEN card.data[ClusterAt(blk)]
                  ELSE [k \in 1 .. BLOCK_SIZE |-> Junk]

(* update_dirinfo: entries up to the first one that was never used *)
Parsed(block) ==
    [i \in Slots |->
       IF \A j \in 1 .. i : block[j] # NoEnt
         THEN [name |-> block[i].name, size |-> block[i].size, first |-> block[i].first,
               data |-> NoData]
         ELSE NoInode]
Dir == IF dir.cached THEN dir ELSE [cached |-> TRUE, dirty |-> dir.dirty, block |-> card.dir]
Inode == IF dir.cached THEN inode ELSE Parsed(card.dir)

(* read_FAT when the block is not cached *)
Table(i) == IF mfat[i].cached THEN mfat[i].table ELSE card.fat[i]
WithFats(F) ==
    [i \in Fats |-> IF i \in F THEN [mfat[i] EXCEPT !.cached = TRUE, !.table = Table(i)]
                    ELSE mfat[i]]

(***************************************************************************)
(* find_free_FAT_ENTRY.  The scale of i should be FAT_ENTRY_PER_BLK.       *)
(***************************************************************************)
FreeIn(i) == {j \in 2 .. (FAT_ENTRY_PER_BLK - 1) : Table(i)[j] = FREE}
FatsWithFree == {i \in Fats : FreeIn(i) # {}}
FreeCluster == LET i == Min(FatsWithFree) IN Min(FreeIn(i)) + Stride * i
FatsSearched == IF FatsWithFree = {} THEN Fats ELSE 0 .. Min(FatsWithFree)

(***************************************************************************)
(* update_fileinfo.  The FAT is indexed by a block's number and not by its *)
(* cluster's, and its value is taken for the number of the next block.     *)
(***************************************************************************)
NextBlk(blk) ==
    IF blk \div FAT_ENTRY_PER_BLK \notin Fats THEN BAD
    ELSE Table(blk \div FAT_ENTRY_PER_BLK)[blk % FAT_ENTRY_PER_BLK]
Chain(first) ==
    LET ch[k \in 0 .. MAX_FILE_BLK] ==
          IF k = 0 THEN BlkId(first)
          ELSE IF ch[k - 1] < 0 THEN ch[k - 1] ELSE NextBlk(ch[k - 1])
    IN ch
LoadsAstray(first) == Chain(first)[MAX_FILE_BLK] # END
Loaded(n) ==
    [k \in Ids |-> IF Chain(n.first)[k] < 0 THEN n.data[k]
                   ELSE [cached |-> TRUE, dirty |-> n.data[k].dirty,
                         id |-> Chain(n.first)[k], bytes |-> CardBytes(Chain(n.first)[k])]]
FatsWalked(first) ==
    {Chain(first)[k] \div FAT_ENTRY_PER_BLK : k \in {k \in Ids : Chain(first)[k] >= 0}}

(***************************************************************************)
(* System calls.                                                           *)
(***************************************************************************)
Calling == pc = "run" /\ calls < MaxCalls
Returns == got' = <<>> /\ calls' = calls + 1 /\ UNCHANGED <<pc, cuts, safe, torn>>
Derails == pc' = "lost" /\ UNCHANGED <<card, memory, hnd, got, safe, stray, torn, far, cuts, calls>>

EnlistedTwice(d, e, was) == Append(d, e)    \* mutant: the flag is not looked at
Enlisted(d, e, was) == IF was THEN d ELSE Append(d, e)

(* fat32_lookup and fat32_open: the name is searched in lower case *)
Slot(n) == {i \in Slots : Inode[i].name = n}
Open(h, n) ==
    /\ Calling /\ Slot(n) # {}
    /\ hnd' = [hnd EXCEPT ![h] = [slot |-> Min(Slot(n)), pos |-> 0]]
    /\ dir' = Dir /\ inode' = Inode
    /\ Returns
    /\ UNCHANGED <<card, mfat, dirty, stray, far>>

FreeSlots == {i \in Slots : Inode[i].name = ""}
InUse(c) == \E i \in Slots : Inode[i].name # "" /\ Inode[i].first = c

MarkedNot(fats, c) == fats      \* mutant: the cluster stays free
Marked(fats, c) ==
    LET i == c \div FAT_ENTRY_PER_BLK
    IN [fats EXCEPT ![i].table[c % FAT_ENTRY_PER_BLK] = END, ![i].dirty = TRUE]

(* The card gets the high word of the first cluster and 8 bits of the low. *)
ShortCluster(c) == (c \div Word) * Word + ((c % Word) % ClusMod)

(* fat32_create, and the open of the new file *)
Create(h, n) ==
    LET i == Min(FreeSlots)
        c == FreeCluster
        f == c \div FAT_ENTRY_PER_BLK
        fats == WithFats(FatsSearched)
    IN /\ Calling /\ Slot(n) = {} /\ FreeSlots # {} /\ FatsWithFree # {}
       /\ f \in Fats
       /\ inode' = [Inode EXCEPT ![i] = [name |-> n, size |-> 0, first |-> c, data |-> NoData]]
       /\ dir' = [cached |-> TRUE, dirty |-> TRUE,
                  block |-> [Dir.block EXCEPT ![i] =
                               [name |-> n, size |-> 0, first |-> ShortCluster(c)]]]
       /\ mfat' = Marked(fats, c)
       /\ dirty' = Enlisted(Enlisted(dirty, <<"dir", 0, 0>>, dir.dirty),
                            <<"fat", f, 0>>, fats[f].dirty)
       /\ hnd' = [hnd EXCEPT ![h] = [slot |-> i, pos |-> 0]]
       /\ stray' = (stray \/ InUse(c)) /\ far' = (far \/ f # 0)
       /\ Returns
       /\ UNCHANGED card

(* no free slot or no free cluster: what was read on the way stays cached *)
CreateFails(n) ==
    /\ Calling /\ Slot(n) = {} /\ (FreeSlots = {} \/ FatsWithFree = {})
    /\ dir' = Dir /\ inode' = Inode /\ mfat' = WithFats(FatsSearched)
    /\ Returns
    /\ UNCHANGED <<card, dirty, hnd, stray, far>>

Close(h) ==
    /\ Calling /\ hnd[h] # NoHandle
    /\ hnd' = [hnd EXCEPT ![h] = NoHandle]
    /\ Returns
    /\ UNCHANGED <<card, memory, stray, far>>

Seek(h, q) ==
    /\ Calling /\ hnd[h] # NoHandle
    /\ hnd' = [hnd EXCEPT ![h].pos = q]
    /\ Returns
    /\ UNCHANGED <<card, memory, stray, far>>

(* fat32_write, into the first block.  Every write adds to the size. *)
Write(h, s) ==
    LET i == hnd[h].slot
        q == hnd[h].pos
        old == inode[i]
        data == IF old.data[0].cached THEN old.data ELSE Loaded(old)
        bytes == [k \in 1 .. BLOCK_SIZE |->
                    IF k \in (q + 1) .. (q + Len(s)) THEN s[k - q] ELSE data[0].bytes[k]]
    IN /\ Calling /\ hnd[h] # NoHandle
       /\ q < BLOCK_SIZE /\ q + Len(s) <= BLOCK_SIZE
       /\ old.data[0].cached \/ ~LoadsAstray(old.first)
       /\ inode' = [inode EXCEPT ![i].size = @ + Len(s),
                                 ![i].data = [data EXCEPT ![0].bytes = bytes, ![0].dirty = TRUE]]
       /\ mfat' = IF old.data[0].cached THEN mfat ELSE WithFats(FatsWalked(old.first))
       /\ dir' = [dir EXCEPT !.dirty = TRUE, !.block[i].size = old.size + Len(s)]
       /\ dirty' = Enlisted(Enlisted(dirty, <<"file", i, 0>>, data[0].dirty),
                            <<"dir", 0, 0>>, dir.dirty)
       /\ hnd' = [hnd EXCEPT ![h].pos = q + Len(s)]
       /\ stray' = (stray \/ q # old.size \/ ~IsData(BlkId(old.first)))
       /\ Returns
       /\ UNCHANGED <<card, far>>

(***************************************************************************)
(* fat32_read.  size - f_pos is unsigned: past the end it is no bound.  A  *)
(* block that is not cached makes update_fileinfo read the whole file      *)
(* again, over blocks that were written and not synced.                    *)
(***************************************************************************)
Count(n, q, k) == IF q > n.size THEN k ELSE Min({k, n.size - q})
BlocksRead(q, m) == {x \div BLOCK_SIZE : x \in q .. (q + m - 1)}

Read(h, k) ==
    LET i == hnd[h].slot
        q == hnd[h].pos
        old == inode[i]
        m == Count(old, q, k)
        missing == {b \in BlocksRead(q, m) : ~old.data[b].cached}
        data == IF missing = {} THEN old.data ELSE Loaded(old)
        byte(x) ==
            LET b == x \div BLOCK_SIZE
                from == IF missing = {} \/ b < Min(missing) THEN old.data ELSE data
            IN IF from[b].cached THEN from[b].bytes[(x % BLOCK_SIZE) + 1] ELSE Junk
    IN /\ Calling /\ hnd[h] # NoHandle
       /\ BlocksRead(q, m) \subseteq Ids
       /\ missing = {} \/ ~LoadsAstray(old.first)
       /\ got' = [j \in 1 .. m |-> byte(q + j - 1)]
       /\ inode' = [inode EXCEPT ![i].data = data]
       /\ mfat' = IF missing = {} THEN mfat ELSE WithFats(FatsWalked(old.first))
       /\ hnd' = [hnd EXCEPT ![h].pos = q + m]
       /\ stray' = (stray \/ q > old.size)
       /\ calls' = calls + 1
       /\ UNCHANGED <<card, dir, dirty, safe, torn, far, pc, cuts>>

(***************************************************************************)
(* fat32_sync, one block a step, in the order the blocks became dirty.     *)
(***************************************************************************)
SyncStart ==
    /\ Calling /\ dirty # <<>>
    /\ pc' = "sync" /\ got' = <<>> /\ calls' = calls + 1
    /\ UNCHANGED <<card, memory, hnd, safe, stray, torn, far, cuts>>

DelistedNot(d) == d         \* mutant: no list_del
DelistedAll(d) == <<>>      \* mutant: the links of the block are cleared first
Delisted(d) == Tail(d)

Stored(e) ==
    CASE e[1] = "dir" -> [card EXCEPT !.dir = dir.block]
      [] e[1] = "fat" -> [card EXCEPT !.fat[e[2]] = mfat[e[2]].table]
      [] OTHER -> [card EXCEPT !.data[ClusterAt(inode[e[2]].data[e[3]].id)] =
                                    inode[e[2]].data[e[3]].bytes]
Cleaned(e) ==
    CASE e[1] = "dir" -> dir' = [dir EXCEPT !.dirty = FALSE] /\ UNCHANGED <<mfat, inode>>
      [] e[1] = "fat" -> mfat' = [mfat EXCEPT ![e[2]].dirty = FALSE] /\ UNCHANGED <<dir, inode>>
      [] OTHER -> inode' = [inode EXCEPT ![e[2]].data[e[3]].dirty = FALSE]
                  /\ UNCHANGED <<dir, mfat>>
(* blk_id is that of the block: it was read at some time *)
Placed(e) == CASE e[1] = "dir" -> TRUE
               [] e[1] = "fat" -> mfat[e[2]].cached
               [] OTHER -> IsData(inode[e[2]].data[e[3]].id)

SyncStep ==
    /\ pc = "sync" /\ dirty # <<>> /\ Placed(Head(dirty))
    /\ card' = Stored(Head(dirty)) /\ Cleaned(Head(dirty))
    /\ dirty' = Delisted(dirty)
    /\ UNCHANGED <<hnd, got, safe, stray, torn, far, pc, cuts, calls>>

(* the card took the block and reports an error: writeblock goes round *)
SyncRetry ==
    /\ pc = "sync" /\ dirty # <<>> /\ Placed(Head(dirty))
    /\ card' = Stored(Head(dirty))
    /\ UNCHANGED <<memory, hnd, got, safe, stray, torn, far, pc, cuts, calls>>

(* What a program finds under the name n, in memory and on the card. *)
Files(nodes) ==
    [n \in Names |->
       LET S == {i \in Slots : nodes[i].name = n}
           node == nodes[Min(S)]
           bytes == IF node.data[0].cached THEN node.data[0].bytes
                                           ELSE CardBytes(BlkId(node.first))
       IN IF S = {} THEN [exists |-> FALSE, text |-> <<>>]
          ELSE [exists |-> TRUE, text |-> SubSeq(bytes, 1, Min({node.size, BLOCK_SIZE}))]]

SyncDone ==
    /\ pc = "sync" /\ dirty = <<>>
    /\ pc' = "run" /\ safe' = Files(Inode) /\ got' = <<>>
    /\ UNCHANGED <<card, memory, hnd, stray, torn, far, cuts, calls>>

(***************************************************************************)
(* fat32_init and fat32_set_mount, and the power: the card stays.          *)
(***************************************************************************)
Fresh(i) == [cached |-> FALSE, dirty |-> FALSE,
             table |-> [j \in 0 .. (FAT_ENTRY_PER_BLK - 1) |-> 0]]
NoDir == [cached |-> FALSE, dirty |-> FALSE, block |-> [i \in Slots |-> NoEnt]]

Init == /\ card \in Cards
        /\ mfat = [i \in Fats |-> Fresh(i)]
        /\ dir = NoDir
        /\ inode = [i \in Slots |-> NoInode]
        /\ dirty = <<>>
        /\ hnd = [h \in Handles |-> NoHandle] /\ got = <<>>
        /\ safe = Files(Parsed(card.dir))
        /\ stray = FALSE /\ torn = FALSE /\ far = FALSE
        /\ pc = "run" /\ cuts = 0 /\ calls = 0

PowerCut ==
    /\ pc \in {"run", "sync"} /\ cuts < MaxCuts
    /\ mfat' = [i \in Fats |-> Fresh(i)]
    /\ dir' = NoDir
    /\ inode' = [i \in Slots |-> NoInode]
    /\ dirty' = <<>>
    /\ hnd' = [h \in Handles |-> NoHandle] /\ got' = <<>>
    /\ safe' = Files(Parsed(card.dir))
    /\ torn' = (torn \/ pc = "sync")
    /\ pc' = "run" /\ cuts' = cuts + 1
    /\ UNCHANGED <<card, stray, far, calls>>

(***************************************************************************)
(* Undefined behaviour.                                                    *)
(***************************************************************************)
(* marking a cluster beyond fat[] *)
CreateAstray(n) ==
    /\ Calling /\ Slot(n) = {} /\ FreeSlots # {} /\ FatsWithFree # {}
    /\ FreeCluster \div FAT_ENTRY_PER_BLK \notin Fats
    /\ Derails
(* The position counts from the start of the file also in a later block.   *)
(* At the very end of the first an empty write reads the file again, over  *)
(* what was not synced, and enlists data[1], the block the walk of the FAT *)
(* led to next or block 0.                                                 *)
WriteAstray(h, s) ==
    /\ Calling /\ hnd[h] # NoHandle
    /\ \/ hnd[h].pos >= BLOCK_SIZE \/ hnd[h].pos + Len(s) > BLOCK_SIZE
       \/ LET n == inode[hnd[h].slot] IN ~n.data[0].cached /\ LoadsAstray(n.first)
    /\ Derails
(* beyond data[MAX_FILE_BLK - 1] *)
ReadAstray(h, k) ==
    LET n == inode[hnd[h].slot]
        R == BlocksRead(hnd[h].pos, Count(n, hnd[h].pos, k))
    IN /\ Calling /\ hnd[h] # NoHandle
       /\ \/ ~(R \subseteq Ids)
          \/ LoadsAstray(n.first) /\ \E b \in R : ~n.data[b].cached
       /\ Derails
(* a block that was never read has blk_id 0: the partition table is gone *)
SyncAstray == pc = "sync" /\ dirty # <<>> /\ ~Placed(Head(dirty)) /\ Derails

Next ==
    \/ SyncStart \/ SyncStep \/ SyncRetry \/ SyncDone \/ PowerCut \/ SyncAstray
    \/ \E n \in Names : CreateFails(n) \/ CreateAstray(n)
    \/ \E h \in Handles :
         \/ \E n \in Names : Open(h, n) \/ Create(h, n)
         \/ Close(h)
         \/ \E q \in Offsets : Seek(h, q)
         \/ \E s \in Bufs : Write(h, s) \/ WriteAstray(h, s)
         \/ \E k \in Lens : Read(h, k) \/ ReadAstray(h, k)

(* The processor goes on with a sync, and the card takes a block in the    *)
(* end, unless the power fails.                                            *)
Spec == Init /\ [][Next]_vars /\ WF_vars(SyncStep \/ SyncDone \/ SyncAstray)

(* A card on which every file has one cluster of its own and fits into it, *)
(* and no entry of the directory follows one that was never used.          *)
OneClusterEach(c) ==
    /\ \A f \in Fats, j \in 0 .. (FAT_ENTRY_PER_BLK - 1) : c.fat[f][j] \in {FREE, END}
    /\ \A i, j \in Slots : i < j /\ c.dir[i] = NoEnt => c.dir[j] = NoEnt
    /\ \A i \in Slots : LET e == c.dir[i] IN e.name # "" =>
         /\ e.first \in Clusters /\ e.size <= BLOCK_SIZE
         /\ c.fat[e.first \div FAT_ENTRY_PER_BLK][e.first % FAT_ENTRY_PER_BLK] # FREE
         /\ \A j \in Slots \ {i} : c.dir[j].name # "" =>
              e.name # c.dir[j].name /\ e.first # c.dir[j].first

(***************************************************************************)
(* Properties.                                                             *)
(***************************************************************************)
(* The dirty list holds every dirty block once and no other; a clean block *)
(* in memory is the block on the card, even half-way through a sync; what  *)
(* the parsed directory says is what its block says.  Three flags, a list  *)
(* and two copies of the directory are kept in step by hand, and an        *)
(* overwritten or misread file must not disturb them.                      *)
IsDirty(e) == CASE e[1] = "dir" -> dir.dirty
                [] e[1] = "fat" -> mfat[e[2]].dirty
                [] OTHER -> inode[e[2]].data[e[3]].dirty
Blocks == {<<"dir", 0, 0>>} \cup ({"fat"} \X Fats \X {0}) \cup ({"file"} \X Slots \X Ids)
CachesTrue ==
    pc # "lost" =>
        /\ Cardinality(Range(dirty)) = Len(dirty)
        /\ {e \in Blocks : IsDirty(e)} = Range(dirty)
        /\ dir.cached /\ ~dir.dirty => dir.block = card.dir
        /\ \A f \in Fats : mfat[f].cached /\ ~mfat[f].dirty => mfat[f].table = card.fat[f]
        /\ ~torn /\ ~far => \A i \in Slots, k \in Ids :
             LET b == inode[i].data[k]
             IN b.cached /\ ~b.dirty => b.bytes = CardBytes(b.id)
        /\ dir.cached => \A i \in Slots :
             /\ inode[i].name = dir.block[i].name /\ inode[i].size = dir.block[i].size
             /\ dir.block[i].first \in {inode[i].first, ShortCluster(inode[i].first)}

(* No two files have the same cluster, and no file's cluster is free for a *)
(* third, in memory as on the card: unless the power failed during a sync, *)
(* when the directory was written and the FAT was not, or the first FAT    *)
(* block was full once.                                                    *)
Apart(nodes, T(_)) ==
    \A i \in Slots : nodes[i].name # "" =>
        /\ T(nodes[i].first \div FAT_ENTRY_PER_BLK)[nodes[i].first % FAT_ENTRY_PER_BLK] # FREE
        /\ \A j \in Slots \ {i} : nodes[j].name # "" => nodes[i].first # nodes[j].first
NoCrossLink ==
    ~torn /\ ~far /\ pc # "lost" =>
        /\ Apart(Inode, Table)
        /\ pc # "sync" => Apart(Parsed(card.dir), LAMBDA f : card.fat[f])

(* Every sync ends: the list it empties is the one it walks. *)
SyncEnds == (pc = "sync") ~> (pc # "sync")

(* A cluster that is given to a file was no other file's: "Find Not Used   *)
(* Cluster".                                                               *)
ClusterUnused ==
    [][\A h \in Handles, n \in Names : Create(h, n) => ~InUse(FreeCluster)]_vars

(* Reads give what was written, and a file that did not change since the   *)
(* last sync survives any loss of power, also one during a later sync: of  *)
(* files that fit into a block and have a data cluster of their own, while *)
(* programs append and read within the file.  DurableFiles!Excuse says all *)
(* a program or a card must do to lose the promise, a call that derails    *)
(* the kernel included; what else a program does never costs it.           *)
Owned(n) == \E i \in Slots : /\ Inode[i].name = n
                             /\ IsData(BlkId(Inode[i].first)) /\ ~LoadsAstray(Inode[i].first)
NewIsOwned == FatsWithFree # {} => FreeCluster \div FAT_ENTRY_PER_BLK = 0 /\ ~InUse(FreeCluster)

Store == INSTANCE DurableFiles WITH
    now <- Files(Inode),
    at <- [h \in Handles |->
             IF hnd[h] = NoHandle THEN [name |-> "", pos |-> 0]
             ELSE [name |-> inode[hnd[h].slot].name, pos |-> hnd[h].pos]],
    sound <- ~stray /\ ~far /\ pc # "lost",
    owned <- {n \in Names : Owned(n)},
    room <- NewIsOwned,
    Limit <- BLOCK_SIZE
Durable == Store!Spec
=============================================================================
