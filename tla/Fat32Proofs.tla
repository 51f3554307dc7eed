---------------------------- MODULE Fat32Proofs ----------------------------
(***************************************************************************)
(* Proofs about module Fat32: its lists and flags agree on any card        *)
(* (ListsHold), and on a card that satisfies OneClusterEach the caches are *)
(* true (CachesTrue) and no two files share a cluster (NoCrossLink), for   *)
(* every number of files, of blocks of the FAT, of calls and power cuts.   *)
(***************************************************************************)
EXTENDS Fat32, FiniteSetTheorems, TLAPS

(***************************************************************************)
(* The lists and flags, on any card.                                       *)
(***************************************************************************)
Bytes == [1 .. BLOCK_SIZE -> Int]
FatTable == [0 .. (FAT_ENTRY_PER_BLK - 1) -> Int]
Words == STRING \cup {""}        \* the provers do not know that "" is a string
Entry == [name : Words, size : Nat, first : Nat]
DataBlock == [cached : BOOLEAN, dirty : BOOLEAN, id : Int, bytes : Bytes \cup {<<>>}]
Node == [name : Words, size : Nat, first : Nat, data : [Ids -> DataBlock]]

Types ==
    /\ card \in [fat : [Fats -> FatTable], dir : [Slots -> Entry], data : [Clusters -> Bytes]]
    /\ mfat \in [Fats -> [cached : BOOLEAN, dirty : BOOLEAN, table : FatTable]]
    /\ dir \in [cached : BOOLEAN, dirty : BOOLEAN, block : [Slots -> Entry]]
    /\ inode \in [Slots -> Node]
    /\ dirty \in Seq(Blocks)
    /\ hnd \in [Handles -> [slot : Slots \cup {0}, pos : Nat]]
    /\ stray \in BOOLEAN /\ torn \in BOOLEAN /\ far \in BOOLEAN

Unread == ~dir.cached => inode = [i \in Slots |-> NoInode] /\ ~dir.dirty
Handled == \A h \in Handles : hnd[h] # NoHandle =>
    hnd[h].slot \in Slots /\ dir.cached /\ inode[hnd[h].slot].name \in Names
Bare == \A i \in Slots : inode[i].name = "" => inode[i].data = NoData
Filled == \A i \in Slots, k \in Ids :
    /\ inode[i].data[k].dirty => inode[i].data[k].cached
    /\ inode[i].data[k].cached => inode[i].data[k].bytes \in Bytes
Nodes == Unread /\ Handled /\ Bare /\ Filled

In(d, e) == \E a \in 1 .. Len(d) : d[a] = e
Once(d) == \A a, b \in 1 .. Len(d) : d[a] = d[b] => a = b
DirE == <<"dir", 0, 0>>
FatE(f) == <<"fat", f, 0>>
FileE(i, k) == <<"file", i, k>>
DirListed == dir.dirty <=> In(dirty, DirE)
FatListed == \A f \in Fats : mfat[f].dirty <=> In(dirty, FatE(f))
FileListed == \A i \in Slots, k \in Ids : inode[i].data[k].dirty <=> In(dirty, FileE(i, k))
Listed == Once(dirty) /\ DirListed /\ FatListed /\ FileListed
CleanDir == dir.cached /\ ~dir.dirty => dir.block = card.dir
CleanFat == \A f \in Fats : mfat[f].cached /\ ~mfat[f].dirty => mfat[f].table = card.fat[f]

Phase == pc \in {"run", "sync", "lost"}

Lists == Types /\ Nodes /\ Listed /\ CleanDir /\ CleanFat

(***************************************************************************)
(* Cards of one cluster to the file.                                       *)
(***************************************************************************)
Tables == [f \in Fats |-> Table(f)]
Named(i) == Inode[i].name # ""
OnCard(i) == card.dir[i].name # ""
Taken(T, c) == T[c \div FAT_ENTRY_PER_BLK][c % FAT_ENTRY_PER_BLK] # FREE
Tidy(block) == \A i, j \in Slots : i < j /\ block[i] = NoEnt => block[j] = NoEnt
Trusted == ~far /\ (~torn \/ ~stray)

Plain == \A f \in Fats, j \in 0 .. (FAT_ENTRY_PER_BLK - 1) :
    card.fat[f][j] \in {FREE, END} /\ Tables[f][j] \in {FREE, END}
Directory ==
    /\ Tidy(card.dir) /\ Tidy(Dir.block)
    /\ \A i \in Slots :
         /\ Inode[i].name = Dir.block[i].name /\ Inode[i].size = Dir.block[i].size
         /\ Dir.block[i].first \in {Inode[i].first, ShortCluster(Inode[i].first)}
         /\ ~far => Dir.block[i].first = Inode[i].first
Titles ==
    /\ \A i \in Slots : Named(i) => Inode[i].first \in Clusters
    /\ \A i, j \in Slots : Named(i) /\ Inode[i].name = Inode[j].name => i = j
    /\ \A i \in Slots : OnCard(i) =>
         /\ Inode[i].name = card.dir[i].name /\ card.dir[i].first \in Clusters
         /\ ~far => Inode[i].first = card.dir[i].first
Blkids == \A i \in Slots, k \in Ids : Inode[i].data[k].cached =>
    Inode[i].data[k].id = IF k = 0 THEN BlkId(Inode[i].first) ELSE 0
Unshared == Trusted =>
    \A i, j \in Slots : Named(i) /\ Named(j) /\ Inode[i].first = Inode[j].first => i = j
MemMarked == ~far /\ ~torn => \A i \in Slots : Named(i) => Taken(Tables, Inode[i].first)
CardMarked == ~far /\ ~torn /\ pc = "run" =>
    \A i \in Slots : OnCard(i) => Taken(card.fat, card.dir[i].first)
CleanData == Trusted => \A i \in Slots, k \in Ids :
    LET b == Inode[i].data[k] IN b.cached /\ ~b.dirty => b.bytes = CardBytes(b.id)

Clean == Plain /\ Directory /\ Titles /\ Blkids /\ Unshared /\ MemMarked /\ CardMarked /\ CleanData

(***************************************************************************)
(* Numbers, lists and constants.                                           *)
(***************************************************************************)
F == FAT_ENTRY_PER_BLK

LEMMA Constants ==
    /\ F \in Nat \ {0} /\ F > 2 /\ FatBlks \in Nat \ {0} /\ BLOCK_SIZE \in Nat \ {0}
    /\ 0 \in Fats /\ Fats \subseteq Nat /\ Slots \subseteq Nat /\ 0 \notin Slots
    /\ 0 \in Ids /\ Ids \subseteq Nat /\ Clusters \subseteq Nat
<1>1. F \in Nat \ {0} /\ F > 2 /\ FatBlks \in Nat \ {0} /\ BLOCK_SIZE \in Nat \ {0}
      /\ MAX_ENTRY \in Nat \ {0} /\ MAX_FILE_BLK \in Nat \ {0}
  BY CardAssumption DEF F
<1>2. Clusters \subseteq Nat
  BY DEF Clusters
<1> QED BY <1>1, <1>2 DEF Fats, Slots, Ids

(* The block of the FAT and the entry in it that stand for a cluster. *)
LEMMA Divided ==
    ASSUME NEW x \in Nat
    PROVE  /\ x \div F \in Nat /\ x % F \in 0 .. (F - 1) /\ x = F * (x \div F) + (x % F)
           /\ x < F => x \div F = 0 /\ x % F = x
           /\ x \in Clusters <=> x \div F \in Fats
<1>1. F \in Nat \ {0} /\ FatBlks \in Nat \ {0}
  BY Constants
<1> DEFINE q == x \div F
           r == x % F
<1>2. q \in Nat /\ r \in 0 .. (F - 1) /\ x = F * q + r
  BY <1>1
<1>3. x < F => q = 0 /\ r = x
  BY <1>1
<1>4. x \in Clusters <=> x < FatBlks * F
  <2>1. FatBlks * F \in Nat
    BY <1>1
  <2> QED BY <2>1 DEF Clusters, F
<1>5. q \in Fats <=> q < FatBlks
  BY <1>1, <1>2 DEF Fats
<1>6. q < FatBlks => x < FatBlks * F
  <2>1. SUFFICES ASSUME q < FatBlks PROVE x < FatBlks * F
    OBVIOUS
  <2>2. PICK d \in Nat : FatBlks = q + 1 + d
    <3>1. FatBlks - q - 1 \in Nat /\ FatBlks = q + 1 + (FatBlks - q - 1)
      BY <1>1, <1>2, <2>1
    <3> QED BY <3>1
  <2>3. FatBlks * F = F * q + F + d * F
    BY <1>1, <1>2, <2>2
  <2>4. d * F \in Nat /\ F * q \in Nat
    BY <1>1, <1>2, <2>2
  <2> HIDE DEF q, r
  <2> QED BY <1>1, <1>2, <2>3, <2>4
<1>7. q >= FatBlks => x >= FatBlks * F
  <2>1. SUFFICES ASSUME q >= FatBlks PROVE x >= FatBlks * F
    OBVIOUS
  <2>2. PICK d \in Nat : q = FatBlks + d
    <3>1. q - FatBlks \in Nat /\ q = FatBlks + (q - FatBlks)
      BY <1>1, <1>2, <2>1
    <3> QED BY <3>1
  <2>3. F * q = FatBlks * F + d * F
    BY <1>1, <1>2, <2>2
  <2>4. d * F \in Nat /\ FatBlks * F \in Nat
    BY <1>1, <2>2
  <2> HIDE DEF q, r
  <2> QED BY <1>1, <1>2, <2>3, <2>4
<1> HIDE DEF q, r
<1>8. x \in Clusters <=> q \in Fats
  <2>1. FatBlks * F \in Nat
    BY <1>1
  <2> QED BY <1>1, <1>2, <1>4, <1>5, <1>6, <1>7, <2>1
<1> QED BY <1>2, <1>3, <1>8 DEF q, r

(* What the card keeps of a cluster's number: no more than it, and all of  *)
(* it in the first FAT block.                                              *)
LEMMA ShortFacts ==
    ASSUME NEW x \in Nat
    PROVE  /\ ShortCluster(x) \in Nat /\ ShortCluster(x) <= x
           /\ x < F => ShortCluster(x) = x
<1>1. F \in Nat \ {0} /\ ClusMod = 2 * F /\ Word = 256 * ClusMod
  BY Constants DEF ClusMod, Word, F
<1>2. ClusMod \in Nat \ {0} /\ Word \in Nat \ {0} /\ F < ClusMod /\ F < Word
  BY <1>1
<1> DEFINE w == Word
           m == ClusMod
           q == x \div w
           r == x % w
           a == r \div m
           b == r % m
<1> HIDE DEF w, m
<1>3. w \in Nat \ {0} /\ m \in Nat \ {0} /\ F < m /\ F < w
  BY <1>2 DEF w, m
<1>4. q \in Nat /\ r \in Nat /\ x = w * q + r
  BY <1>3
<1>5. x < w => q = 0 /\ r = x
  BY <1>3
<1> HIDE DEF q, r
<1>6. a \in Nat /\ b \in Nat /\ r = m * a + b
  BY <1>3, <1>4
<1>7. r < m => b = r
  BY <1>3, <1>4
<1> HIDE DEF a, b
<1>8. ShortCluster(x) = q * w + b
  BY DEF ShortCluster, w, m, q, r, b
<1>9. q * w \in Nat /\ q * w = w * q /\ m * a \in Nat
  BY <1>3, <1>4, <1>6
<1>10. ASSUME x < F PROVE q * w = 0 /\ r = x /\ b = x
  <2>1. F \in Nat
    BY <1>1
  <2>2. x < w
    BY <1>3, <1>10, <2>1
  <2>3. q = 0 /\ r = x
    BY <1>5, <2>2
  <2>4. x < m
    BY <1>3, <1>10, <2>1
  <2> QED BY <1>3, <1>7, <2>3, <2>4
<1> QED BY <1>4, <1>6, <1>8, <1>9, <1>10

(* A set of naturals that is not empty has a least element, Min. *)
Smaller == {ss \in Nat \X Nat : ss[1] < ss[2]}

LEMMA Least ==
    ASSUME NEW T \in SUBSET Nat, T # {}
    PROVE  \E x \in T : \A y \in T : x <= y
<1>1. IsWellFoundedOn(Smaller, Nat)
  BY NatLessThanWellFounded DEF OpToRel, Smaller
<1>2. PICK x \in T : \A y \in T : <<y, x>> \notin Smaller
  BY <1>1, WFMin
<1>3. \A y \in T : ~(y < x)
  BY <1>2 DEF Smaller
<1>4. \A y \in T : x <= y
  BY <1>3
<1> QED BY <1>4

LEMMA MinIn ==
    ASSUME NEW T \in SUBSET Nat, T # {}
    PROVE  Min(T) \in T /\ \A y \in T : Min(T) <= y
BY Least DEF Min

LEMMA MinOne == ASSUME NEW x \in Nat PROVE Min({x}) = x
BY MinIn

(* list_add_tail of a block that is not on the list, and list_del. *)
LEMMA Enlisting ==
    ASSUME NEW S, NEW d \in Seq(S), NEW e \in S, Once(d), NEW was, was <=> In(d, e)
    PROVE  /\ Enlisted(d, e, was) \in Seq(S) /\ Once(Enlisted(d, e, was))
           /\ \A x : In(Enlisted(d, e, was), x) <=> In(d, x) \/ x = e
<1>1. CASE was
  BY <1>1 DEF Enlisted, In
<1>2. CASE ~was
  <2> DEFINE g == Append(d, e)
  <2>1. Enlisted(d, e, was) = g
    BY <1>2 DEF Enlisted
  <2>2. g \in Seq(S) /\ Len(g) = Len(d) + 1 /\ g[Len(d) + 1] = e
        /\ \A a \in 1 .. Len(d) : g[a] = d[a]
    OBVIOUS
  <2>3. Len(d) \in Nat
    OBVIOUS
  <2> HIDE DEF g
  <2>4. \A a \in 1 .. Len(g) : a \in 1 .. Len(d) \/ a = Len(d) + 1
    BY <2>2, <2>3
  <2>5. \A a \in 1 .. Len(d) : d[a] # e
    BY <1>2 DEF In
  <2>6. Once(g)
    BY <2>2, <2>4, <2>5 DEF Once
  <2>7. \A x : In(g, x) <=> In(d, x) \/ x = e
    <3>1. Len(d) + 1 \in 1 .. Len(g) /\ 1 .. Len(d) \subseteq 1 .. Len(g)
      BY <2>2, <2>3
    <3> QED BY <2>2, <2>4, <3>1 DEF In
  <2> QED BY <2>1, <2>2, <2>6, <2>7
<1> QED BY <1>1, <1>2

LEMMA Delisting ==
    ASSUME NEW S, NEW d \in Seq(S), d # <<>>, Once(d)
    PROVE  /\ Head(d) \in S /\ In(d, Head(d))
           /\ Tail(d) \in Seq(S) /\ Once(Tail(d))
           /\ \A x : In(Tail(d), x) <=> In(d, x) /\ x # Head(d)
<1>1. Len(d) \in Nat /\ Len(d) # 0
  OBVIOUS
<1>2. Head(d) = d[1] /\ 1 \in 1 .. Len(d) /\ d[1] \in S
  BY <1>1
<1> DEFINE t == Tail(d)
<1>3. t \in Seq(S) /\ Len(t) = Len(d) - 1 /\ \A a \in 1 .. Len(t) : t[a] = d[a + 1]
  BY <1>1
<1> HIDE DEF t
<1>4. \A a \in 1 .. Len(t) : a + 1 \in 1 .. Len(d) /\ a + 1 # 1
  BY <1>1, <1>3
<1>5. Once(t)
  <2>1. SUFFICES ASSUME NEW a \in 1 .. Len(t), NEW b \in 1 .. Len(t), t[a] = t[b] PROVE a = b
    BY DEF Once
  <2>2. d[a + 1] = d[b + 1]
    BY <1>3, <2>1
  <2>3. a + 1 = b + 1
    BY <1>4, <2>2 DEF Once
  <2> QED BY <2>3
<1>6. ASSUME NEW x PROVE In(t, x) <=> In(d, x) /\ x # Head(d)
  <2>1. ASSUME In(t, x) PROVE In(d, x) /\ x # Head(d)
    <3>1. PICK a \in 1 .. Len(t) : t[a] = x
      BY <2>1 DEF In
    <3>2. d[a + 1] = x
      BY <1>3, <3>1
    <3> QED BY <1>2, <1>4, <3>2 DEF In, Once
  <2>2. ASSUME In(d, x), x # Head(d) PROVE In(t, x)
    <3>1. PICK a \in 1 .. Len(d) : d[a] = x
      BY <2>2 DEF In
    <3>2. a - 1 \in 1 .. Len(t) /\ (a - 1) + 1 = a
      BY <1>1, <1>2, <1>3, <2>2, <3>1
    <3>3. t[a - 1] = x
      BY <1>3, <3>1, <3>2
    <3> QED BY <3>2, <3>3 DEF In
  <2> QED BY <2>1, <2>2
<1> QED BY <1>2, <1>3, <1>5, <1>6 DEF In, t

(* The kinds of blocks are apart. *)
LEMMA BlockKinds ==
    /\ DirE \in Blocks
    /\ \A f \in Fats : FatE(f) \in Blocks /\ FatE(f) # DirE
    /\ \A i \in Slots, k \in Ids : FileE(i, k) \in Blocks /\ FileE(i, k) # DirE
    /\ \A f, g : FatE(f) = FatE(g) => f = g
    /\ \A i, k, j, l : FileE(i, k) = FileE(j, l) => i = j /\ k = l
    /\ \A f, i, k : FatE(f) # FileE(i, k)
    /\ \A e \in Blocks : \/ e = DirE
                         \/ \E f \in Fats : e = FatE(f)
                         \/ \E i \in Slots, k \in Ids : e = FileE(i, k)
BY DEF Blocks, DirE, FatE, FileE

(***************************************************************************)
(* What is read from the card.                                             *)
(***************************************************************************)
FatBlock == [cached : BOOLEAN, dirty : BOOLEAN, table : FatTable]
DirBlock == [cached : BOOLEAN, dirty : BOOLEAN, block : [Slots -> Entry]]

LEMMA CardBytesType ==
    ASSUME Types, NEW b \in Int
    PROVE  CardBytes(b) \in Bytes
<1>1. CASE IsData(b)
  BY <1>1 DEF CardBytes, IsData, Types
<1>2. CASE ~IsData(b)
  <2>1. Junk \in Int
    BY DEF Junk
  <2> QED BY <1>2, <2>1 DEF CardBytes, Bytes
<1> QED BY <1>1, <1>2

LEMMA FatFacts ==
    ASSUME Types
    PROVE  /\ \A f \in Fats : Table(f) \in FatTable
           /\ \A S : /\ WithFats(S) \in [Fats -> FatBlock]
                     /\ \A f \in Fats :
                          /\ WithFats(S)[f].dirty = mfat[f].dirty
                          /\ WithFats(S)[f].cached <=> f \in S \/ mfat[f].cached
                          /\ WithFats(S)[f].table = IF f \in S THEN Table(f) ELSE mfat[f].table
<1>1. \A f \in Fats : Table(f) \in FatTable
  BY DEF Table, Types
<1>2. ASSUME NEW S, NEW f \in Fats
      PROVE  /\ WithFats(S)[f] \in FatBlock
             /\ WithFats(S)[f].dirty = mfat[f].dirty
             /\ WithFats(S)[f].cached <=> f \in S \/ mfat[f].cached
             /\ WithFats(S)[f].table = IF f \in S THEN Table(f) ELSE mfat[f].table
  <2> DEFINE r == mfat[f]
             t == Table(f)
  <2>1. WithFats(S)[f] = IF f \in S THEN [r EXCEPT !.cached = TRUE, !.table = t] ELSE r
    BY DEF WithFats
  <2>2. r \in FatBlock /\ t \in FatTable
    BY <1>1 DEF Types, FatBlock
  <2> HIDE DEF r, t
  <2> DEFINE s == [r EXCEPT !.cached = TRUE]
             u == [s EXCEPT !.table = t]
  <2>3. s \in FatBlock /\ s.cached /\ s.dirty = r.dirty /\ s.table = r.table
    BY <2>2 DEF FatBlock
  <2>4. [r EXCEPT !.cached = TRUE, !.table = t] = u
    OBVIOUS
  <2> HIDE DEF s
  <2>5. u \in FatBlock /\ u.cached /\ u.dirty = r.dirty /\ u.table = t
    BY <2>2, <2>3 DEF FatBlock
  <2> HIDE DEF u
  <2>6. CASE f \in S
    <3>1. WithFats(S)[f] = u
      BY <2>1, <2>4, <2>6
    <3> QED BY <2>5, <2>6, <3>1 DEF r, t
  <2>7. CASE f \notin S
    <3>1. WithFats(S)[f] = r
      BY <2>1, <2>7
    <3> QED BY <2>2, <2>7, <3>1 DEF r
  <2> QED BY <2>6, <2>7
<1>3. \A S : WithFats(S) = [f \in Fats |-> WithFats(S)[f]]
  BY DEF WithFats
<1> QED BY <1>1, <1>2, <1>3

LEMMA NoNodes ==
    /\ NoData \in [Ids -> DataBlock] /\ NoInode \in Node
    /\ \A k \in Ids : ~NoData[k].cached /\ ~NoData[k].dirty
    /\ NoInode.name = "" /\ NoInode.data = NoData /\ NoInode.size = 0 /\ NoInode.first = 0
<1>1. <<>> \in Bytes \cup {<<>>} /\ 0 \in Int /\ 0 \in Nat
  OBVIOUS
<1> DEFINE empty == ""
<1>5. empty \in Words
  BY DEF Words
<1> HIDE DEF empty
<1>2. [cached |-> FALSE, dirty |-> FALSE, id |-> 0, bytes |-> <<>>] \in DataBlock
  BY <1>1 DEF DataBlock
<1>3. NoData \in [Ids -> DataBlock] /\ \A k \in Ids : ~NoData[k].cached /\ ~NoData[k].dirty
  BY <1>2 DEF NoData
<1>4. NoInode \in Node
  <2> DEFINE d == NoData
  <2>1. d \in [Ids -> DataBlock]
    BY <1>3
  <2> HIDE DEF d
  <2>2. [name |-> empty, size |-> 0, first |-> 0, data |-> d] \in Node
    BY <1>1, <1>5, <2>1 DEF Node
  <2> QED BY <2>2 DEF NoInode, d, empty
<1> QED BY <1>3, <1>4 DEF NoInode

LEMMA ParsedFacts ==
    ASSUME NEW block \in [Slots -> Entry]
    PROVE  /\ Parsed(block) \in [Slots -> Node]
           /\ \A i \in Slots : Parsed(block)[i].data = NoData
<1>1. ASSUME NEW i \in Slots
      PROVE  Parsed(block)[i] \in Node /\ Parsed(block)[i].data = NoData
  <2>1. Parsed(block)[i] = NoInode \/
        Parsed(block)[i] = [name |-> block[i].name, size |-> block[i].size,
                            first |-> block[i].first, data |-> NoData]
    BY DEF Parsed
  <2>2. block[i].name \in Words /\ block[i].size \in Nat /\ block[i].first \in Nat
    BY DEF Entry
  <2> DEFINE d == NoData
  <2>3. d \in [Ids -> DataBlock]
    BY NoNodes
  <2> HIDE DEF d
  <2>4. [name |-> block[i].name, size |-> block[i].size, first |-> block[i].first, data |-> d] \in Node
    BY <2>2, <2>3 DEF Node
  <2>5. CASE Parsed(block)[i] = NoInode
    BY <2>5, NoNodes
  <2>6. CASE Parsed(block)[i] = [name |-> block[i].name, size |-> block[i].size,
                                 first |-> block[i].first, data |-> d]
    BY <2>4, <2>6 DEF d
  <2> QED BY <2>1, <2>5, <2>6 DEF d
<1>2. Parsed(block) = [i \in Slots |-> Parsed(block)[i]]
  BY DEF Parsed
<1> QED BY <1>1, <1>2

LEMMA DirFacts ==
    ASSUME Types, Nodes
    PROVE  /\ Dir \in DirBlock /\ Dir.cached /\ Dir.dirty = dir.dirty
           /\ Dir.block = IF dir.cached THEN dir.block ELSE card.dir
           /\ Inode \in [Slots -> Node]
           /\ \A i \in Slots : /\ Inode[i].data = inode[i].data
                               /\ Inode[i].name = "" => Inode[i].data = NoData
<1>1. /\ Dir \in DirBlock /\ Dir.cached /\ Dir.dirty = dir.dirty
      /\ Dir.block = IF dir.cached THEN dir.block ELSE card.dir
  BY DEF Dir, DirBlock, Types
<1>2. CASE dir.cached
  BY <1>1, <1>2 DEF Inode, Types, Nodes, Bare
<1>3. CASE ~dir.cached
  <2>1. Inode = Parsed(card.dir) /\ card.dir \in [Slots -> Entry]
    BY <1>3 DEF Inode, Types
  <2>2. \A i \in Slots : inode[i].data = NoData
    BY <1>3, NoNodes DEF Nodes, Unread
  <2> QED BY <1>1, <2>1, <2>2, ParsedFacts
<1> QED BY <1>2, <1>3

(* update_fileinfo's walk, as the recursion of Chain defines it. *)
Step(x) == IF x < 0 THEN x ELSE NextBlk(x)
Walk(first, n, g) ==
    /\ g \in [0 .. n -> Int] /\ g[0] = BlkId(first)
    /\ \A k \in 1 .. n : g[k] = Step(g[k - 1])

LEMMA NextBlkType == ASSUME Types, NEW x \in Nat PROVE NextBlk(x) \in Int
<1>1. x % F \in 0 .. (F - 1)
  BY Divided
<1>2. CASE x \div F \in Fats
  <2>1. Table(x \div F) \in FatTable
    BY <1>2, FatFacts
  <2> QED BY <1>1, <1>2, <2>1 DEF NextBlk, FatTable, F
<1>3. CASE x \div F \notin Fats
  BY <1>3 DEF NextBlk, F, BAD
<1> QED BY <1>2, <1>3

LEMMA WalkExists ==
    ASSUME Types, NEW first \in Nat, NEW n \in Nat
    PROVE  \E g : Walk(first, n, g)
<1> DEFINE T == {m \in Nat : ~\E g : Walk(first, m, g)}
<1>1. SUFFICES ASSUME T # {} PROVE FALSE
  OBVIOUS
<1>2. PICK m \in T : \A y \in T : m <= y
  BY <1>1, Least
<1>3. BlkId(first) \in Int
  BY CardAssumption DEF BlkId, RootCluster
<1>4. CASE m = 0
  <2> DEFINE g == [k \in 0 .. 0 |-> BlkId(first)]
  <2>1. Walk(first, 0, g)
    BY <1>3 DEF Walk
  <2> QED BY <1>2, <1>4, <2>1
<1>5. CASE m # 0
  <2>1. m - 1 \in Nat /\ m - 1 \notin T
    BY <1>2, <1>5
  <2>2. PICK g : Walk(first, m - 1, g)
    BY <2>1
  <2> DEFINE h == [k \in 0 .. m |-> IF k = m THEN Step(g[m - 1]) ELSE g[k]]
  <2>3. \A k \in 0 .. (m - 1) : g[k] \in Int
    BY <2>2 DEF Walk
  <2>4. g[m - 1] \in Int
    BY <2>1, <2>3
  <2>5. Step(g[m - 1]) \in Int
    BY <2>4, NextBlkType DEF Step
  <2>6. h \in [0 .. m -> Int]
    BY <2>1, <2>3, <2>5
  <2>7. h[0] = BlkId(first)
    BY <1>2, <1>5, <2>2 DEF Walk
  <2>8. ASSUME NEW k \in 1 .. m PROVE h[k] = Step(h[k - 1])
    <3>1. k - 1 \in 0 .. m /\ k - 1 # m /\ h[k - 1] = g[k - 1]
      BY <1>2
    <3>2. CASE k = m
      BY <3>1, <3>2
    <3>3. CASE k # m
      BY <1>2, <2>2, <3>1, <3>3 DEF Walk
    <3> QED BY <3>2, <3>3
  <2>9. Walk(first, m, h)
    BY <2>6, <2>7, <2>8 DEF Walk
  <2> QED BY <1>2, <2>9
<1> QED BY <1>4, <1>5

LEMMA ChainFacts ==
    ASSUME Types, NEW first \in Nat
    PROVE  Walk(first, MAX_FILE_BLK, Chain(first))
<1> DEFINE M == MAX_FILE_BLK
           Body(c) == [k \in 0 .. M |->
                         IF k = 0 THEN BlkId(first)
                         ELSE IF c[k - 1] < 0 THEN c[k - 1] ELSE NextBlk(c[k - 1])]
           ch == CHOOSE c : c = Body(c)
<1>1. M \in Nat
  BY CardAssumption
<1>2. PICK g : Walk(first, M, g)
  BY <1>1, WalkExists
<1>3. g = Body(g)
  BY <1>2 DEF Walk, Step
<1>4. ch = Body(ch)
  BY <1>3
<1>5. Chain(first) = ch
  BY DEF Chain
<1> HIDE DEF ch
<1>6. ch[0] = BlkId(first) /\ \A k \in 1 .. M : ch[k] = Step(ch[k - 1])
  BY <1>1, <1>4 DEF Step
<1>7. \A k \in 0 .. M : ch[k] \in Int
  <2> DEFINE T == {k \in 0 .. M : ch[k] \notin Int}
  <2>1. SUFFICES ASSUME T # {} PROVE FALSE
    OBVIOUS
  <2>2. T \in SUBSET Nat
    BY <1>1
  <2>3. PICK m \in T : \A y \in T : m <= y
    BY <2>1, <2>2, Least
  <2>4. m # 0
    BY <1>6, CardAssumption DEF BlkId, RootCluster
  <2>5. m - 1 \in 0 .. M /\ m - 1 \notin T /\ m \in 1 .. M
    BY <1>1, <2>3, <2>4
  <2>6. ch[m - 1] \in Int
    BY <2>5
  <2>7. ch[m] = Step(ch[m - 1])
    BY <1>6, <2>5
  <2> QED BY <2>3, <2>6, <2>7, NextBlkType DEF Step
<1>8. ch = [k \in 0 .. M |-> ch[k]]
  BY <1>4
<1> QED BY <1>5, <1>6, <1>7, <1>8 DEF Walk

LEMMA BlkIdFacts ==
    ASSUME NEW first \in Nat
    PROVE  /\ BlkId(first) \in Nat \ {0} /\ ClusterAt(BlkId(first)) = first
           /\ ~IsData(0)
           /\ \A x \in Nat : BlkId(x) = BlkId(first) => x = first
BY CardAssumption DEF BlkId, ClusterAt, IsData, RootCluster, Clusters

(* The blocks of a file that is read. *)
LEMMA LoadedFacts ==
    ASSUME Types, Nodes, NEW n \in Node,
           \A k \in Ids : n.data[k].cached => n.data[k].bytes \in Bytes
    PROVE  /\ Loaded(n) \in [Ids -> DataBlock]
           /\ \A k \in Ids : /\ Loaded(n)[k].dirty = n.data[k].dirty
                             /\ n.data[k].cached => Loaded(n)[k].cached
                             /\ Loaded(n)[k].cached => Loaded(n)[k].bytes \in Bytes
           /\ Loaded(n)[0].cached /\ Loaded(n)[0].id = BlkId(n.first)
           /\ Loaded(n)[0].bytes = CardBytes(BlkId(n.first))
<1>1. n.first \in Nat /\ n.data \in [Ids -> DataBlock]
  BY DEF Node
<1>2. Walk(n.first, MAX_FILE_BLK, Chain(n.first))
  BY <1>1, ChainFacts
<1>3. MAX_FILE_BLK \in Nat /\ \A k \in Ids : k \in 0 .. MAX_FILE_BLK
  BY CardAssumption DEF Ids
<1>4. ASSUME NEW k \in Ids
      PROVE  /\ Loaded(n)[k] \in DataBlock
             /\ Loaded(n)[k].dirty = n.data[k].dirty
             /\ n.data[k].cached => Loaded(n)[k].cached
             /\ Loaded(n)[k].cached => Loaded(n)[k].bytes \in Bytes
  <2>1. Chain(n.first)[k] \in Int
    BY <1>2, <1>3 DEF Walk
  <2>2. CardBytes(Chain(n.first)[k]) \in Bytes
    BY <2>1, CardBytesType
  <2>3. Loaded(n)[k] = IF Chain(n.first)[k] < 0 THEN n.data[k]
                   ELSE [cached |-> TRUE, dirty |-> n.data[k].dirty,
                         id |-> Chain(n.first)[k], bytes |-> CardBytes(Chain(n.first)[k])]
    BY DEF Loaded
  <2> QED BY <1>1, <2>1, <2>2, <2>3 DEF DataBlock
<1>5. Loaded(n) = [k \in Ids |-> Loaded(n)[k]]
  BY DEF Loaded
<1>6. Chain(n.first)[0] = BlkId(n.first) /\ ~(BlkId(n.first) < 0) /\ 0 \in Ids
  BY <1>1, <1>2, BlkIdFacts, Constants DEF Walk
<1>7. Loaded(n)[0] = [cached |-> TRUE, dirty |-> n.data[0].dirty,
                      id |-> BlkId(n.first), bytes |-> CardBytes(BlkId(n.first))]
  BY <1>6 DEF Loaded
<1> QED BY <1>4, <1>5, <1>7

(***************************************************************************)
(* Updates of records in functions.                                        *)
(***************************************************************************)
NodePut(nodes, i, z, d) == [nodes EXCEPT ![i].size = @ + z, ![i].data = d]
DataPut(nodes, i, d) == [nodes EXCEPT ![i].data = d]
BytesPut(data, b) == [data EXCEPT ![0].bytes = b, ![0].dirty = TRUE]
CleanPut(nodes, i, k) == [nodes EXCEPT ![i].data[k].dirty = FALSE]
SizePut(b, i, z) == [b EXCEPT !.dirty = TRUE, !.block[i].size = z]

LEMMA NodeStep ==
    ASSUME NEW nodes \in [Slots -> Node], NEW i \in Slots, NEW z \in Nat,
           NEW d \in [Ids -> DataBlock]
    PROVE  LET m == NodePut(nodes, i, z, d) IN
           /\ m \in [Slots -> Node]
           /\ m[i].name = nodes[i].name /\ m[i].size = nodes[i].size + z
           /\ m[i].first = nodes[i].first /\ m[i].data = d
           /\ \A j \in Slots \ {i} : m[j] = nodes[j]
<1> DEFINE m == NodePut(nodes, i, z, d)
           g == [nodes EXCEPT ![i].size = @ + z]
           r == nodes[i]
           s == [r EXCEPT !.size = r.size + z]
           t == [s EXCEPT !.data = d]
<1>1. r \in Node
  OBVIOUS
<1>2. g = [nodes EXCEPT ![i] = s]
  OBVIOUS
<1>3. m = [g EXCEPT ![i].data = d]
  BY DEF NodePut
<1> HIDE DEF r
<1>4. s \in Node /\ s.name = r.name /\ s.size = r.size + z /\ s.first = r.first
  BY <1>1 DEF Node
<1> HIDE DEF s, g
<1>5. g \in [Slots -> Node] /\ g[i] = s /\ \A j \in Slots \ {i} : g[j] = nodes[j]
  BY <1>2, <1>4
<1>6. m = [g EXCEPT ![i] = t]
  BY <1>3, <1>5
<1>7. t \in Node /\ t.name = s.name /\ t.size = s.size /\ t.first = s.first /\ t.data = d
  BY <1>4 DEF Node
<1> HIDE DEF t
<1>8. m \in [Slots -> Node] /\ m[i] = t /\ \A j \in Slots \ {i} : m[j] = g[j]
  BY <1>5, <1>6, <1>7
<1> QED BY <1>4, <1>5, <1>7, <1>8 DEF r

LEMMA DataStep ==
    ASSUME NEW nodes \in [Slots -> Node], NEW i \in Slots,
           NEW d \in [Ids -> DataBlock]
    PROVE  LET m == DataPut(nodes, i, d) IN
           /\ m \in [Slots -> Node]
           /\ m[i].name = nodes[i].name /\ m[i].size = nodes[i].size
           /\ m[i].first = nodes[i].first /\ m[i].data = d
           /\ \A j \in Slots \ {i} : m[j] = nodes[j]
<1> DEFINE m == DataPut(nodes, i, d)
           r == nodes[i]
           s == [r EXCEPT !.data = d]
<1>1. r \in Node /\ m = [nodes EXCEPT ![i] = s]
  BY DEF DataPut
<1> HIDE DEF r
<1>2. s \in Node /\ s.name = r.name /\ s.size = r.size /\ s.first = r.first /\ s.data = d
  BY <1>1 DEF Node
<1> HIDE DEF s
<1>3. m \in [Slots -> Node] /\ m[i] = s /\ \A j \in Slots \ {i} : m[j] = nodes[j]
  BY <1>1, <1>2
<1> QED BY <1>2, <1>3 DEF r

LEMMA BlockStep ==
    ASSUME NEW data \in [Ids -> DataBlock], NEW b \in Bytes
    PROVE  LET d == BytesPut(data, b) IN
           /\ d \in [Ids -> DataBlock]
           /\ d[0].cached = data[0].cached /\ d[0].dirty /\ d[0].id = data[0].id
           /\ d[0].bytes = b
           /\ \A k \in Ids \ {0} : d[k] = data[k]
<1> DEFINE d == BytesPut(data, b)
           g == [data EXCEPT ![0].bytes = b]
           r == data[0]
           s == [r EXCEPT !.bytes = b]
           t == [s EXCEPT !.dirty = TRUE]
<1>0. 0 \in Ids
  BY Constants
<1>1. r \in DataBlock /\ g = [data EXCEPT ![0] = s] /\ d = [g EXCEPT ![0].dirty = TRUE]
  BY <1>0 DEF BytesPut
<1> HIDE DEF r, g
<1>2. s \in DataBlock /\ s.cached = r.cached /\ s.dirty = r.dirty /\ s.id = r.id /\ s.bytes = b
  BY <1>1 DEF DataBlock
<1> HIDE DEF s
<1>3. g \in [Ids -> DataBlock] /\ g[0] = s /\ \A k \in Ids \ {0} : g[k] = data[k]
  BY <1>0, <1>1, <1>2
<1>4. d = [g EXCEPT ![0] = t]
  BY <1>1, <1>3
<1>5. t \in DataBlock /\ t.cached = s.cached /\ t.dirty /\ t.id = s.id /\ t.bytes = s.bytes
  BY <1>2 DEF DataBlock
<1> HIDE DEF t
<1>6. d \in [Ids -> DataBlock] /\ d[0] = t /\ \A k \in Ids \ {0} : d[k] = g[k]
  BY <1>0, <1>3, <1>4, <1>5
<1> QED BY <1>2, <1>3, <1>5, <1>6 DEF r

LEMMA CleanStep ==
    ASSUME NEW nodes \in [Slots -> Node], NEW i \in Slots, NEW k \in Ids
    PROVE  LET m == CleanPut(nodes, i, k) IN
           /\ m \in [Slots -> Node]
           /\ m[i].name = nodes[i].name /\ m[i].size = nodes[i].size
           /\ m[i].first = nodes[i].first
           /\ ~m[i].data[k].dirty /\ m[i].data[k].cached = nodes[i].data[k].cached
           /\ m[i].data[k].id = nodes[i].data[k].id
           /\ m[i].data[k].bytes = nodes[i].data[k].bytes
           /\ \A l \in Ids \ {k} : m[i].data[l] = nodes[i].data[l]
           /\ \A j \in Slots \ {i} : m[j] = nodes[j]
<1> DEFINE m == CleanPut(nodes, i, k)
           e == nodes[i].data
           r == e[k]
           s == [r EXCEPT !.dirty = FALSE]
           d == [e EXCEPT ![k] = s]
<1>1. m = DataPut(nodes, i, d)
  BY DEF CleanPut, DataPut
<1>2. e \in [Ids -> DataBlock]
  BY DEF Node
<1> HIDE DEF e
<1>3. r \in DataBlock
  BY <1>2
<1> HIDE DEF r
<1>4. s \in DataBlock /\ s.cached = r.cached /\ ~s.dirty /\ s.id = r.id /\ s.bytes = r.bytes
  BY <1>3 DEF DataBlock
<1> HIDE DEF s
<1>5. d \in [Ids -> DataBlock] /\ d[k] = s /\ \A l \in Ids \ {k} : d[l] = e[l]
  BY <1>2, <1>4
<1> HIDE DEF d
<1>6. /\ m \in [Slots -> Node]
      /\ m[i].name = nodes[i].name /\ m[i].size = nodes[i].size
      /\ m[i].first = nodes[i].first /\ m[i].data = d
      /\ \A j \in Slots \ {i} : m[j] = nodes[j]
  BY <1>1, <1>5, DataStep
<1> QED BY <1>4, <1>5, <1>6 DEF r, e

LEMMA DirStep ==
    ASSUME NEW b \in DirBlock, NEW i \in Slots, NEW z \in Nat
    PROVE  LET m == SizePut(b, i, z) IN
           /\ m \in DirBlock /\ m.cached = b.cached /\ m.dirty
           /\ m.block[i].name = b.block[i].name /\ m.block[i].size = z
           /\ m.block[i].first = b.block[i].first
           /\ \A j \in Slots \ {i} : m.block[j] = b.block[j]
<1> DEFINE m == SizePut(b, i, z)
           s == [b EXCEPT !.dirty = TRUE]
           t == s.block
           r == t[i]
           u == [r EXCEPT !.size = z]
           v == [t EXCEPT ![i] = u]
<1>1. m = [s EXCEPT !.block[i].size = z]
  BY DEF SizePut
<1>2. s \in DirBlock /\ s.cached = b.cached /\ s.dirty /\ s.block = b.block
  BY DEF DirBlock
<1> HIDE DEF s
<1>3. m = [s EXCEPT !.block = v]
  BY <1>1
<1>4. t \in [Slots -> Entry]
  BY <1>2 DEF DirBlock
<1> HIDE DEF t
<1>5. r \in Entry
  BY <1>4
<1> HIDE DEF r
<1>6. u \in Entry /\ u.name = r.name /\ u.size = z /\ u.first = r.first
  BY <1>5 DEF Entry
<1> HIDE DEF u
<1>7. v \in [Slots -> Entry] /\ v[i] = u /\ \A j \in Slots \ {i} : v[j] = t[j]
  BY <1>4, <1>6
<1> HIDE DEF v
<1>8. m \in DirBlock /\ m.cached = s.cached /\ m.dirty = s.dirty /\ m.block = v
  BY <1>2, <1>3, <1>7 DEF DirBlock
<1> QED BY <1>2, <1>6, <1>7, <1>8 DEF r, t

LEMMA FatStep ==
    ASSUME NEW b \in [Fats -> FatBlock], NEW c \in Nat, c \div FAT_ENTRY_PER_BLK \in Fats
    PROVE  LET f == c \div FAT_ENTRY_PER_BLK
               m == Marked(b, c)
           IN /\ m \in [Fats -> FatBlock]
              /\ m[f].cached = b[f].cached /\ m[f].dirty
              /\ m[f].table = [b[f].table EXCEPT ![c % FAT_ENTRY_PER_BLK] = END]
              /\ \A g \in Fats \ {f} : m[g] = b[g]
<1> DEFINE f == c \div FAT_ENTRY_PER_BLK
           j == c % FAT_ENTRY_PER_BLK
           m == Marked(b, c)
           r == b[f]
           t == [r.table EXCEPT ![j] = END]
           s == [r EXCEPT !.table = t]
           u == [s EXCEPT !.dirty = TRUE]
           e == [b EXCEPT ![f] = s]
<1>1. m = [e EXCEPT ![f].dirty = TRUE]
  BY DEF Marked
<1>0. j \in 0 .. (FAT_ENTRY_PER_BLK - 1) /\ f \in Fats
  BY Divided DEF F
<1> HIDE DEF m, f, j
<1>2. r \in FatBlock
  BY <1>0
<1>3. t \in FatTable
  BY <1>0, <1>2 DEF FatBlock, FatTable, END
<1> HIDE DEF t
<1>4. s \in FatBlock /\ s.cached = r.cached /\ s.table = t
  BY <1>2, <1>3 DEF FatBlock
<1> HIDE DEF s
<1>5. e \in [Fats -> FatBlock] /\ e[f] = s /\ \A g \in Fats \ {f} : e[g] = b[g]
  BY <1>0, <1>4
<1> HIDE DEF e
<1>6. m = [e EXCEPT ![f] = u]
  BY <1>0, <1>1, <1>5
<1>7. u \in FatBlock /\ u.cached = s.cached /\ u.dirty /\ u.table = s.table
  BY <1>4 DEF FatBlock
<1> HIDE DEF u
<1>8. m \in [Fats -> FatBlock] /\ m[f] = u /\ \A g \in Fats \ {f} : m[g] = e[g]
  BY <1>0, <1>5, <1>6, <1>7
<1> QED BY <1>4, <1>5, <1>7, <1>8 DEF f, j, m, r, t

(* What a store puts on the card. *)
Card == [fat : [Fats -> FatTable], dir : [Slots -> Entry], data : [Clusters -> Bytes]]

DirPut(old, b) == [old EXCEPT !.dir = b]
TablePut(old, f, t) == [old EXCEPT !.fat[f] = t]
BlockPut(old, c, x) == [old EXCEPT !.data[c] = x]

LEMMA DirStored ==
    ASSUME NEW old \in Card, NEW b \in [Slots -> Entry]
    PROVE  LET m == DirPut(old, b) IN
           m.fat = old.fat /\ m.dir = b /\ m.data = old.data /\ m \in Card
BY DEF Card, DirPut

LEMMA FatStored ==
    ASSUME NEW old \in Card, NEW f \in Fats, NEW t \in FatTable
    PROVE  LET m == TablePut(old, f, t) IN
           m.fat = [old.fat EXCEPT ![f] = t] /\ m.dir = old.dir /\ m.data = old.data /\ m \in Card
<1> DEFINE m == TablePut(old, f, t)
           y == [old.fat EXCEPT ![f] = t]
<1>1. m = [old EXCEPT !.fat = y] /\ y \in [Fats -> FatTable]
  BY DEF Card, TablePut
<1> HIDE DEF y
<1>2. m.fat = y /\ m.dir = old.dir /\ m.data = old.data /\ m \in Card
  BY <1>1 DEF Card
<1> QED BY <1>2 DEF y

LEMMA DataStored ==
    ASSUME NEW old \in Card, NEW c \in Clusters, NEW x \in Bytes
    PROVE  LET m == BlockPut(old, c, x) IN
           m.data = [old.data EXCEPT ![c] = x] /\ m.dir = old.dir /\ m.fat = old.fat /\ m \in Card
<1> DEFINE m == BlockPut(old, c, x)
           y == [old.data EXCEPT ![c] = x]
<1>1. m = [old EXCEPT !.data = y] /\ y \in [Clusters -> Bytes]
  BY DEF Card, BlockPut
<1> HIDE DEF y
<1>2. m.data = y /\ m.dir = old.dir /\ m.fat = old.fat /\ m \in Card
  BY <1>1 DEF Card
<1> QED BY <1>2 DEF y

(***************************************************************************)
(* The lists and flags through every call.                                 *)
(***************************************************************************)
HandleType == [slot : Slots \cup {0}, pos : Nat]

(* The directory's sector is read, if it was not. *)
LEMMA DirRead ==
    ASSUME Lists
    PROVE  /\ Dir \in DirBlock /\ Dir.cached /\ Dir.dirty = dir.dirty
           /\ ~Dir.dirty => Dir.block = card.dir
           /\ Inode \in [Slots -> Node]
           /\ \A i \in Slots : Inode[i].name = "" => Inode[i].data = NoData
           /\ \A i \in Slots : Inode[i].data = inode[i].data
           /\ \A h \in Handles : hnd[h] # NoHandle =>
                hnd[h].slot \in Slots /\ Inode[hnd[h].slot].name \in Names /\ Inode = inode
<1>1. Types /\ Nodes
  BY DEF Lists
<1>2. CASE dir.cached
  BY <1>1, <1>2, DirFacts DEF Lists, CleanDir, Nodes, Handled, Inode
<1>3. CASE ~dir.cached
  BY <1>1, <1>3, DirFacts DEF Lists, CleanDir, Nodes, Handled, Unread
<1> QED BY <1>2, <1>3

(* Blocks of the FAT are read. *)
LEMMA FatsRead ==
    ASSUME Lists, NEW S, NEW fats, fats = WithFats(S)
    PROVE  /\ fats \in [Fats -> FatBlock]
           /\ \A f \in Fats : /\ fats[f].dirty = mfat[f].dirty
                              /\ fats[f].cached /\ ~fats[f].dirty => fats[f].table = card.fat[f]
<1>1. Types
  BY DEF Lists
<1>2. \A f \in Fats : ~mfat[f].dirty => Table(f) = card.fat[f]
  BY DEF Lists, CleanFat, Table
<1> QED BY <1>1, <1>2, FatFacts DEF Lists, CleanFat

(* fat32_open *)
LEMMA OpenLists ==
    ASSUME Lists, NEW h \in Handles, NEW n \in Names, Open(h, n)
    PROVE  Lists'
<1>1. Slot(n) \in SUBSET Nat
  BY Constants DEF Slot
<1>2. Min(Slot(n)) \in Slots /\ Inode[Min(Slot(n))].name = n
  <2>1. Min(Slot(n)) \in Slot(n)
    BY <1>1, MinIn DEF Open
  <2> QED BY <2>1 DEF Slot
<1> DEFINE s == [slot |-> Min(Slot(n)), pos |-> 0]
<1>3. hnd' = [hnd EXCEPT ![h] = s] /\ s.slot \in Slots /\ Inode[s.slot].name = n
  BY <1>2 DEF Open
<1>4. s \in HandleType
  BY <1>2 DEF HandleType
<1> HIDE DEF s
<1>5. /\ dir' \in DirBlock /\ dir'.cached /\ dir'.dirty = dir.dirty
      /\ ~dir'.dirty => dir'.block = card.dir
      /\ inode' \in [Slots -> Node]
      /\ \A i \in Slots : inode'[i].name = "" => inode'[i].data = NoData
      /\ \A i \in Slots : inode'[i].data = inode[i].data
      /\ \A x \in Handles : hnd[x] # NoHandle =>
           hnd[x].slot \in Slots /\ inode'[hnd[x].slot].name \in Names /\ inode' = inode
  <2>1. dir' = Dir /\ inode' = Inode
    BY DEF Open
  <2> QED BY <2>1, DirRead
<1>6. UNCHANGED <<card, mfat, dirty, stray, torn, far>>
  BY DEF Open, Returns
<1>7. Types'
  <2>1. hnd \in [Handles -> HandleType]
    BY DEF Lists, Types, HandleType
  <2>2. hnd' \in [Handles -> HandleType]
    BY <1>3, <1>4, <2>1
  <2> QED BY <1>5, <1>6, <2>2 DEF Lists, Types, HandleType, DirBlock
<1>8. Nodes'
  <2>1. Handled'
    <3> SUFFICES ASSUME NEW x \in Handles, hnd'[x] # NoHandle
                 PROVE  hnd'[x].slot \in Slots /\ inode'[hnd'[x].slot].name \in Names
      BY <1>5 DEF Handled
    <3>0. hnd \in [Handles -> HandleType]
      BY DEF Lists, Types, HandleType
    <3>1. CASE x = h
      <4>1. hnd'[x] = s /\ inode' = Inode
        BY <1>3, <3>0, <3>1 DEF Open
      <4> QED BY <1>3, <4>1
    <3>2. CASE x # h
      <4>1. hnd'[x] = hnd[x]
        BY <1>3, <3>0, <3>2
      <4> QED BY <1>5, <4>1
    <3> QED BY <3>1, <3>2
  <2>2. Filled'
    BY <1>5 DEF Filled, Lists, Nodes
  <2> QED BY <1>5, <2>1, <2>2 DEF Nodes, Unread, Bare
<1>9. Listed'
  BY <1>5, <1>6 DEF Lists, Listed, DirListed, FatListed, FileListed
<1>10. CleanDir' /\ CleanFat'
  BY <1>5, <1>6 DEF Lists, CleanDir, CleanFat
<1> QED BY <1>7, <1>8, <1>9, <1>10 DEF Lists

(* find_free_FAT_ENTRY *)
LEMMA FreeFacts ==
    ASSUME FatsWithFree # {}
    PROVE  /\ FreeCluster \in Nat
           /\ FreeCluster \div F = 0 => /\ FreeCluster \in 2 .. (F - 1)
                                        /\ Table(0)[FreeCluster] = FREE
<1> DEFINE p == Min(FatsWithFree)
           r == Min(FreeIn(p))
<1>1. F \in Nat /\ F > 2
  BY Constants
<1>2. p \in FatsWithFree
  BY Constants, MinIn DEF FatsWithFree
<1>3. p \in Nat /\ FreeIn(p) # {}
  BY <1>2, Constants DEF FatsWithFree
<1>4. FreeIn(p) \in SUBSET Nat
  BY DEF FreeIn
<1>5. r \in FreeIn(p)
  BY <1>3, <1>4, MinIn
<1>6. r \in 2 .. (F - 1) /\ Table(p)[r] = FREE
  BY <1>5 DEF FreeIn, F
<1>7. FreeCluster = r + Stride * p /\ Stride = 4 * F
  BY DEF FreeCluster, Stride, F
<1> HIDE DEF p, r
<1>8. Stride * p \in Nat /\ (p # 0 => Stride * p >= F)
  <2>1. CASE p = 0
    BY <1>1, <1>7, <2>1
  <2>2. CASE p # 0
    <3>1. PICK d \in Nat : p = 1 + d
      <4>1. p - 1 \in Nat /\ p = 1 + (p - 1)
        BY <1>3, <2>2
      <4> QED BY <4>1
    <3>2. Stride * p = 4 * F + (4 * F) * d /\ (4 * F) * d \in Nat
      BY <1>1, <1>7, <3>1
    <3> QED BY <1>1, <3>2
  <2> QED BY <2>1, <2>2
<1>9. FreeCluster \in Nat
  BY <1>1, <1>6, <1>7, <1>8
<1>10. ASSUME FreeCluster \div F = 0 PROVE p = 0
  <2>1. FreeCluster < F
    <3>1. FreeCluster = F * (FreeCluster \div F) + (FreeCluster % F) /\ FreeCluster % F \in 0 .. (F - 1)
      BY <1>9, Divided
    <3> QED BY <1>1, <1>10, <3>1
  <2> QED BY <1>1, <1>6, <1>7, <1>8, <2>1
<1>11. p = 0 => FreeCluster = r
  BY <1>1, <1>6, <1>7
<1> QED BY <1>6, <1>9, <1>10, <1>11

(* An entry's handle: another of the handles is opened, moved or closed. *)
LEMMA HandleStep ==
    ASSUME Types, NEW h \in Handles, NEW s \in HandleType
    PROVE  /\ [hnd EXCEPT ![h] = s] \in [Handles -> HandleType]
           /\ [hnd EXCEPT ![h] = s][h] = s
           /\ \A x \in Handles \ {h} : [hnd EXCEPT ![h] = s][x] = hnd[x]
BY DEF Types, HandleType

(* fat32_create *)
LEMMA CreateLists ==
    ASSUME Lists, NEW h \in Handles, NEW n \in Names, Create(h, n)
    PROVE  Lists'
<1> DEFINE i == Min(FreeSlots)
           c == FreeCluster
           f == c \div FAT_ENTRY_PER_BLK
           fats == WithFats(FatsSearched)
           x == c % FAT_ENTRY_PER_BLK
           node == [name |-> n, size |-> 0, first |-> c, data |-> NoData]
           ent == [name |-> n, size |-> 0, first |-> ShortCluster(c)]
           s == [slot |-> i, pos |-> 0]
<1>1. /\ FreeSlots # {} /\ FatsWithFree # {} /\ f \in Fats
      /\ inode' = [Inode EXCEPT ![i] = node]
      /\ dir' = [cached |-> TRUE, dirty |-> TRUE, block |-> [Dir.block EXCEPT ![i] = ent]]
      /\ mfat' = Marked(fats, c)
      /\ dirty' = Enlisted(Enlisted(dirty, DirE, dir.dirty), FatE(f), fats[f].dirty)
      /\ hnd' = [hnd EXCEPT ![h] = s]
      /\ stray' = (stray \/ InUse(c)) /\ far' = (far \/ f # 0)
      /\ card' = card /\ torn' = torn
  BY DEF Create, Returns, DirE, FatE
<1>2. Types /\ Nodes /\ Listed /\ CleanFat
  BY DEF Lists
<1>3. i \in Slots
  <2>1. FreeSlots \in SUBSET Nat
    BY Constants DEF FreeSlots
  <2>2. i \in FreeSlots
    BY <1>1, <2>1, MinIn
  <2> QED BY <2>2 DEF FreeSlots
<1>4. c \in Nat /\ x \in 0 .. (FAT_ENTRY_PER_BLK - 1) /\ ShortCluster(c) \in Nat
  <2>1. c \in Nat
    BY <1>1, FreeFacts
  <2> HIDE DEF c
  <2>3. ShortCluster(c) \in Nat
    BY <2>1, ShortFacts
  <2> QED BY <2>1, <2>3, Divided DEF F
<1>5. node \in Node /\ ent \in Entry /\ s \in HandleType
  <2> DEFINE d == NoData
  <2>1. d \in [Ids -> DataBlock]
    BY NoNodes
  <2>2. n \in Words
    BY CallAssumption DEF Words
  <2> HIDE DEF d
  <2>3. [name |-> n, size |-> 0, first |-> c, data |-> d] \in Node
    BY <1>4, <2>1, <2>2 DEF Node
  <2>4. ent \in Entry
    BY <1>4, <2>2 DEF Entry
  <2>5. s \in HandleType
    BY <1>3 DEF HandleType
  <2> QED BY <2>3, <2>4, <2>5 DEF d
<1> DEFINE nodes == Inode
           b == Dir.block
<1>6. /\ b \in [Slots -> Entry]
      /\ nodes \in [Slots -> Node]
      /\ \A j \in Slots : nodes[j].name = "" => nodes[j].data = NoData
      /\ \A j \in Slots : nodes[j].data = inode[j].data
      /\ \A y \in Handles : hnd[y] # NoHandle =>
           hnd[y].slot \in Slots /\ nodes[hnd[y].slot].name \in Names
  BY DirRead DEF DirBlock
<1>7. /\ fats \in [Fats -> FatBlock]
      /\ \A g \in Fats : /\ fats[g].dirty = mfat[g].dirty
                         /\ fats[g].cached /\ ~fats[g].dirty => fats[g].table = card.fat[g]
  BY FatsRead
<1>8. nodes[i].name = ""
  <2>1. FreeSlots \in SUBSET Nat
    BY Constants DEF FreeSlots
  <2>2. i \in FreeSlots
    BY <1>1, <2>1, MinIn
  <2> QED BY <2>2 DEF FreeSlots
<1>9. node.name = n /\ node.data = NoData /\ s.slot = i
  OBVIOUS
<1> HIDE DEF i, c, f, fats, x, node, ent, s, nodes, b
<1>10. /\ inode' \in [Slots -> Node] /\ inode'[i] = node
       /\ \A j \in Slots \ {i} : inode'[j] = nodes[j]
  BY <1>1, <1>3, <1>5, <1>6 DEF nodes
<1>11. dir' \in DirBlock /\ dir'.cached /\ dir'.dirty
  BY <1>1, <1>3, <1>5, <1>6 DEF DirBlock, b
<1>12. /\ mfat' \in [Fats -> FatBlock] /\ mfat'[f].dirty
       /\ \A g \in Fats \ {f} : mfat'[g] = fats[g]
  <2>1. f = c \div FAT_ENTRY_PER_BLK /\ x = c % FAT_ENTRY_PER_BLK /\ mfat' = Marked(fats, c) /\ f \in Fats
    BY <1>1 DEF f, x
  <2> QED BY <1>4, <1>7, <2>1, FatStep
<1>13. hnd' \in [Handles -> HandleType] /\ hnd'[h] = s /\ \A y \in Handles \ {h} : hnd'[y] = hnd[y]
  BY <1>1, <1>2, <1>5, HandleStep
<1>14. /\ dirty' \in Seq(Blocks) /\ Once(dirty')
       /\ \A e : In(dirty', e) <=> In(dirty, e) \/ e = DirE \/ e = FatE(f)
  <2> DEFINE d == Enlisted(dirty, DirE, dir.dirty)
  <2>1. dirty \in Seq(Blocks) /\ Once(dirty) /\ DirE \in Blocks /\ (dir.dirty <=> In(dirty, DirE))
    BY <1>2, BlockKinds DEF Types, Listed, DirListed
  <2>2. d \in Seq(Blocks) /\ Once(d) /\ \A e : In(d, e) <=> In(dirty, e) \/ e = DirE
    BY <2>1, Enlisting
  <2>3. FatE(f) \in Blocks /\ FatE(f) # DirE
    BY <1>1, BlockKinds
  <2>4. fats[f].dirty <=> In(dirty, FatE(f))
    BY <1>1, <1>2, <1>7 DEF Listed, FatListed
  <2>5. dirty' = Enlisted(d, FatE(f), fats[f].dirty)
    BY <1>1
  <2> HIDE DEF d
  <2>6. fats[f].dirty <=> In(d, FatE(f))
    BY <2>2, <2>3, <2>4
  <2> QED BY <2>2, <2>3, <2>5, <2>6, Enlisting
<1>15. Types'
  <2>1. stray' \in BOOLEAN /\ far' \in BOOLEAN /\ torn' \in BOOLEAN
    BY <1>1, <1>2 DEF Types
  <2> QED BY <1>1, <1>2, <1>10, <1>11, <1>12, <1>13, <1>14, <2>1
          DEF Types, FatBlock, DirBlock, HandleType
<1>16. Nodes'
  <2>1. Unread'
    BY <1>11 DEF Unread
  <2>2. Handled'
    <3>1. n # "" /\ "" \notin Names
      BY CallAssumption
    <3> SUFFICES ASSUME NEW y \in Handles, hnd'[y] # NoHandle
                 PROVE  hnd'[y].slot \in Slots /\ inode'[hnd'[y].slot].name \in Names
      BY <1>11 DEF Handled
    <3>2. CASE y = h
      BY <1>3, <1>9, <1>10, <1>13, <3>2
    <3>3. CASE y # h
      <4>1. hnd'[y] = hnd[y] /\ hnd[y].slot \in Slots /\ nodes[hnd[y].slot].name \in Names
        BY <1>6, <1>13, <3>3
      <4>2. hnd[y].slot # i
        BY <1>8, <3>1, <4>1
      <4> QED BY <1>10, <4>1, <4>2
    <3> QED BY <3>2, <3>3
  <2>3. Bare'
    BY <1>6, <1>9, <1>10 DEF Bare
  <2>4. Filled'
    <3>1. ASSUME NEW j \in Slots, NEW k \in Ids
          PROVE  /\ inode'[j].data[k].dirty => inode'[j].data[k].cached
                 /\ inode'[j].data[k].cached => inode'[j].data[k].bytes \in Bytes
      <4>1. CASE j = i
        BY <1>9, <1>10, <4>1, NoNodes
      <4>2. CASE j # i
        <5>1. inode'[j].data = inode[j].data
          BY <1>6, <1>10, <4>2
        <5> QED BY <1>2, <5>1 DEF Nodes, Filled
      <4> QED BY <4>1, <4>2
    <3> QED BY <3>1 DEF Filled
  <2> QED BY <2>1, <2>2, <2>3, <2>4 DEF Nodes
<1>17. Listed'
  <2>1. DirListed'
    BY <1>11, <1>14 DEF DirListed
  <2>2. FatListed'
    <3>1. ASSUME NEW g \in Fats PROVE mfat'[g].dirty <=> In(dirty', FatE(g))
      <4>1. CASE g = f
        BY <1>12, <1>14, <4>1
      <4>2. CASE g # f
        <5>1. FatE(g) # DirE /\ FatE(g) # FatE(f)
          BY <4>2, BlockKinds
        <5>2. mfat'[g].dirty = mfat[g].dirty
          BY <1>7, <1>12, <4>2
        <5> QED BY <1>2, <1>14, <5>1, <5>2 DEF Listed, FatListed
      <4> QED BY <4>1, <4>2
    <3> QED BY <3>1 DEF FatListed
  <2>3. FileListed'
    <3>1. ASSUME NEW j \in Slots, NEW k \in Ids
          PROVE  inode'[j].data[k].dirty <=> In(dirty', FileE(j, k))
      <4>1. FileE(j, k) # DirE /\ FileE(j, k) # FatE(f)
        BY BlockKinds
      <4>2. inode[j].data[k].dirty <=> In(dirty, FileE(j, k))
        BY <1>2 DEF Listed, FileListed
      <4>3. CASE j = i
        BY <1>3, <1>6, <1>8, <1>9, <1>10, <1>14, <4>1, <4>2, <4>3, NoNodes
      <4>4. CASE j # i
        BY <1>6, <1>10, <1>14, <4>1, <4>2, <4>4
      <4> QED BY <4>3, <4>4
    <3> QED BY <3>1 DEF FileListed
  <2> QED BY <1>14, <2>1, <2>2, <2>3 DEF Listed
<1>18. CleanDir'
  BY <1>11 DEF CleanDir
<1>19. CleanFat'
  <2>1. ASSUME NEW g \in Fats, mfat'[g].cached, ~mfat'[g].dirty
        PROVE  mfat'[g].table = card'.fat[g]
    <3>1. g # f
      BY <1>12, <2>1
    <3> QED BY <1>1, <1>7, <1>12, <2>1, <3>1
  <2> QED BY <2>1 DEF CleanFat
<1> QED BY <1>15, <1>16, <1>17, <1>18, <1>19 DEF Lists

LEMMA CreateFailsLists ==
    ASSUME Lists, NEW n \in Names, CreateFails(n)
    PROVE  Lists'
<1>1. /\ dir' = Dir /\ inode' = Inode /\ mfat' = WithFats(FatsSearched)
      /\ UNCHANGED <<card, dirty, hnd, stray, torn, far>>
  BY DEF CreateFails, Returns
<1>2. /\ dir' \in DirBlock /\ dir'.cached /\ dir'.dirty = dir.dirty
      /\ ~dir'.dirty => dir'.block = card.dir
      /\ inode' \in [Slots -> Node]
      /\ \A i \in Slots : inode'[i].name = "" => inode'[i].data = NoData
      /\ \A i \in Slots : inode'[i].data = inode[i].data
      /\ \A x \in Handles : hnd[x] # NoHandle =>
           hnd[x].slot \in Slots /\ inode'[hnd[x].slot].name \in Names
  BY <1>1, DirRead
<1>3. /\ mfat' \in [Fats -> FatBlock]
      /\ \A f \in Fats : /\ mfat'[f].dirty = mfat[f].dirty
                         /\ mfat'[f].cached /\ ~mfat'[f].dirty => mfat'[f].table = card.fat[f]
  BY <1>1, FatsRead
<1>4. Types'
  BY <1>1, <1>2, <1>3 DEF Lists, Types, FatBlock, DirBlock
<1>5. Nodes'
  <2>1. Handled'
    BY <1>1, <1>2 DEF Handled
  <2>2. Filled'
    BY <1>2 DEF Filled, Lists, Nodes
  <2> QED BY <1>2, <2>1, <2>2 DEF Nodes, Unread, Bare
<1>6. Listed'
  BY <1>1, <1>2, <1>3 DEF Lists, Listed, DirListed, FatListed, FileListed
<1> QED BY <1>1, <1>2, <1>3, <1>4, <1>5, <1>6 DEF Lists, CleanDir, CleanFat

LEMMA CloseLists ==
    ASSUME Lists, NEW h \in Handles, Close(h)
    PROVE  Lists'
<1>1. UNCHANGED <<card, mfat, dir, inode, dirty, stray, torn, far>>
  BY DEF Close, Returns, memory
<1>2. hnd' = [hnd EXCEPT ![h] = NoHandle] /\ NoHandle \in HandleType
  BY DEF Close, NoHandle, HandleType
<1>3. hnd' \in [Handles -> HandleType] /\ \A x \in Handles : hnd'[x] \in {hnd[x], NoHandle}
  BY <1>2, HandleStep DEF Lists
<1>4. Types'
  BY <1>1, <1>3 DEF Lists, Types, HandleType
<1>5. Nodes'
  BY <1>1, <1>3 DEF Lists, Nodes, Unread, Handled, Bare, Filled
<1> QED BY <1>1, <1>4, <1>5 DEF Lists, Listed, DirListed, FatListed, FileListed, CleanDir, CleanFat

(* A handle's position moves. *)
LEMMA Moved ==
    ASSUME Types, NEW h \in Handles, NEW q \in Nat
    PROVE  /\ [hnd EXCEPT ![h].pos = q] \in [Handles -> HandleType]
           /\ [hnd EXCEPT ![h].pos = q][h].slot = hnd[h].slot
           /\ [hnd EXCEPT ![h].pos = q][h].pos = q
           /\ \A x \in Handles \ {h} : [hnd EXCEPT ![h].pos = q][x] = hnd[x]
<1> DEFINE r == hnd[h]
           s == [r EXCEPT !.pos = q]
           g == [hnd EXCEPT ![h] = s]
<1>1. r \in HandleType /\ hnd \in [Handles -> HandleType]
  BY DEF Types, HandleType
<1>2. [hnd EXCEPT ![h].pos = q] = g
  OBVIOUS
<1> HIDE DEF r
<1>3. s \in HandleType /\ s.slot = r.slot /\ s.pos = q
  BY <1>1 DEF HandleType
<1> HIDE DEF s
<1>4. g \in [Handles -> HandleType] /\ g[h] = s /\ \A x \in Handles \ {h} : g[x] = hnd[x]
  BY <1>1, <1>3
<1> HIDE DEF g
<1> QED BY <1>2, <1>3, <1>4 DEF r

LEMMA SeekLists ==
    ASSUME Lists, NEW h \in Handles, NEW q \in Offsets, Seek(h, q)
    PROVE  Lists'
<1>1. UNCHANGED <<card, mfat, dir, inode, dirty, stray, torn, far>>
  BY DEF Seek, Returns, memory
<1>2. q \in Nat /\ hnd' = [hnd EXCEPT ![h].pos = q] /\ hnd[h] # NoHandle
  BY CallAssumption DEF Seek
<1>3. hnd' \in [Handles -> HandleType]
      /\ \A x \in Handles : hnd'[x].slot = hnd[x].slot /\ (hnd'[x] # NoHandle => hnd[x] # NoHandle)
  <2>1. Types
    BY DEF Lists
  <2> DEFINE g == [hnd EXCEPT ![h].pos = q]
  <2>2. /\ g \in [Handles -> HandleType] /\ g[h].slot = hnd[h].slot
        /\ \A x \in Handles \ {h} : g[x] = hnd[x]
    BY <1>2, <2>1, Moved
  <2>3. hnd' = g
    BY <1>2
  <2> HIDE DEF g
  <2> QED BY <1>2, <2>2, <2>3
<1>4. Types'
  BY <1>1, <1>3 DEF Lists, Types, HandleType
<1>5. Nodes'
  BY <1>1, <1>3 DEF Lists, Nodes, Unread, Handled, Bare, Filled
<1> QED BY <1>1, <1>4, <1>5 DEF Lists, Listed, DirListed, FatListed, FileListed, CleanDir, CleanFat

(* The blocks of an open file, read again or not, and what a write makes of *)
(* the first.                                                              *)
Fetched(i, P) == IF P THEN inode[i].data ELSE Loaded(inode[i])
Wrote(data, q, s) ==
    [k \in 1 .. BLOCK_SIZE |->
       IF k \in (q + 1) .. (q + Len(s)) THEN s[k - q] ELSE data[0].bytes[k]]

LEMMA BlocksFacts ==
    ASSUME Lists, NEW i \in Slots, NEW P \in BOOLEAN
    PROVE  LET data == Fetched(i, P) IN
           /\ data \in [Ids -> DataBlock]
           /\ \A k \in Ids : /\ data[k].dirty = inode[i].data[k].dirty
                             /\ inode[i].data[k].cached => data[k].cached
                             /\ data[k].cached => data[k].bytes \in Bytes
           /\ ~P => /\ data[0].cached /\ data[0].id = BlkId(inode[i].first)
                    /\ data[0].bytes = CardBytes(BlkId(inode[i].first))
<1> DEFINE data == Fetched(i, P)
<1>1. Types /\ Nodes /\ inode[i] \in Node /\ inode[i].data \in [Ids -> DataBlock]
  BY DEF Lists, Types, Node
<1>2. \A k \in Ids : inode[i].data[k].cached => inode[i].data[k].bytes \in Bytes
  BY <1>1 DEF Nodes, Filled
<1>3. CASE P
  BY <1>1, <1>2, <1>3 DEF Fetched
<1>4. CASE ~P
  <2>1. Fetched(i, P) = Loaded(inode[i])
    BY <1>4 DEF Fetched
  <2> QED BY <1>1, <1>2, <1>4, <2>1, LoadedFacts
<1> QED BY <1>3, <1>4

(* The FAT blocks that are read with them. *)
LEMMA FatsFetched ==
    ASSUME Lists, NEW P \in BOOLEAN, NEW S, NEW fats, fats = IF P THEN mfat ELSE WithFats(S)
    PROVE  /\ fats \in [Fats -> FatBlock]
           /\ \A f \in Fats : /\ fats[f].dirty = mfat[f].dirty
                              /\ fats[f].cached /\ ~fats[f].dirty => fats[f].table = card.fat[f]
<1>1. CASE P
  BY <1>1 DEF Lists, Types, CleanFat, FatBlock
<1>2. CASE ~P
  BY <1>2, FatsRead
<1> QED BY <1>1, <1>2

(* fat32_write *)
LEMMA WriteFacts ==
    ASSUME Lists, NEW h \in Handles, NEW s \in Bufs, Write(h, s)
    PROVE  LET i == hnd[h].slot
               q == hnd[h].pos
               old == inode[i]
               data == Fetched(i, old.data[0].cached)
               bytes == Wrote(data, q, s)
               d == BytesPut(data, bytes)
           IN /\ i \in Slots /\ q \in Nat /\ Len(s) \in Nat /\ dir.cached /\ old.name \in Names
              /\ q + Len(s) <= BLOCK_SIZE
              /\ data[0].cached /\ bytes \in Bytes
              /\ inode' = NodePut(inode, i, Len(s), d)
              /\ d \in [Ids -> DataBlock]
              /\ d[0].cached /\ d[0].dirty /\ d[0].id = data[0].id /\ d[0].bytes = bytes
              /\ \A k \in Ids \ {0} : d[k] = data[k]
              /\ dir' = SizePut(dir, i, old.size + Len(s))
              /\ dirty' = Enlisted(Enlisted(dirty, FileE(i, 0), data[0].dirty), DirE, dir.dirty)
              /\ stray' = (stray \/ q # old.size \/ ~IsData(BlkId(old.first)))
              /\ hnd[h] # NoHandle
              /\ card' = card /\ far' = far /\ torn' = torn
<1> DEFINE i == hnd[h].slot
           q == hnd[h].pos
           old == inode[i]
           data == Fetched(i, old.data[0].cached)
           bytes == Wrote(data, q, s)
           d == BytesPut(data, bytes)
<1>1. /\ hnd[h] # NoHandle /\ q + Len(s) <= BLOCK_SIZE
      /\ inode' = NodePut(inode, i, Len(s), d)
      /\ dir' = SizePut(dir, i, old.size + Len(s))
      /\ dirty' = Enlisted(Enlisted(dirty, FileE(i, 0), data[0].dirty), DirE, dir.dirty)
      /\ stray' = (stray \/ q # old.size \/ ~IsData(BlkId(old.first)))
      /\ card' = card /\ far' = far /\ torn' = torn
  BY DEF Write, Returns, NodePut, BytesPut, SizePut, FileE, DirE, Fetched, Wrote
<1>2. i \in Slots /\ q \in Nat /\ dir.cached /\ old.name \in Names
  BY <1>1 DEF Lists, Types, Nodes, Handled
<1>3. s \in Seq(Nat) /\ Len(s) \in Nat /\ \A k \in 1 .. Len(s) : s[k] \in Nat
  <2>1. s \in Seq(Nat)
    BY CallAssumption
  <2> QED BY <2>1
<1>4. inode[i].data[0].cached \in BOOLEAN /\ 0 \in Ids
  <2>1. inode[i] \in Node
    BY <1>2 DEF Lists, Types
  <2> QED BY <2>1, Constants DEF Node, DataBlock
<1>5. data \in [Ids -> DataBlock] /\ data[0].cached /\ data[0].bytes \in Bytes
  <2> DEFINE P == inode[i].data[0].cached
  <2>1. data = Fetched(i, P)
    OBVIOUS
  <2> HIDE DEF data, P
  <2>2. /\ data \in [Ids -> DataBlock]
        /\ \A k \in Ids : /\ inode[i].data[k].cached => data[k].cached
                          /\ data[k].cached => data[k].bytes \in Bytes
        /\ ~P => data[0].cached
    BY <1>2, <1>4, <2>1, BlocksFacts DEF P
  <2> QED BY <1>4, <2>2 DEF P
<1> HIDE DEF data
<1>6. bytes \in Bytes
  <2>1. ASSUME NEW k \in 1 .. BLOCK_SIZE
        PROVE  (IF k \in (q + 1) .. (q + Len(s)) THEN s[k - q] ELSE data[0].bytes[k]) \in Int
    <3>1. CASE k \in (q + 1) .. (q + Len(s))
      <4>1. k - q \in 1 .. Len(s)
        BY <1>2, <1>3, <3>1
      <4> QED BY <1>3, <3>1, <4>1
    <3>2. CASE k \notin (q + 1) .. (q + Len(s))
      BY <1>5, <3>2 DEF Bytes
    <3> QED BY <3>1, <3>2
  <2> QED BY <2>1 DEF Bytes, Wrote
<1> HIDE DEF bytes
<1>7. /\ d \in [Ids -> DataBlock]
      /\ d[0].cached = data[0].cached /\ d[0].dirty /\ d[0].id = data[0].id /\ d[0].bytes = bytes
      /\ \A k \in Ids \ {0} : d[k] = data[k]
  BY <1>5, <1>6, BlockStep
<1> QED BY <1>1, <1>2, <1>3, <1>5, <1>6, <1>7 DEF data, bytes

LEMMA WriteLists ==
    ASSUME Lists, NEW h \in Handles, NEW s \in Bufs, Write(h, s)
    PROVE  Lists'
<1> DEFINE i == hnd[h].slot
           q == hnd[h].pos
           old == inode[i]
           P == old.data[0].cached
           data == Fetched(i, P)
           bytes == Wrote(data, q, s)
           d == BytesPut(data, bytes)
<1>1. /\ i \in Slots /\ q \in Nat /\ Len(s) \in Nat /\ dir.cached /\ old.name \in Names
      /\ bytes \in Bytes
      /\ inode' = NodePut(inode, i, Len(s), d)
      /\ d \in [Ids -> DataBlock]
      /\ d[0].cached /\ d[0].dirty /\ d[0].bytes = bytes
      /\ \A k \in Ids \ {0} : d[k] = data[k]
      /\ dir' = SizePut(dir, i, old.size + Len(s))
      /\ dirty' = Enlisted(Enlisted(dirty, FileE(i, 0), data[0].dirty), DirE, dir.dirty)
      /\ stray' = (stray \/ q # old.size \/ ~IsData(BlkId(old.first)))
      /\ card' = card /\ far' = far /\ torn' = torn
  BY WriteFacts
<1>2. /\ mfat' = IF P THEN mfat ELSE WithFats(FatsWalked(old.first))
      /\ hnd' = [hnd EXCEPT ![h].pos = q + Len(s)] /\ hnd[h] # NoHandle
  BY DEF Write
<1>3. Types /\ Nodes /\ Listed
  BY DEF Lists
<1>4. old \in Node /\ old.data \in [Ids -> DataBlock] /\ P \in BOOLEAN /\ old.size \in Nat /\ 0 \in Ids
  <2>1. inode[i] \in Node
    BY <1>1 DEF Lists, Types
  <2> QED BY <2>1, Constants DEF Node, DataBlock
<1>5. \A k \in Ids : /\ data[k].dirty = old.data[k].dirty
                     /\ old.data[k].cached => data[k].cached
                     /\ data[k].cached => data[k].bytes \in Bytes
  <2> HIDE DEF P
  <2> QED BY <1>1, <1>4, BlocksFacts
<1> HIDE DEF data, bytes, d
<1>6. /\ inode' \in [Slots -> Node]
      /\ inode'[i].name = old.name /\ inode'[i].data = d
      /\ \A j \in Slots \ {i} : inode'[j] = inode[j]
  <2> DEFINE z == Len(s)
             m == NodePut(inode, i, z, d)
  <2>1. inode \in [Slots -> Node] /\ i \in Slots /\ z \in Nat /\ d \in [Ids -> DataBlock]
    BY <1>1, <1>3 DEF Types
  <2>2. inode' = m
    BY <1>1
  <2> HIDE DEF i, z
  <2>3. /\ m \in [Slots -> Node] /\ m[i].name = inode[i].name /\ m[i].data = d
        /\ \A j \in Slots \ {i} : m[j] = inode[j]
    BY <2>1, NodeStep
  <2> HIDE DEF m
  <2> QED BY <2>2, <2>3
<1>7. dir' \in DirBlock /\ dir'.cached /\ dir'.dirty
  <2>1. dir \in DirBlock /\ old.size + Len(s) \in Nat
    BY <1>1, <1>3, <1>4 DEF Types, DirBlock
  <2> QED BY <1>1, <2>1, DirStep
<1>8. /\ mfat' \in [Fats -> FatBlock]
      /\ \A f \in Fats : /\ mfat'[f].dirty = mfat[f].dirty
                         /\ mfat'[f].cached /\ ~mfat'[f].dirty => mfat'[f].table = card.fat[f]
  <2> HIDE DEF P
  <2> QED BY <1>2, <1>4, FatsFetched
<1>9. /\ hnd' \in [Handles -> HandleType]
      /\ \A x \in Handles : hnd'[x].slot = hnd[x].slot /\ (hnd'[x] # NoHandle => hnd[x] # NoHandle)
  <2> DEFINE p == q + Len(s)
             g == [hnd EXCEPT ![h].pos = p]
  <2>1. p \in Nat
    BY <1>1
  <2> HIDE DEF p
  <2>2. g \in [Handles -> HandleType] /\ g[h].slot = hnd[h].slot
        /\ \A x \in Handles \ {h} : g[x] = hnd[x]
    BY <1>3, <2>1, Moved
  <2>3. hnd' = g
    BY <1>2 DEF p
  <2> HIDE DEF g
  <2> QED BY <1>2, <2>2, <2>3
<1>10. /\ dirty' \in Seq(Blocks) /\ Once(dirty')
       /\ \A e : In(dirty', e) <=> In(dirty, e) \/ e = DirE \/ e = FileE(i, 0)
  <2> DEFINE l == Enlisted(dirty, FileE(i, 0), data[0].dirty)
  <2>1. /\ dirty \in Seq(Blocks) /\ Once(dirty) /\ (dir.dirty <=> In(dirty, DirE))
        /\ (data[0].dirty <=> In(dirty, FileE(i, 0)))
    BY <1>1, <1>3, <1>4, <1>5 DEF Types, Listed, DirListed, FileListed
  <2>2. FileE(i, 0) \in Blocks /\ DirE \in Blocks /\ FileE(i, 0) # DirE
    BY <1>1, <1>4, BlockKinds
  <2>3. l \in Seq(Blocks) /\ Once(l) /\ \A e : In(l, e) <=> In(dirty, e) \/ e = FileE(i, 0)
    BY <2>1, <2>2, Enlisting
  <2>4. dirty' = Enlisted(l, DirE, dir.dirty)
    BY <1>1
  <2> HIDE DEF l
  <2>5. dir.dirty <=> In(l, DirE)
    BY <2>1, <2>2, <2>3
  <2> QED BY <2>2, <2>3, <2>4, <2>5, Enlisting
<1>11. Types'
  <2>1. stray' \in BOOLEAN /\ far' \in BOOLEAN /\ torn' \in BOOLEAN
    BY <1>1, <1>3 DEF Types
  <2> QED BY <1>1, <1>3, <1>6, <1>7, <1>8, <1>9, <1>10, <2>1
          DEF Types, FatBlock, DirBlock, HandleType
<1>12. Nodes'
  <2>1. Unread'
    BY <1>7 DEF Unread
  <2>2. Handled'
    <3> SUFFICES ASSUME NEW x \in Handles, hnd'[x] # NoHandle
                 PROVE  hnd'[x].slot \in Slots /\ inode'[hnd'[x].slot].name \in Names
      BY <1>7 DEF Handled
    <3>1. hnd'[x].slot = hnd[x].slot /\ hnd[x].slot \in Slots /\ inode[hnd[x].slot].name \in Names
      BY <1>3, <1>9 DEF Nodes, Handled
    <3>2. inode'[hnd[x].slot].name = inode[hnd[x].slot].name
      BY <1>6, <3>1
    <3> QED BY <3>1, <3>2
  <2>3. Bare'
    <3>1. old.name # ""
      BY <1>1, CallAssumption
    <3> QED BY <1>3, <1>6, <3>1 DEF Bare, Nodes
  <2>4. Filled'
    <3> SUFFICES ASSUME NEW j \in Slots, NEW k \in Ids
                 PROVE  /\ inode'[j].data[k].dirty => inode'[j].data[k].cached
                        /\ inode'[j].data[k].cached => inode'[j].data[k].bytes \in Bytes
      BY DEF Filled
    <3>1. CASE j = i
      <4>1. CASE k = 0
        BY <1>1, <1>6, <3>1, <4>1
      <4>2. CASE k # 0
        <5>1. inode'[j].data[k] = data[k]
          BY <1>1, <1>6, <3>1, <4>2
        <5>2. old.data[k].dirty => old.data[k].cached
          BY <1>1, <1>3 DEF Nodes, Filled
        <5> QED BY <1>5, <5>1, <5>2
      <4> QED BY <4>1, <4>2
    <3>2. CASE j # i
      BY <1>3, <1>6, <3>2 DEF Nodes, Filled
    <3> QED BY <3>1, <3>2
  <2> QED BY <2>1, <2>2, <2>3, <2>4 DEF Nodes
<1>13. Listed'
  <2>1. DirListed'
    BY <1>7, <1>10 DEF DirListed
  <2>2. FatListed'
    <3>1. \A f \in Fats : FatE(f) # DirE /\ FatE(f) # FileE(i, 0)
      BY BlockKinds
    <3> QED BY <1>3, <1>8, <1>10, <3>1 DEF Listed, FatListed
  <2>3. FileListed'
    <3> SUFFICES ASSUME NEW j \in Slots, NEW k \in Ids
                 PROVE  inode'[j].data[k].dirty <=> In(dirty', FileE(j, k))
      BY DEF FileListed
    <3>1. FileE(j, k) # DirE /\ (FileE(j, k) = FileE(i, 0) <=> j = i /\ k = 0)
      BY BlockKinds
    <3>2. inode[j].data[k].dirty <=> In(dirty, FileE(j, k))
      BY <1>3 DEF Listed, FileListed
    <3>3. CASE j = i /\ k = 0
      BY <1>1, <1>6, <1>10, <3>1, <3>3
    <3>4. CASE j = i /\ k # 0
      <4>1. inode'[j].data[k].dirty = inode[j].data[k].dirty
        BY <1>1, <1>5, <1>6, <3>4
      <4> QED BY <1>10, <3>1, <3>2, <3>4, <4>1
    <3>5. CASE j # i
      BY <1>6, <1>10, <3>1, <3>2, <3>5
    <3> QED BY <3>3, <3>4, <3>5
  <2> QED BY <1>10, <2>1, <2>2, <2>3 DEF Listed
<1>14. CleanDir' /\ CleanFat'
  BY <1>1, <1>7, <1>8 DEF CleanDir, CleanFat
<1> QED BY <1>11, <1>12, <1>13, <1>14 DEF Lists

(* fat32_read *)
LEMMA ReadFacts ==
    ASSUME Lists, NEW h \in Handles, NEW k \in Lens, Read(h, k)
    PROVE  LET i == hnd[h].slot
               q == hnd[h].pos
               m == Count(inode[i], q, k)
           IN \E P \in BOOLEAN :
              /\ i \in Slots /\ q \in Nat /\ m \in Nat /\ dir.cached /\ inode[i].name \in Names
              /\ inode' = DataPut(inode, i, Fetched(i, P))
              /\ mfat' = IF P THEN mfat ELSE WithFats(FatsWalked(inode[i].first))
              /\ hnd' = [hnd EXCEPT ![h].pos = q + m] /\ hnd[h] # NoHandle
              /\ stray' = (stray \/ q > inode[i].size)
              /\ UNCHANGED <<card, dir, dirty, torn, far>>
<1> DEFINE i == hnd[h].slot
           q == hnd[h].pos
           m == Count(inode[i], q, k)
           P == {b \in BlocksRead(q, m) : ~inode[i].data[b].cached} = {}
<1>1. hnd[h] # NoHandle
  BY DEF Read
<1>2. i \in Slots /\ q \in Nat /\ dir.cached /\ inode[i].name \in Names
  BY <1>1 DEF Lists, Types, Nodes, Handled
<1>3. m \in Nat
  <2> DEFINE z == inode[i].size
  <2>1. z \in Nat /\ k \in Nat
    <3>1. inode[i] \in Node
      BY <1>2 DEF Lists, Types
    <3> QED BY <3>1, CallAssumption DEF Node
  <2>2. m = IF q > z THEN k ELSE Min({k, z - q})
    BY DEF Count
  <2> HIDE DEF z, m, q
  <2>3. CASE q > z
    BY <2>1, <2>2, <2>3
  <2>4. CASE ~(q > z)
    <3>1. z - q \in Nat
      BY <1>2, <2>1, <2>4
    <3>2. Min({k, z - q}) \in {k, z - q}
      BY <2>1, <3>1, MinIn
    <3> QED BY <2>1, <2>2, <2>4, <3>1, <3>2
  <2> QED BY <2>3, <2>4
<1>4. /\ inode' = DataPut(inode, i, Fetched(i, P))
      /\ mfat' = IF P THEN mfat ELSE WithFats(FatsWalked(inode[i].first))
      /\ hnd' = [hnd EXCEPT ![h].pos = q + m]
      /\ stray' = (stray \/ q > inode[i].size)
      /\ UNCHANGED <<card, dir, dirty, torn, far>>
  BY DEF Read, DataPut, Fetched
<1>5. P \in BOOLEAN
  OBVIOUS
<1> HIDE DEF m, P
<1> QED BY <1>1, <1>2, <1>3, <1>4, <1>5 DEF m

LEMMA ReadLists ==
    ASSUME Lists, NEW h \in Handles, NEW k \in Lens, Read(h, k)
    PROVE  Lists'
<1> DEFINE i == hnd[h].slot
           q == hnd[h].pos
           m == Count(inode[i], q, k)
<1>1. PICK P \in BOOLEAN :
        /\ i \in Slots /\ q \in Nat /\ m \in Nat /\ dir.cached /\ inode[i].name \in Names
        /\ inode' = DataPut(inode, i, Fetched(i, P))
        /\ mfat' = IF P THEN mfat ELSE WithFats(FatsWalked(inode[i].first))
        /\ hnd' = [hnd EXCEPT ![h].pos = q + m] /\ hnd[h] # NoHandle
        /\ stray' = (stray \/ q > inode[i].size)
        /\ UNCHANGED <<card, dir, dirty, torn, far>>
  BY ReadFacts
<1> HIDE DEF i, q, m
<1>2. Types /\ Nodes /\ Listed
  BY DEF Lists
<1> DEFINE d == Fetched(i, P)
<1>3. /\ d \in [Ids -> DataBlock]
      /\ \A l \in Ids : /\ d[l].dirty = inode[i].data[l].dirty
                        /\ inode[i].data[l].cached => d[l].cached
                        /\ d[l].cached => d[l].bytes \in Bytes
  BY <1>1, BlocksFacts
<1> HIDE DEF d
<1>4. /\ inode' \in [Slots -> Node]
      /\ inode'[i].name = inode[i].name /\ inode'[i].data = d
      /\ \A j \in Slots \ {i} : inode'[j] = inode[j]
  <2>1. inode \in [Slots -> Node] /\ inode' = DataPut(inode, i, d)
    BY <1>1, <1>2 DEF Types, d
  <2> QED BY <1>1, <1>3, <2>1, DataStep
<1>5. /\ mfat' \in [Fats -> FatBlock]
      /\ \A f \in Fats : /\ mfat'[f].dirty = mfat[f].dirty
                         /\ mfat'[f].cached /\ ~mfat'[f].dirty => mfat'[f].table = card.fat[f]
  BY <1>1, FatsFetched
<1>6. /\ hnd' \in [Handles -> HandleType]
      /\ \A x \in Handles : hnd'[x].slot = hnd[x].slot /\ (hnd'[x] # NoHandle => hnd[x] # NoHandle)
  <2> DEFINE p == q + m
             g == [hnd EXCEPT ![h].pos = p]
  <2>1. p \in Nat
    BY <1>1
  <2> HIDE DEF p
  <2>2. g \in [Handles -> HandleType] /\ g[h].slot = hnd[h].slot
        /\ \A x \in Handles \ {h} : g[x] = hnd[x]
    BY <1>2, <2>1, Moved
  <2>3. hnd' = g
    BY <1>1 DEF p
  <2> HIDE DEF g
  <2> QED BY <1>1, <2>2, <2>3
<1>7. Types'
  <2>1. stray' \in BOOLEAN
    BY <1>1, <1>2 DEF Types
  <2> QED BY <1>1, <1>2, <1>4, <1>5, <1>6, <2>1 DEF Types, FatBlock, HandleType
<1>8. Nodes'
  <2>1. Unread'
    BY <1>1 DEF Unread
  <2>2. Handled'
    <3> SUFFICES ASSUME NEW x \in Handles, hnd'[x] # NoHandle
                 PROVE  hnd'[x].slot \in Slots /\ inode'[hnd'[x].slot].name \in Names
      BY <1>1 DEF Handled
    <3>1. hnd'[x].slot = hnd[x].slot /\ hnd[x].slot \in Slots /\ inode[hnd[x].slot].name \in Names
      BY <1>2, <1>6 DEF Nodes, Handled
    <3>2. inode'[hnd[x].slot].name = inode[hnd[x].slot].name
      BY <1>4, <3>1
    <3> QED BY <3>1, <3>2
  <2>3. Bare'
    <3>1. inode[i].name # ""
      BY <1>1, CallAssumption
    <3> QED BY <1>2, <1>4, <3>1 DEF Bare, Nodes
  <2>4. Filled'
    <3> SUFFICES ASSUME NEW j \in Slots, NEW l \in Ids
                 PROVE  /\ inode'[j].data[l].dirty => inode'[j].data[l].cached
                        /\ inode'[j].data[l].cached => inode'[j].data[l].bytes \in Bytes
      BY DEF Filled
    <3>1. inode[j].data[l].dirty => inode[j].data[l].cached
      BY <1>2 DEF Nodes, Filled
    <3>2. CASE j = i
      BY <1>3, <1>4, <3>1, <3>2
    <3>3. CASE j # i
      BY <1>2, <1>4, <3>3 DEF Nodes, Filled
    <3> QED BY <3>2, <3>3
  <2> QED BY <2>1, <2>2, <2>3, <2>4 DEF Nodes
<1>9. Listed'
  <2>1. Once(dirty)' /\ DirListed' /\ FatListed'
    BY <1>1, <1>2, <1>5 DEF Listed, DirListed, FatListed
  <2>2. FileListed'
    <3> SUFFICES ASSUME NEW j \in Slots, NEW l \in Ids
                 PROVE  inode'[j].data[l].dirty <=> In(dirty', FileE(j, l))
      BY DEF FileListed
    <3>1. inode'[j].data[l].dirty = inode[j].data[l].dirty
      BY <1>3, <1>4
    <3> QED BY <1>1, <1>2, <3>1 DEF Listed, FileListed
  <2> QED BY <2>1, <2>2 DEF Listed
<1>10. CleanDir' /\ CleanFat'
  BY <1>1, <1>5 DEF Lists, CleanDir, CleanFat
<1> QED BY <1>7, <1>8, <1>9, <1>10 DEF Lists

(* fat32_sync: where a block goes. *)
LEMMA StoredAt ==
    ASSUME Lists, dirty # <<>>, Placed(Head(dirty)), card' = Stored(Head(dirty))
    PROVE  /\ card' \in Card /\ Head(dirty) \in Blocks
           /\ Head(dirty) = DirE =>
                /\ card'.dir = dir.block /\ card'.fat = card.fat /\ card'.data = card.data
           /\ \A f \in Fats : Head(dirty) = FatE(f) =>
                /\ mfat[f].cached
                /\ card'.fat = [card.fat EXCEPT ![f] = mfat[f].table]
                /\ card'.dir = card.dir /\ card'.data = card.data
           /\ \A i \in Slots, k \in Ids : Head(dirty) = FileE(i, k) =>
                /\ IsData(inode[i].data[k].id)
                /\ inode[i].data[k].dirty /\ inode[i].data[k].cached
                /\ card'.data = [card.data EXCEPT ![ClusterAt(inode[i].data[k].id)] =
                                                       inode[i].data[k].bytes]
                /\ card'.dir = card.dir /\ card'.fat = card.fat
<1>1. Types /\ Nodes /\ Listed
  BY DEF Lists
<1>2. Head(dirty) \in Blocks /\ In(dirty, Head(dirty))
  BY <1>1, Delisting DEF Types, Listed
<1>3. card \in Card
  BY <1>1 DEF Types, Card
<1>4. ASSUME Head(dirty) = DirE
      PROVE  /\ card' \in Card
             /\ card'.dir = dir.block /\ card'.fat = card.fat /\ card'.data = card.data
  <2>1. card' = DirPut(card, dir.block) /\ dir.block \in [Slots -> Entry]
    BY <1>1, <1>4 DEF Stored, DirE, DirPut, Types
  <2> QED BY <1>3, <2>1, DirStored
<1>5. ASSUME NEW f \in Fats, Head(dirty) = FatE(f)
      PROVE  /\ card' \in Card /\ mfat[f].cached
             /\ card'.fat = [card.fat EXCEPT ![f] = mfat[f].table]
             /\ card'.dir = card.dir /\ card'.data = card.data
  <2>1. mfat[f].table \in FatTable
    BY <1>1 DEF Types
  <2>2. FatE(f)[1] = "fat" /\ FatE(f)[2] = f
    BY DEF FatE
  <2>3. Placed(Head(dirty)) = mfat[f].cached
    BY <1>5, <2>2 DEF Placed
  <2>4. Stored(Head(dirty)) = TablePut(card, f, mfat[f].table)
    BY <1>5, <2>2 DEF Stored, TablePut
  <2>5. card' = TablePut(card, f, mfat[f].table) /\ mfat[f].cached
    BY <2>3, <2>4
  <2> QED BY <1>3, <2>1, <2>5, FatStored
<1>6. ASSUME NEW i \in Slots, NEW k \in Ids, Head(dirty) = FileE(i, k)
      PROVE  /\ card' \in Card /\ IsData(inode[i].data[k].id)
             /\ inode[i].data[k].dirty /\ inode[i].data[k].cached
             /\ card'.data = [card.data EXCEPT ![ClusterAt(inode[i].data[k].id)] =
                                                    inode[i].data[k].bytes]
             /\ card'.dir = card.dir /\ card'.fat = card.fat
  <2>1. inode[i].data[k].dirty /\ inode[i].data[k].cached /\ inode[i].data[k].bytes \in Bytes
    BY <1>1, <1>2, <1>6 DEF Listed, FileListed, Nodes, Filled
  <2>2. /\ card' = BlockPut(card, ClusterAt(inode[i].data[k].id), inode[i].data[k].bytes)
        /\ IsData(inode[i].data[k].id)
    BY <1>6 DEF Stored, Placed, FileE, BlockPut
  <2>3. ClusterAt(inode[i].data[k].id) \in Clusters
    BY <2>2 DEF IsData
  <2> QED BY <1>3, <2>1, <2>2, <2>3, DataStored
<1>7. card' \in Card
  <2>1. CASE \E f \in Fats : Head(dirty) = FatE(f)
    BY <1>5, <2>1
  <2>2. CASE \E i \in Slots, k \in Ids : Head(dirty) = FileE(i, k)
    BY <1>6, <2>2
  <2> QED BY <1>2, <1>4, <2>1, <2>2, BlockKinds
<1>8. Head(dirty) = DirE =>
        card'.dir = dir.block /\ card'.fat = card.fat /\ card'.data = card.data
  BY <1>4
<1> QED BY <1>2, <1>5, <1>6, <1>7, <1>8

(* A clean block stays the block on the card. *)
LEMMA StoredClean ==
    ASSUME Lists, dirty # <<>>, Placed(Head(dirty)), card' = Stored(Head(dirty))
    PROVE  /\ card' \in Card
           /\ dir.cached /\ (~dir.dirty \/ Head(dirty) = DirE) => dir.block = card'.dir
           /\ \A f \in Fats : mfat[f].cached /\ (~mfat[f].dirty \/ Head(dirty) = FatE(f)) =>
                mfat[f].table = card'.fat[f]
<1>1. card.fat \in [Fats -> FatTable]
  BY DEF Lists, Types
<1>2. card' \in Card
  BY StoredAt
<1>3. CASE Head(dirty) = DirE /\ card'.dir = dir.block /\ card'.fat = card.fat
  BY <1>2, <1>3, BlockKinds DEF Lists, CleanFat
<1>4. ASSUME NEW f \in Fats, Head(dirty) = FatE(f),
             card'.fat = [card.fat EXCEPT ![f] = mfat[f].table], card'.dir = card.dir
      PROVE  /\ dir.cached /\ (~dir.dirty \/ Head(dirty) = DirE) => dir.block = card'.dir
             /\ \A g \in Fats : mfat[g].cached /\ (~mfat[g].dirty \/ Head(dirty) = FatE(g)) =>
                  mfat[g].table = card'.fat[g]
  <2>1. Head(dirty) = FatE(f)
    BY <1>4
  <2>2. card'.dir = card.dir /\ card'.fat = [card.fat EXCEPT ![f] = mfat[f].table]
    BY <1>4
  <2>3. dir.cached /\ (~dir.dirty \/ Head(dirty) = DirE) => dir.block = card'.dir
    BY <2>1, <2>2, BlockKinds DEF Lists, CleanDir
  <2>4. ASSUME NEW g \in Fats, mfat[g].cached, ~mfat[g].dirty \/ Head(dirty) = FatE(g)
        PROVE  mfat[g].table = card'.fat[g]
    <3>1. CASE g = f
      BY <1>1, <2>2, <3>1
    <3>2. CASE g # f
      <4>1. ~mfat[g].dirty
        BY <2>1, <2>4, <3>2, BlockKinds
      <4>2. card'.fat[g] = card.fat[g]
        BY <1>1, <2>2, <3>2
      <4> QED BY <2>4, <4>1, <4>2 DEF Lists, CleanFat
    <3> QED BY <3>1, <3>2
  <2> QED BY <2>3, <2>4
<1>5. CASE /\ \E i \in Slots, k \in Ids : Head(dirty) = FileE(i, k)
           /\ card'.dir = card.dir /\ card'.fat = card.fat
  <2>1. card'.dir = card.dir /\ card'.fat = card.fat
    BY <1>5
  <2>2. Head(dirty) # DirE /\ \A f \in Fats : Head(dirty) # FatE(f)
    BY <1>5, BlockKinds
  <2> QED BY <1>2, <2>1, <2>2 DEF Lists, CleanDir, CleanFat
<1>6. \/ Head(dirty) = DirE /\ card'.dir = dir.block /\ card'.fat = card.fat
      \/ \E f \in Fats : /\ Head(dirty) = FatE(f) /\ card'.dir = card.dir
                          /\ card'.fat = [card.fat EXCEPT ![f] = mfat[f].table]
      \/ /\ \E i \in Slots, k \in Ids : Head(dirty) = FileE(i, k)
         /\ card'.dir = card.dir /\ card'.fat = card.fat
  <2>1. Head(dirty) \in Blocks
    BY StoredAt
  <2>2. CASE Head(dirty) = DirE
    BY <2>2, StoredAt
  <2>3. CASE \E f \in Fats : Head(dirty) = FatE(f)
    BY <2>3, StoredAt
  <2>4. CASE \E i \in Slots, k \in Ids : Head(dirty) = FileE(i, k)
    BY <2>4, StoredAt
  <2> QED BY <2>1, <2>2, <2>3, <2>4, BlockKinds
<1> QED BY <1>2, <1>3, <1>4, <1>5, <1>6

LEMMA RetryLists ==
    ASSUME Lists, SyncRetry
    PROVE  Lists'
<1>1. /\ dirty # <<>> /\ Placed(Head(dirty)) /\ card' = Stored(Head(dirty))
      /\ UNCHANGED <<mfat, dir, inode, dirty, hnd, stray, torn, far>>
  BY DEF SyncRetry, memory
<1>2. /\ card' \in Card
      /\ dir.cached /\ ~dir.dirty => dir.block = card'.dir
      /\ \A f \in Fats : mfat[f].cached /\ ~mfat[f].dirty => mfat[f].table = card'.fat[f]
  BY <1>1, StoredClean
<1>3. Types'
  BY <1>1, <1>2 DEF Lists, Types, Card
<1>4. Nodes' /\ Listed'
  BY <1>1 DEF Lists, Nodes, Unread, Handled, Bare, Filled,
              Listed, DirListed, FatListed, FileListed
<1> QED BY <1>1, <1>2, <1>3, <1>4 DEF Lists, CleanDir, CleanFat

LEMMA DirtyCleared ==
    ASSUME NEW r \in DirBlock
    PROVE  LET s == [r EXCEPT !.dirty = FALSE]
           IN s \in DirBlock /\ s.cached = r.cached /\ ~s.dirty /\ s.block = r.block
BY DEF DirBlock

LEMMA FatCleared ==
    ASSUME NEW b \in [Fats -> FatBlock], NEW f \in Fats
    PROVE  LET m == [b EXCEPT ![f].dirty = FALSE]
           IN /\ m \in [Fats -> FatBlock]
              /\ m[f].cached = b[f].cached /\ ~m[f].dirty /\ m[f].table = b[f].table
              /\ \A g \in Fats \ {f} : m[g] = b[g]
<1> DEFINE r == b[f]
           s == [r EXCEPT !.dirty = FALSE]
           m == [b EXCEPT ![f].dirty = FALSE]
<1>1. r \in FatBlock /\ m = [b EXCEPT ![f] = s]
  OBVIOUS
<1> HIDE DEF r, m
<1>2. s \in FatBlock /\ s.cached = r.cached /\ ~s.dirty /\ s.table = r.table
  BY <1>1 DEF FatBlock
<1> HIDE DEF s
<1>3. m \in [Fats -> FatBlock] /\ m[f] = s /\ \A g \in Fats \ {f} : m[g] = b[g]
  BY <1>1, <1>2
<1> QED BY <1>2, <1>3 DEF r, m

LEMMA StepLists ==
    ASSUME Lists, SyncStep
    PROVE  Lists'
<1>1. /\ dirty # <<>> /\ Placed(Head(dirty)) /\ card' = Stored(Head(dirty))
      /\ Cleaned(Head(dirty)) /\ dirty' = Tail(dirty)
      /\ UNCHANGED <<hnd, stray, torn, far>>
  BY DEF SyncStep, Delisted
<1>2. /\ card' \in Card
      /\ dir.cached /\ (~dir.dirty \/ Head(dirty) = DirE) => dir.block = card'.dir
      /\ \A f \in Fats : mfat[f].cached /\ (~mfat[f].dirty \/ Head(dirty) = FatE(f)) =>
           mfat[f].table = card'.fat[f]
  BY <1>1, StoredClean
<1>3. Types /\ Nodes /\ Listed
  BY DEF Lists
<1>4. /\ dirty' \in Seq(Blocks) /\ Once(dirty') /\ Head(dirty) \in Blocks /\ In(dirty, Head(dirty))
      /\ \A e : In(dirty', e) <=> In(dirty, e) /\ e # Head(dirty)
  <2>1. dirty \in Seq(Blocks) /\ Once(dirty)
    BY <1>3 DEF Types, Listed
  <2> QED BY <1>1, <2>1, Delisting
<1>5. CASE Head(dirty) = DirE
  <2>1. dir' = [dir EXCEPT !.dirty = FALSE] /\ mfat' = mfat /\ inode' = inode
    BY <1>1, <1>5 DEF Cleaned, DirE
  <2>2. dir' \in DirBlock /\ dir'.cached = dir.cached /\ ~dir'.dirty /\ dir'.block = dir.block
    <3>1. dir \in DirBlock
      BY <1>3 DEF Types, DirBlock
    <3> QED BY <2>1, <3>1, DirtyCleared
  <2>3. Types'
    BY <1>1, <1>2, <1>3, <1>4, <2>1, <2>2 DEF Types, Card, DirBlock
  <2>4. Nodes'
    BY <1>1, <1>3, <2>1, <2>2 DEF Nodes, Unread, Handled, Bare, Filled
  <2>5. Listed'
    BY <1>3, <1>4, <1>5, <2>1, <2>2, BlockKinds DEF Listed, DirListed, FatListed, FileListed
  <2> QED BY <1>2, <1>5, <2>1, <2>2, <2>3, <2>4, <2>5 DEF Lists, CleanDir, CleanFat
<1>6. ASSUME NEW f \in Fats, Head(dirty) = FatE(f)
      PROVE  Lists'
  <2>1. mfat' = [mfat EXCEPT ![f].dirty = FALSE] /\ dir' = dir /\ inode' = inode
    BY <1>1, <1>6 DEF Cleaned, FatE
  <2>2. /\ mfat' \in [Fats -> FatBlock]
        /\ mfat'[f].cached = mfat[f].cached /\ ~mfat'[f].dirty /\ mfat'[f].table = mfat[f].table
        /\ \A g \in Fats \ {f} : mfat'[g] = mfat[g]
    <3>1. mfat \in [Fats -> FatBlock]
      BY <1>3 DEF Types, FatBlock
    <3> QED BY <2>1, <3>1, FatCleared
  <2>3. Types'
    BY <1>1, <1>2, <1>3, <1>4, <2>1, <2>2 DEF Types, Card, FatBlock
  <2>4. Nodes'
    BY <1>1, <1>3, <2>1 DEF Nodes, Unread, Handled, Bare, Filled
  <2>5. DirListed' /\ FileListed'
    BY <1>3, <1>4, <1>6, <2>1, BlockKinds DEF Listed, DirListed, FileListed
  <2>6. FatListed'
    <3>1. ASSUME NEW g \in Fats PROVE mfat'[g].dirty <=> In(dirty', FatE(g))
      <4>1. CASE g = f
        BY <1>4, <1>6, <2>2, <4>1
      <4>2. CASE g # f
        BY <1>3, <1>4, <1>6, <2>2, <4>2, BlockKinds DEF Listed, FatListed
      <4> QED BY <4>1, <4>2
    <3> QED BY <3>1 DEF FatListed
  <2>7. CleanDir'
    BY <1>2, <2>1 DEF CleanDir
  <2>8. CleanFat'
    <3>1. ASSUME NEW g \in Fats, mfat'[g].cached, ~mfat'[g].dirty
          PROVE  mfat'[g].table = card'.fat[g]
      <4>1. CASE g = f
        BY <1>2, <1>6, <2>2, <3>1, <4>1
      <4>2. CASE g # f
        BY <1>2, <2>2, <3>1, <4>2
      <4> QED BY <4>1, <4>2
    <3> QED BY <3>1 DEF CleanFat
  <2> QED BY <1>4, <2>3, <2>4, <2>5, <2>6, <2>7, <2>8 DEF Lists, Listed
<1>7. ASSUME NEW i \in Slots, NEW k \in Ids, Head(dirty) = FileE(i, k)
      PROVE  Lists'
  <2>1. inode' = CleanPut(inode, i, k) /\ dir' = dir /\ mfat' = mfat
    BY <1>1, <1>7 DEF Cleaned, FileE, CleanPut
  <2>2. /\ inode' \in [Slots -> Node]
        /\ inode'[i].name = inode[i].name
        /\ ~inode'[i].data[k].dirty /\ inode'[i].data[k].cached = inode[i].data[k].cached
        /\ inode'[i].data[k].bytes = inode[i].data[k].bytes
        /\ \A l \in Ids \ {k} : inode'[i].data[l] = inode[i].data[l]
        /\ \A j \in Slots \ {i} : inode'[j] = inode[j]
    <3>1. inode \in [Slots -> Node]
      BY <1>3 DEF Types
    <3> QED BY <2>1, <3>1, CleanStep
  <2>3. \A j \in Slots, l \in Ids :
          /\ inode'[j].name = inode[j].name
          /\ inode'[j].data[l].cached = inode[j].data[l].cached
          /\ inode'[j].data[l].bytes = inode[j].data[l].bytes
          /\ inode'[j].data[l].dirty <=> inode[j].data[l].dirty /\ ~(j = i /\ l = k)
    <3> SUFFICES ASSUME NEW j \in Slots, NEW l \in Ids
                 PROVE  /\ inode'[j].name = inode[j].name
                        /\ inode'[j].data[l].cached = inode[j].data[l].cached
                        /\ inode'[j].data[l].bytes = inode[j].data[l].bytes
                        /\ inode'[j].data[l].dirty <=> inode[j].data[l].dirty /\ ~(j = i /\ l = k)
      OBVIOUS
    <3>1. CASE j = i /\ l = k
      BY <2>2, <3>1
    <3>2. CASE j = i /\ l # k
      BY <2>2, <3>2
    <3>3. CASE j # i
      BY <2>2, <3>3
    <3> QED BY <3>1, <3>2, <3>3
  <2>4. Types'
    BY <1>1, <1>2, <1>3, <1>4, <2>1, <2>2 DEF Types, Card
  <2>5. Nodes'
    <3>1. Unread'
      <4>1. dir.cached
        <5>1. inode[i].data[k].dirty
          BY <1>3, <1>4, <1>7 DEF Listed, FileListed
        <5>2. ~dir.cached => inode[i].data = NoData
          BY <1>3, NoNodes DEF Nodes, Unread
        <5> QED BY <5>1, <5>2, NoNodes
      <4> QED BY <2>1, <4>1 DEF Unread
    <3>2. Handled'
      <4>1. \A j \in Slots : inode'[j].name = inode[j].name
        BY <2>3, Constants
      <4> QED BY <1>1, <1>3, <2>1, <4>1 DEF Nodes, Handled
    <3>3. Bare'
      <4>1. inode[i].data[k].dirty
        BY <1>3, <1>4, <1>7 DEF Listed, FileListed
      <4>2. inode[i].name # ""
        BY <1>3, <4>1, NoNodes DEF Nodes, Bare
      <4> QED BY <1>3, <2>2, <4>2 DEF Nodes, Bare
    <3>4. Filled'
      BY <1>3, <2>3 DEF Nodes, Filled
    <3> QED BY <3>1, <3>2, <3>3, <3>4 DEF Nodes
  <2>6. DirListed' /\ FatListed'
    BY <1>3, <1>4, <1>7, <2>1, BlockKinds DEF Listed, DirListed, FatListed
  <2>7. FileListed'
    <3> SUFFICES ASSUME NEW j \in Slots, NEW l \in Ids
                 PROVE  inode'[j].data[l].dirty <=> In(dirty', FileE(j, l))
      BY DEF FileListed
    <3>1. FileE(j, l) = Head(dirty) <=> j = i /\ l = k
      BY <1>7, BlockKinds
    <3> QED BY <1>3, <1>4, <2>3, <3>1 DEF Listed, FileListed
  <2>8. CleanDir' /\ CleanFat'
    BY <1>2, <2>1 DEF CleanDir, CleanFat
  <2> QED BY <1>4, <2>4, <2>5, <2>6, <2>7, <2>8 DEF Lists, Listed
<1>8. CASE \E f \in Fats : Head(dirty) = FatE(f)
  BY <1>6, <1>8
<1>9. CASE \E i \in Slots, k \in Ids : Head(dirty) = FileE(i, k)
  BY <1>7, <1>9
<1> QED BY <1>4, <1>5, <1>8, <1>9, BlockKinds

(* The power: memory is as after fat32_init. *)
Empty ==
    /\ mfat = [i \in Fats |-> Fresh(i)] /\ dir = NoDir
    /\ inode = [i \in Slots |-> NoInode] /\ dirty = <<>>
    /\ hnd = [h \in Handles |-> NoHandle]

LEMMA EmptyLists ==
    Empty /\ card \in Card /\ stray \in BOOLEAN /\ torn \in BOOLEAN /\ far \in BOOLEAN => Lists
<1> SUFFICES ASSUME Empty, card \in Card, stray \in BOOLEAN, torn \in BOOLEAN, far \in BOOLEAN
             PROVE  Lists
  OBVIOUS
<1>2. \A f \in Fats : mfat[f] = Fresh(f) /\ Fresh(f) \in FatBlock /\ ~Fresh(f).cached /\ ~Fresh(f).dirty
  <2>1. [j \in 0 .. (FAT_ENTRY_PER_BLK - 1) |-> 0] \in FatTable
    BY DEF FatTable
  <2> QED BY <2>1 DEF Empty, Fresh, FatBlock
<1>3. dir \in DirBlock /\ ~dir.cached /\ ~dir.dirty
  <2>1. NoEnt \in Entry
    BY DEF NoEnt, Entry, Words
  <2> QED BY <2>1 DEF Empty, NoDir, DirBlock
<1>4. inode \in [Slots -> Node] /\ inode = [i \in Slots |-> NoInode]
  BY NoNodes DEF Empty
<1>5. hnd \in [Handles -> HandleType] /\ \A h \in Handles : hnd[h] = NoHandle
  BY DEF Empty, NoHandle, HandleType
<1>6. mfat \in [Fats -> FatBlock]
  BY <1>2 DEF Empty
<1>7. dirty \in Seq(Blocks) /\ dirty = <<>>
  BY DEF Empty
<1>8. Types
  BY <1>3, <1>4, <1>5, <1>6, <1>7 DEF Types, Card, FatBlock, DirBlock, HandleType
<1>9. Nodes
  BY <1>3, <1>4, <1>5, NoNodes DEF Nodes, Unread, Handled, Bare, Filled
<1>10. Listed
  <2>1. Len(dirty) = 0 /\ \A e : ~In(dirty, e)
    BY <1>7 DEF In
  <2>2. Once(dirty)
    BY <2>1 DEF Once
  <2>3. DirListed /\ FatListed
    BY <1>2, <1>3, <2>1 DEF DirListed, FatListed
  <2>4. FileListed
    BY <1>4, <2>1, NoNodes DEF FileListed
  <2> QED BY <2>2, <2>3, <2>4 DEF Listed
<1> QED BY <1>2, <1>3, <1>8, <1>9, <1>10 DEF Lists, CleanDir, CleanFat

LEMMA InitLists == Init => Lists
<1> SUFFICES ASSUME Init PROVE Lists
  OBVIOUS
<1>1. card \in Card
  BY CardTypes DEF Init, Card, FatTable, Entry, Words, Bytes
<1>2. Empty
  BY DEF Init, Empty
<1>3. stray \in BOOLEAN /\ torn \in BOOLEAN /\ far \in BOOLEAN
  BY DEF Init
<1> QED BY <1>1, <1>2, <1>3, EmptyLists

LEMMA PowerLists ==
    ASSUME Lists, PowerCut
    PROVE  Lists'
<1>1. Empty' /\ card' = card /\ stray' = stray /\ far' = far /\ torn' = (torn \/ pc = "sync")
  BY DEF PowerCut, Empty
<1>2. card' \in Card /\ stray' \in BOOLEAN /\ torn' \in BOOLEAN /\ far' \in BOOLEAN
  BY <1>1 DEF Lists, Types, Card
<1>3. (Empty /\ card \in Card /\ stray \in BOOLEAN /\ torn \in BOOLEAN /\ far \in BOOLEAN => Lists)'
  BY EmptyLists, PTL
<1> QED BY <1>1, <1>2, <1>3

(* Undefined behaviour changes nothing that was listed. *)
Astray == \/ SyncAstray
          \/ \E n \in Names : CreateAstray(n)
          \/ \E h \in Handles : \/ \E s \in Bufs : WriteAstray(h, s)
                                \/ \E k \in Lens : ReadAstray(h, k)

LEMMA AstrayLost ==
    ASSUME Astray PROVE Derails
BY DEF Astray, SyncAstray, CreateAstray, WriteAstray, ReadAstray

LEMMA SameLists ==
    ASSUME Lists, UNCHANGED <<card, mfat, dir, inode, dirty, hnd, stray, torn, far>>
    PROVE  Lists'
<1>1. Types'
  BY DEF Lists, Types
<1>2. Nodes' /\ Listed'
  BY DEF Lists, Nodes, Unread, Handled, Bare, Filled, Listed, DirListed, FatListed, FileListed
<1> QED BY <1>1, <1>2 DEF Lists, CleanDir, CleanFat

LEMMA NextLists ==
    ASSUME Lists, [Next]_vars
    PROVE  Lists'
<1>1. CASE SyncStart
  BY <1>1, SameLists DEF SyncStart, memory
<1>2. CASE SyncStep
  BY <1>2, StepLists
<1>3. CASE SyncRetry
  BY <1>3, RetryLists
<1>4. CASE SyncDone
  BY <1>4, SameLists DEF SyncDone, memory
<1>5. CASE PowerCut
  BY <1>5, PowerLists
<1>6. CASE Astray
  BY <1>6, AstrayLost, SameLists DEF Derails, memory
<1>7. CASE \E n \in Names : CreateFails(n)
  BY <1>7, CreateFailsLists
<1>8. CASE \E h \in Handles, n \in Names : Open(h, n)
  BY <1>8, OpenLists
<1>9. CASE \E h \in Handles, n \in Names : Create(h, n)
  BY <1>9, CreateLists
<1>10. CASE \E h \in Handles : Close(h)
  BY <1>10, CloseLists
<1>11. CASE \E h \in Handles, q \in Offsets : Seek(h, q)
  BY <1>11, SeekLists
<1>12. CASE \E h \in Handles, s \in Bufs : Write(h, s)
  BY <1>12, WriteLists
<1>13. CASE \E h \in Handles, k \in Lens : Read(h, k)
  BY <1>13, ReadLists
<1>14. CASE UNCHANGED vars
  BY <1>14, SameLists DEF vars, memory
<1> QED BY <1>1, <1>2, <1>3, <1>4, <1>5, <1>6, <1>7, <1>8, <1>9, <1>10, <1>11, <1>12, <1>13, <1>14
        DEF Next, Astray

LEMMA NextPhase == ASSUME Phase, [Next]_vars PROVE Phase'
<1>1. CASE UNCHANGED vars
  BY <1>1 DEF Phase, vars
<1>2. CASE Astray
  BY <1>2, AstrayLost DEF Phase, Derails
<1>3. CASE \/ SyncStart \/ SyncStep \/ SyncRetry \/ SyncDone \/ PowerCut
           \/ \E n \in Names : CreateFails(n)
  BY <1>3 DEF Phase, SyncStart, SyncStep, SyncRetry, SyncDone, PowerCut, CreateFails, Returns
<1>4. CASE \E h \in Handles :
             \/ \E n \in Names : Open(h, n) \/ Create(h, n)
             \/ Close(h)
             \/ \E q \in Offsets : Seek(h, q)
             \/ \E s \in Bufs : Write(h, s)
             \/ \E k \in Lens : Read(h, k)
  <2>1. PICK h \in Handles :
             \/ \E n \in Names : Open(h, n) \/ Create(h, n)
             \/ Close(h)
             \/ \E q \in Offsets : Seek(h, q)
             \/ \E s \in Bufs : Write(h, s)
             \/ \E k \in Lens : Read(h, k)
    BY <1>4
  <2>2. ASSUME NEW n \in Names, Open(h, n) \/ Create(h, n) PROVE pc' = pc
    BY <2>2 DEF Open, Create, Returns
  <2>3. ASSUME NEW s \in Bufs, Write(h, s) PROVE pc' = pc
    BY <2>3 DEF Write, Returns
  <2>4. ASSUME NEW k \in Lens, Read(h, k) PROVE pc' = pc
    BY <2>4 DEF Read
  <2>5. ASSUME Close(h) \/ \E q \in Offsets : Seek(h, q) PROVE pc' = pc
    BY <2>5 DEF Close, Seek, Returns
  <2> QED BY <2>1, <2>2, <2>3, <2>4, <2>5 DEF Phase
<1> QED BY <1>1, <1>2, <1>3, <1>4 DEF Next, Astray

(* The dirty list holds every dirty block once and no other, and a clean   *)
(* block of the directory or the FAT in memory is the one on the card,     *)
(* whatever the card held at first: fat32_create, fat32_write, fat32_read  *)
(* and fat32_sync keep three kinds of flags and a list in step.            *)
THEOREM ListsHold == Spec => [](Lists /\ Phase)
<1>1. Init => Lists /\ Phase
  BY InitLists DEF Init, Phase
<1>2. Lists /\ Phase /\ [Next]_vars => (Lists /\ Phase)'
  BY NextLists, NextPhase
<1> QED BY <1>1, <1>2, PTL DEF Spec

(***************************************************************************)
(* What a step does to the directory and the FAT as the program sees them. *)
(***************************************************************************)
LEMMA TablesType ==
    ASSUME Types
    PROVE  /\ Tables \in [Fats -> FatTable]
           /\ \A f \in Fats : Tables[f] = IF mfat[f].cached THEN mfat[f].table ELSE card.fat[f]
<1>1. \A f \in Fats : Table(f) \in FatTable
  BY FatFacts
<1> QED BY <1>1 DEF Tables, Table

LEMMA FetchedTables ==
    ASSUME Types, NEW S, mfat' = WithFats(S), card' = card
    PROVE  Tables' = Tables
<1>1. \A f \in Fats : /\ mfat'[f].cached <=> f \in S \/ mfat[f].cached
                      /\ mfat'[f].table = IF f \in S THEN Table(f) ELSE mfat[f].table
  BY FatFacts
<1>2. ASSUME NEW f \in Fats PROVE Table(f)' = Table(f)
  <2>1. Table(f)' = IF mfat'[f].cached THEN mfat'[f].table ELSE card'.fat[f]
    BY DEF Table
  <2>2. CASE f \in S
    BY <1>1, <2>1, <2>2
  <2>3. CASE f \notin S
    BY <1>1, <2>1, <2>3 DEF Table
  <2> QED BY <2>2, <2>3
<1> QED BY <1>2 DEF Tables

SameViews == Inode' = Inode /\ Dir.block' = Dir.block /\ Tables' = Tables

LEMMA SameMemory ==
    ASSUME UNCHANGED <<card, mfat, dir, inode>>
    PROVE  SameViews
BY DEF SameViews, Inode, Dir, Tables, Table

(* The calls that change no file, whatever they read on the way. *)
Quiet == /\ SameViews /\ card' = card
         /\ far' = far /\ torn' = torn /\ stray' = stray
         /\ (pc = "lost" => pc' = "lost")

LEMMA QuietSteps ==
    ASSUME Lists,
           \/ SyncStart \/ SyncDone \/ Astray \/ UNCHANGED vars
           \/ \E n \in Names : CreateFails(n)
           \/ \E h \in Handles : \/ \E n \in Names : Open(h, n)
                                 \/ Close(h)
                                 \/ \E q \in Offsets : Seek(h, q)
    PROVE  Quiet /\ (SyncDone \/ (safe' = safe /\ (pc' = "run" => pc = "run")))
<1>1. CASE SyncStart \/ SyncDone \/ Astray \/ UNCHANGED vars
  <2>1. UNCHANGED <<card, mfat, dir, inode, stray, torn, far>>
    BY <1>1, AstrayLost DEF SyncStart, SyncDone, Derails, vars, memory
  <2>2. /\ pc = "lost" => pc' = "lost"
        /\ SyncDone \/ (safe' = safe /\ (pc' = "run" => pc = "run"))
    <3>1. CASE SyncStart
      BY <3>1 DEF SyncStart, Calling
    <3>2. CASE SyncDone
      <4>1. pc = "sync" /\ SyncDone
        BY <3>2 DEF SyncDone
      <4> QED BY <4>1
    <3>3. CASE Astray
      BY <3>3, AstrayLost DEF Derails
    <3>4. CASE UNCHANGED vars
      BY <3>4 DEF vars
    <3> QED BY <1>1, <3>1, <3>2, <3>3, <3>4
  <2> QED BY <2>1, <2>2, SameMemory DEF Quiet
<1>2. ASSUME NEW h \in Handles, Close(h) \/ \E q \in Offsets : Seek(h, q)
      PROVE  Quiet /\ safe' = safe /\ (pc' = "run" => pc = "run")
  <2>1. UNCHANGED <<card, mfat, dir, inode, stray, torn, far>>
    BY <1>2 DEF Close, Seek, Returns, memory
  <2>2. UNCHANGED <<pc, safe>>
    BY <1>2 DEF Close, Seek, Returns
  <2> QED BY <2>1, <2>2, SameMemory DEF Quiet
<1>3. ASSUME dir' = Dir, inode' = Inode, card' = card
      PROVE  Inode' = Inode /\ Dir.block' = Dir.block
  <2>1. dir'.cached
    BY <1>3 DEF Dir
  <2>2. Inode' = inode' /\ Dir' = dir'
    BY <2>1 DEF Inode, Dir
  <2> QED BY <1>3, <2>2
<1>4. ASSUME NEW n \in Names, CreateFails(n)
      PROVE  Quiet /\ safe' = safe /\ (pc' = "run" => pc = "run")
  <2>1. /\ dir' = Dir /\ inode' = Inode /\ mfat' = WithFats(FatsSearched)
        /\ UNCHANGED <<card, stray, torn, far, pc, safe>>
    BY <1>4 DEF CreateFails, Returns
  <2>2. Tables' = Tables
    BY <2>1, FetchedTables DEF Lists
  <2> QED BY <1>3, <2>1, <2>2 DEF Quiet, SameViews
<1>5. ASSUME NEW h \in Handles, NEW n \in Names, Open(h, n)
      PROVE  Quiet /\ safe' = safe /\ (pc' = "run" => pc = "run")
  <2>1. /\ dir' = Dir /\ inode' = Inode
        /\ UNCHANGED <<card, mfat, stray, torn, far, pc, safe>>
    BY <1>5 DEF Open, Returns
  <2>2. Tables' = Tables
    BY <2>1 DEF Tables, Table
  <2> QED BY <1>3, <2>1, <2>2 DEF Quiet, SameViews
<1> QED BY <1>1, <1>2, <1>4, <1>5

(* On a plain card only the first block of a chain is a block of data. *)
LEMMA ChainPlain ==
    ASSUME Lists, Plain, NEW first \in Nat, NEW k \in Ids, k # 0
    PROVE  Chain(first)[k] \in {0, END, BAD}
<1> DEFINE M == MAX_FILE_BLK
           ch == Chain(first)
           T == {l \in 1 .. M : ch[l] \notin {0, END, BAD}}
<1>1. M \in Nat /\ k \in 1 .. M
  BY CardAssumption DEF Ids
<1>2. Walk(first, M, ch)
  BY ChainFacts DEF Lists
<1> HIDE DEF ch
<1>3. SUFFICES ASSUME T # {} PROVE FALSE
  BY <1>1 DEF ch
<1>4. T \in SUBSET Nat
  BY <1>1
<1>5. PICK m \in T : \A y \in T : m <= y
  BY <1>3, <1>4, Least
<1>6. m \in 1 .. M /\ ch[m] = Step(ch[m - 1])
  BY <1>2, <1>5 DEF Walk
<1>7. ch[m - 1] \in Int
  <2>1. m - 1 \in 0 .. M
    BY <1>1, <1>6
  <2> QED BY <1>2, <2>1 DEF Walk
<1>8. ASSUME NEW x \in Nat PROVE NextBlk(x) \in {0, END, BAD}
  <2>1. x % F \in 0 .. (FAT_ENTRY_PER_BLK - 1)
    BY Divided DEF F
  <2>2. CASE x \div F \in Fats
    <3>1. Tables[x \div F][x % F] \in {FREE, END}
      BY <2>1, <2>2 DEF Plain
    <3>2. Table(x \div F) = Tables[x \div F]
      BY <2>2 DEF Tables
    <3> QED BY <2>2, <3>1, <3>2 DEF NextBlk, FREE, F
  <2>3. CASE x \div F \notin Fats
    BY <2>3 DEF NextBlk, F
  <2> QED BY <2>2, <2>3
<1>9. CASE ch[m - 1] < 0
  <2>1. m - 1 # 0
    <3>1. ch[0] \in Nat
      BY <1>2, BlkIdFacts DEF Walk
    <3> QED BY <1>9, <3>1
  <2>2. m - 1 \in 1 .. M /\ ~(m <= m - 1)
    BY <1>1, <1>6, <2>1
  <2>3. ch[m - 1] \in {0, END, BAD}
    BY <1>5, <2>2
  <2>4. ch[m] = ch[m - 1]
    BY <1>6, <1>9 DEF Step
  <2> QED BY <1>5, <2>3, <2>4
<1>10. CASE ~(ch[m - 1] < 0)
  <2>1. ch[m - 1] \in Nat /\ ch[m] = NextBlk(ch[m - 1])
    BY <1>6, <1>7, <1>10 DEF Step
  <2> QED BY <1>5, <1>8, <2>1
<1> QED BY <1>9, <1>10

LEMMA FetchedPlain ==
    ASSUME Lists, Plain, NEW i \in Slots, NEW P \in BOOLEAN, NEW k \in Ids, k # 0
    PROVE  LET b == Fetched(i, P)[k]
           IN \/ b = inode[i].data[k]
              \/ b.cached /\ b.id = 0 /\ b.bytes = CardBytes(0)
<1>1. CASE P
  BY <1>1 DEF Fetched
<1>2. CASE ~P
  <2> DEFINE n == inode[i]
             c == Chain(n.first)[k]
  <2>1. n.first \in Nat
    BY DEF Lists, Types, Node
  <2>2. c \in {0, END, BAD}
    BY <2>1, ChainPlain
  <2>3. Fetched(i, P)[k] =
          IF c < 0 THEN n.data[k]
          ELSE [cached |-> TRUE, dirty |-> n.data[k].dirty, id |-> c, bytes |-> CardBytes(c)]
    BY <1>2 DEF Fetched, Loaded
  <2> HIDE DEF c
  <2>4. CASE c = 0
    BY <2>3, <2>4
  <2>5. CASE c < 0
    BY <2>3, <2>5
  <2> QED BY <2>2, <2>4, <2>5 DEF END, BAD
<1> QED BY <1>1, <1>2

(* A read changes nothing but which blocks of one file are in memory. *)
LEMMA ReadViews ==
    ASSUME Lists, NEW h \in Handles, NEW k \in Lens, Read(h, k)
    PROVE  LET i == hnd[h].slot IN \E P \in BOOLEAN :
           /\ i \in Slots /\ dir.cached /\ Inode = inode /\ inode[i].name \in Names
           /\ Inode' \in [Slots -> Node]
           /\ Inode'[i].name = Inode[i].name /\ Inode'[i].size = Inode[i].size
           /\ Inode'[i].first = Inode[i].first /\ Inode'[i].data = Fetched(i, P)
           /\ \A j \in Slots \ {i} : Inode'[j] = Inode[j]
           /\ Dir.block' = Dir.block /\ Tables' = Tables /\ card' = card
           /\ far' = far /\ torn' = torn /\ (stray => stray') /\ pc' = pc /\ safe' = safe
           /\ pc = "run"
<1> DEFINE i == hnd[h].slot
           q == hnd[h].pos
           m == Count(inode[i], q, k)
<1>1. PICK P \in BOOLEAN :
        /\ i \in Slots /\ q \in Nat /\ m \in Nat /\ dir.cached /\ inode[i].name \in Names
        /\ inode' = DataPut(inode, i, Fetched(i, P))
        /\ mfat' = IF P THEN mfat ELSE WithFats(FatsWalked(inode[i].first))
        /\ hnd' = [hnd EXCEPT ![h].pos = q + m] /\ hnd[h] # NoHandle
        /\ stray' = (stray \/ q > inode[i].size)
        /\ UNCHANGED <<card, dir, dirty, torn, far>>
  BY ReadFacts
<1>2. pc' = pc /\ safe' = safe /\ pc = "run"
  BY DEF Read, Calling
<1> HIDE DEF i, q, m
<1>3. Fetched(i, P) \in [Ids -> DataBlock] /\ inode \in [Slots -> Node]
  BY <1>1, BlocksFacts DEF Lists, Types
<1>4. /\ inode' \in [Slots -> Node]
      /\ inode'[i].name = inode[i].name /\ inode'[i].size = inode[i].size
      /\ inode'[i].first = inode[i].first /\ inode'[i].data = Fetched(i, P)
      /\ \A j \in Slots \ {i} : inode'[j] = inode[j]
  BY <1>1, <1>3, DataStep
<1>5. Inode = inode /\ Inode' = inode' /\ Dir.block' = Dir.block
  BY <1>1 DEF Inode, Dir
<1>6. Tables' = Tables
  <2>1. CASE P
    BY <1>1, <2>1 DEF Tables, Table
  <2>2. CASE ~P
    BY <1>1, <2>2, FetchedTables DEF Lists
  <2> QED BY <2>1, <2>2
<1> QED BY <1>1, <1>2, <1>4, <1>5, <1>6 DEF i

(* A write: the first block of one file, and its size. *)
LEMMA WriteViews ==
    ASSUME Lists, NEW h \in Handles, NEW s \in Bufs, Write(h, s)
    PROVE  LET i == hnd[h].slot
               q == hnd[h].pos
               data == Fetched(i, inode[i].data[0].cached)
           IN
           /\ i \in Slots /\ dir.cached /\ Inode = inode /\ inode[i].name \in Names
           /\ q \in Nat /\ Len(s) \in Nat /\ q + Len(s) <= BLOCK_SIZE
           /\ Inode' \in [Slots -> Node]
           /\ Inode'[i].name = Inode[i].name /\ Inode'[i].size = Inode[i].size + Len(s)
           /\ Inode'[i].first = Inode[i].first
           /\ Inode'[i].data[0].cached /\ Inode'[i].data[0].dirty
           /\ Inode'[i].data[0].id = data[0].id
           /\ Inode'[i].data[0].bytes = Wrote(data, q, s)
           /\ \A k \in Ids \ {0} : Inode'[i].data[k] = data[k]
           /\ \A j \in Slots \ {i} : Inode'[j] = Inode[j]
           /\ Dir.block' \in [Slots -> Entry]
           /\ Dir.block'[i].name = Dir.block[i].name
           /\ Dir.block'[i].size = Inode[i].size + Len(s)
           /\ Dir.block'[i].first = Dir.block[i].first
           /\ \A j \in Slots \ {i} : Dir.block'[j] = Dir.block[j]
           /\ Tables' = Tables /\ card' = card
           /\ far' = far /\ torn' = torn /\ stray' = (stray \/ q # inode[i].size \/ ~IsData(BlkId(inode[i].first)))
           /\ pc' = pc /\ safe' = safe /\ pc = "run"
<1> DEFINE i == hnd[h].slot
           q == hnd[h].pos
           old == inode[i]
           P == old.data[0].cached
           data == Fetched(i, P)
           bytes == Wrote(data, q, s)
           d == BytesPut(data, bytes)
<1>1. /\ i \in Slots /\ q \in Nat /\ Len(s) \in Nat /\ dir.cached /\ old.name \in Names
      /\ q + Len(s) <= BLOCK_SIZE
      /\ inode' = NodePut(inode, i, Len(s), d)
      /\ d \in [Ids -> DataBlock]
      /\ d[0].cached /\ d[0].dirty /\ d[0].id = data[0].id /\ d[0].bytes = bytes
      /\ \A k \in Ids \ {0} : d[k] = data[k]
      /\ dir' = SizePut(dir, i, old.size + Len(s))
      /\ stray' = (stray \/ q # old.size \/ ~IsData(BlkId(old.first)))
      /\ card' = card /\ far' = far /\ torn' = torn
  BY WriteFacts
<1>2. /\ mfat' = IF P THEN mfat ELSE WithFats(FatsWalked(old.first))
      /\ pc' = pc /\ safe' = safe /\ pc = "run"
  BY DEF Write, Returns, Calling
<1>3. inode \in [Slots -> Node] /\ dir \in DirBlock /\ old.size + Len(s) \in Nat
  <2>1. inode \in [Slots -> Node] /\ dir \in DirBlock
    BY DEF Lists, Types, DirBlock
  <2>2. old \in Node
    BY <1>1, <2>1
  <2>3. old.size \in Nat /\ Len(s) \in Nat
    BY <1>1, <2>2 DEF Node
  <2> QED BY <2>1, <2>3
<1> HIDE DEF data, bytes, d
<1>4. /\ inode' \in [Slots -> Node]
      /\ inode'[i].name = old.name /\ inode'[i].size = old.size + Len(s)
      /\ inode'[i].first = old.first /\ inode'[i].data = d
      /\ \A j \in Slots \ {i} : inode'[j] = inode[j]
  <2> DEFINE z == Len(s)
             m == NodePut(inode, i, z, d)
  <2>1. /\ inode \in [Slots -> Node] /\ i \in Slots /\ z \in Nat
        /\ d \in [Ids -> DataBlock] /\ inode' = m
    BY <1>1, <1>3
  <2> HIDE DEF i, q, old, P, z
  <2>2. /\ m \in [Slots -> Node] /\ m[i].name = inode[i].name
        /\ m[i].size = inode[i].size + z /\ m[i].first = inode[i].first /\ m[i].data = d
        /\ \A j \in Slots \ {i} : m[j] = inode[j]
    BY <2>1, NodeStep
  <2> HIDE DEF m
  <2> QED BY <2>1, <2>2 DEF z, i, old
<1>5. /\ dir' \in DirBlock /\ dir'.cached
      /\ dir'.block[i].name = dir.block[i].name /\ dir'.block[i].size = old.size + Len(s)
      /\ dir'.block[i].first = dir.block[i].first
      /\ \A j \in Slots \ {i} : dir'.block[j] = dir.block[j]
  <2> DEFINE z == old.size + Len(s)
  <2>1. dir \in DirBlock /\ i \in Slots /\ z \in Nat /\ dir' = SizePut(dir, i, z) /\ dir.cached
    BY <1>1, <1>3
  <2> HIDE DEF i, q, old, P, z
  <2>2. dir' \in DirBlock /\ dir'.cached
    BY <2>1, DirStep
  <2>3. /\ dir' \in DirBlock
        /\ dir'.block[i].name = dir.block[i].name /\ dir'.block[i].size = z
        /\ dir'.block[i].first = dir.block[i].first
        /\ \A j \in Slots \ {i} : dir'.block[j] = dir.block[j]
    BY <2>1, DirStep
  <2> QED BY <2>1, <2>2, <2>3 DEF z, i, old
<1>6. Inode = inode /\ Inode' = inode' /\ Dir.block = dir.block /\ Dir.block' = dir'.block
  BY <1>1, <1>5 DEF Inode, Dir
<1>7. Tables' = Tables
  <2>1. P \in BOOLEAN
    BY <1>1, <1>3, Constants DEF Node, DataBlock
  <2>2. CASE P
    BY <1>1, <1>2, <2>2 DEF Tables, Table
  <2>3. CASE ~P
    <3>1. mfat' = WithFats(FatsWalked(old.first))
      BY <1>2, <2>3
    <3> QED BY <1>1, <3>1, FetchedTables DEF Lists
  <2> QED BY <2>1, <2>2, <2>3
<1>8. dir'.block \in [Slots -> Entry]
  BY <1>5 DEF DirBlock
<1> QED BY <1>1, <1>2, <1>4, <1>5, <1>6, <1>7, <1>8 DEF data, bytes

(* A new file: its entry in the directory, and its cluster. *)
LEMMA CreateViews ==
    ASSUME Lists, Directory, NEW h \in Handles, NEW n \in Names, Create(h, n)
    PROVE  LET i == Min(FreeSlots)
               c == FreeCluster
           IN
           /\ i \in Slots /\ Inode[i].name = "" /\ \A j \in Slots : Inode[j].name # n
           /\ \A j \in Slots : j < i => Named(j)
           /\ c \in Nat /\ c \in Clusters
           /\ Inode' \in [Slots -> Node]
           /\ Inode'[i] = [name |-> n, size |-> 0, first |-> c, data |-> NoData]
           /\ \A j \in Slots \ {i} : Inode'[j] = Inode[j]
           /\ Dir.block' \in [Slots -> Entry]
           /\ Dir.block'[i] = [name |-> n, size |-> 0, first |-> ShortCluster(c)]
           /\ \A j \in Slots \ {i} : Dir.block'[j] = Dir.block[j]
           /\ \A f \in Fats, j \in 0 .. (FAT_ENTRY_PER_BLK - 1) :
                Tables'[f][j] \in {Tables[f][j], END}
           /\ ~far' => /\ ~far /\ c \in 2 .. (F - 1) /\ ~Taken(Tables, c) /\ Taken(Tables', c)
           /\ card' = card /\ torn' = torn /\ (far => far')
           /\ stray' = (stray \/ InUse(c)) /\ pc' = pc /\ safe' = safe /\ pc = "run"
<1> DEFINE i == Min(FreeSlots)
           c == FreeCluster
           f == c \div FAT_ENTRY_PER_BLK
           S == FatsSearched
           fats == WithFats(S)
           node == [name |-> n, size |-> 0, first |-> c, data |-> NoData]
           ent == [name |-> n, size |-> 0, first |-> ShortCluster(c)]
<1>1. /\ FreeSlots # {} /\ FatsWithFree # {} /\ f \in Fats /\ Slot(n) = {}
      /\ inode' = [Inode EXCEPT ![i] = node]
      /\ dir' = [cached |-> TRUE, dirty |-> TRUE, block |-> [Dir.block EXCEPT ![i] = ent]]
      /\ mfat' = Marked(fats, c)
      /\ stray' = (stray \/ InUse(c)) /\ far' = (far \/ f # 0)
      /\ card' = card /\ torn' = torn /\ pc' = pc /\ safe' = safe /\ pc = "run"
  BY DEF Create, Returns, Calling
<1>2. Types /\ Nodes
  BY DEF Lists
<1>3. i \in FreeSlots /\ \A y \in FreeSlots : i <= y
  <2>1. FreeSlots \in SUBSET Nat
    BY Constants DEF FreeSlots
  <2> QED BY <1>1, <2>1, MinIn
<1>4. i \in Slots /\ Inode[i].name = "" /\ \A j \in Slots : j < i => Named(j)
  <2>1. i \in Slots /\ Inode[i].name = ""
    BY <1>3 DEF FreeSlots
  <2>2. ASSUME NEW j \in Slots, j < i PROVE Named(j)
    <3>1. ~(i <= j)
      <4> HIDE DEF i
      <4>1. i \in Nat /\ j \in Nat
        BY <2>1, Constants
      <4> QED BY <2>2, <4>1
    <3> QED BY <1>3, <3>1 DEF FreeSlots, Named
  <2> QED BY <2>1, <2>2
<1>5. \A j \in Slots : Inode[j].name # n
  BY <1>1 DEF Slot
<1>6. c \in Nat /\ c \in Clusters
  <2>1. c \in Nat
    BY <1>1, FreeFacts
  <2> QED BY <1>1, <2>1, Divided DEF F
<1>7. Inode \in [Slots -> Node] /\ Dir.block \in [Slots -> Entry] /\ node \in Node /\ ent \in Entry
  <2>1. Inode \in [Slots -> Node] /\ Dir \in DirBlock
    BY <1>2, DirFacts
  <2>2. n \in Words
    BY CallAssumption DEF Words
  <2>3. ShortCluster(c) \in Nat
    <3> HIDE DEF c
    <3> QED BY <1>6, ShortFacts
  <2>4. ent \in Entry
    BY <2>2, <2>3 DEF Entry
  <2> DEFINE d == NoData
  <2>5. d \in [Ids -> DataBlock]
    BY NoNodes
  <2> HIDE DEF d
  <2>6. [name |-> n, size |-> 0, first |-> c, data |-> d] \in Node
    BY <1>6, <2>2, <2>5 DEF Node
  <2> QED BY <2>1, <2>4, <2>6 DEF d, DirBlock
<1> HIDE DEF i, node, ent
<1>8. Inode' = inode' /\ Dir.block' = dir'.block
  BY <1>1 DEF Inode, Dir
<1>9. /\ Inode' \in [Slots -> Node] /\ Inode'[i] = node
      /\ \A j \in Slots \ {i} : Inode'[j] = Inode[j]
  BY <1>1, <1>4, <1>7, <1>8
<1>10. /\ Dir.block' \in [Slots -> Entry] /\ Dir.block'[i] = ent
       /\ \A j \in Slots \ {i} : Dir.block'[j] = Dir.block[j]
  BY <1>1, <1>4, <1>7, <1>8
<1>11. /\ fats \in [Fats -> FatBlock]
       /\ \A g \in Fats : /\ fats[g].cached <=> g \in S \/ mfat[g].cached
                          /\ fats[g].table = IF g \in S THEN Table(g) ELSE mfat[g].table
  BY <1>2, FatFacts
<1> HIDE DEF fats, S
<1>12. /\ mfat'[f].cached <=> fats[f].cached
       /\ mfat'[f].table = [fats[f].table EXCEPT ![c % FAT_ENTRY_PER_BLK] = END]
       /\ \A g \in Fats \ {f} : mfat'[g] = fats[g]
  <2>1. mfat'[f].cached = fats[f].cached
    BY <1>1, <1>6, <1>11, FatStep
  <2>2. /\ mfat'[f].table = [fats[f].table EXCEPT ![c % FAT_ENTRY_PER_BLK] = END]
        /\ \A g \in Fats \ {f} : mfat'[g] = fats[g]
    BY <1>1, <1>6, <1>11, FatStep
  <2> QED BY <2>1, <2>2
<1>13. \A g \in Fats : /\ Tables'[g] = IF mfat'[g].cached THEN mfat'[g].table ELSE card.fat[g]
                       /\ Tables[g] = Table(g) /\ Table(g) \in FatTable
                       /\ Table(g) = IF mfat[g].cached THEN mfat[g].table ELSE card.fat[g]
  BY <1>1, <1>2, FatFacts DEF Tables, Table
<1>14. ASSUME NEW g \in Fats PROVE (fats[g].cached => fats[g].table = Table(g)) /\ (~fats[g].cached => card.fat[g] = Table(g))
  BY <1>11, <1>13
<1>15. ASSUME NEW g \in Fats
       PROVE  Tables'[g] = IF g = f /\ fats[f].cached
                             THEN [Tables[g] EXCEPT ![c % FAT_ENTRY_PER_BLK] = END] ELSE Tables[g]
  <2>1. CASE g = f /\ fats[f].cached
    BY <1>12, <1>13, <1>14, <2>1
  <2>2. CASE g = f /\ ~fats[f].cached
    BY <1>12, <1>13, <1>14, <2>2
  <2>3. CASE g # f
    <3>1. mfat'[g] = fats[g]
      BY <1>12, <2>3
    <3> QED BY <1>13, <1>14, <2>3, <3>1
  <2> QED BY <2>1, <2>2, <2>3
<1>16. ASSUME NEW g \in Fats, NEW j \in 0 .. (FAT_ENTRY_PER_BLK - 1)
       PROVE  Tables'[g][j] \in {Tables[g][j], END}
  <2>1. Tables[g] \in FatTable
    BY <1>13
  <2> HIDE DEF c, f
  <2> QED BY <1>15, <2>1 DEF FatTable
<1>17. ASSUME ~far'
       PROVE  ~far /\ c \in 2 .. (F - 1) /\ ~Taken(Tables, c) /\ Taken(Tables', c)
  <2>1. ~far /\ f = 0
    BY <1>1, <1>17
  <2>2. c \in 2 .. (F - 1) /\ Table(0)[c] = FREE
    BY <1>1, <2>1, FreeFacts DEF F
  <2>3. c % FAT_ENTRY_PER_BLK = c /\ c < F
    <3>1. c < F
      BY <2>2, Constants
    <3> HIDE DEF c
    <3> QED BY <1>6, <3>1, Divided DEF F
  <2>4. Tables[0] = Table(0) /\ Table(0) \in FatTable /\ 0 \in Fats
    BY <1>13, Constants
  <2>5. ~Taken(Tables, c)
    BY <2>1, <2>2, <2>3, <2>4 DEF Taken
  <2>6. fats[0].cached
    <3>1. 0 \in S
      <4>1. FatsWithFree \in SUBSET Nat
        BY Constants DEF FatsWithFree
      <4>2. Min(FatsWithFree) \in Nat
        BY <1>1, <4>1, MinIn
      <4> QED BY <1>1, <4>2 DEF S, FatsSearched
    <3> QED BY <1>11, <2>4, <3>1
  <2>7. Tables'[0] = [Tables[0] EXCEPT ![c] = END]
    BY <1>15, <2>1, <2>3, <2>4, <2>6
  <2>8. c \in 0 .. (FAT_ENTRY_PER_BLK - 1)
    BY <1>6, <2>2, Constants DEF F
  <2>9. Tables'[0][c] = END
    BY <2>4, <2>7, <2>8 DEF FatTable
  <2>10. Taken(Tables', c)
    BY <2>1, <2>3, <2>9 DEF Taken, END, FREE
  <2> QED BY <2>1, <2>2, <2>5, <2>10
<1> QED BY <1>1, <1>4, <1>5, <1>6, <1>9, <1>10, <1>16, <1>17 DEF i, node, ent

(* A block of a sync reaches the card. *)
LEMMA StoreViews ==
    ASSUME Lists, SyncStep \/ SyncRetry
    PROVE  /\ \A i \in Slots :
                /\ Inode'[i].name = Inode[i].name /\ Inode'[i].size = Inode[i].size
                /\ Inode'[i].first = Inode[i].first
                /\ \A k \in Ids :
                     /\ Inode'[i].data[k].cached <=> Inode[i].data[k].cached
                     /\ Inode'[i].data[k].id = Inode[i].data[k].id
                     /\ Inode'[i].data[k].bytes = Inode[i].data[k].bytes
                     /\ Inode'[i].data[k].dirty # Inode[i].data[k].dirty =>
                          Head(dirty) = FileE(i, k)
           /\ Dir.block' = Dir.block /\ Tables' = Tables
           /\ far' = far /\ torn' = torn /\ stray' = stray /\ pc' = pc /\ safe' = safe
           /\ pc = "sync" /\ Inode' \in [Slots -> Node]
           /\ dirty # <<>> /\ Placed(Head(dirty)) /\ card' = Stored(Head(dirty))
<1>1. /\ dirty # <<>> /\ Placed(Head(dirty)) /\ card' = Stored(Head(dirty))
      /\ UNCHANGED <<far, torn, stray, pc, safe>> /\ pc = "sync"
  BY DEF SyncStep, SyncRetry
<1>2. Types /\ Nodes /\ Listed /\ Inode \in [Slots -> Node]
  BY DirFacts DEF Lists
<1>3. Head(dirty) \in Blocks /\ In(dirty, Head(dirty))
  BY <1>1, <1>2, Delisting DEF Types, Listed
<1> DEFINE Kept1(i) ==
             /\ Inode'[i].name = Inode[i].name /\ Inode'[i].size = Inode[i].size
             /\ Inode'[i].first = Inode[i].first
             /\ \A k \in Ids :
                  /\ Inode'[i].data[k].cached <=> Inode[i].data[k].cached
                  /\ Inode'[i].data[k].id = Inode[i].data[k].id
                  /\ Inode'[i].data[k].bytes = Inode[i].data[k].bytes
                  /\ Inode'[i].data[k].dirty # Inode[i].data[k].dirty => Head(dirty) = FileE(i, k)
           Views == /\ \A i \in Slots : Kept1(i)
                    /\ Inode' \in [Slots -> Node]
                    /\ Dir.block' = Dir.block /\ Tables' = Tables
<1>4. SUFFICES Views
  BY <1>1
<1>5. CASE Head(dirty) = DirE
  <2>1. dir.cached /\ dir.dirty
    BY <1>2, <1>3, <1>5 DEF Listed, DirListed, Nodes, Unread
  <2>2. dir'.cached /\ dir'.block = dir.block /\ mfat' = mfat /\ inode' = inode
    <3>1. dir \in DirBlock
      BY <1>2 DEF Types, DirBlock
    <3>2. CASE SyncStep
      <4>1. dir' = [dir EXCEPT !.dirty = FALSE] /\ mfat' = mfat /\ inode' = inode
        BY <1>5, <3>2 DEF SyncStep, Cleaned, DirE
      <4> QED BY <2>1, <3>1, <4>1, DirtyCleared
    <3>3. CASE SyncRetry
      BY <2>1, <3>3 DEF SyncRetry, memory
    <3> QED BY <3>2, <3>3
  <2>3. Inode' = Inode /\ Dir.block' = Dir.block
    BY <2>1, <2>2 DEF Inode, Dir
  <2>4. card'.fat = card.fat
    BY <1>1, <1>5, StoredAt
  <2>5. Tables' = Tables
    BY <2>2, <2>4 DEF Tables, Table
  <2> QED BY <1>2, <2>3, <2>5
<1>6. ASSUME NEW f \in Fats, Head(dirty) = FatE(f)
      PROVE  Views
  <2>1. /\ dir' = dir /\ inode' = inode
        /\ \A g \in Fats : (mfat'[g].cached <=> mfat[g].cached) /\ mfat'[g].table = mfat[g].table
    <3>1. mfat \in [Fats -> FatBlock]
      BY <1>2 DEF Types, FatBlock
    <3>2. CASE SyncStep
      <4>1. mfat' = [mfat EXCEPT ![f].dirty = FALSE] /\ dir' = dir /\ inode' = inode
        BY <1>6, <3>2 DEF SyncStep, Cleaned, FatE
      <4>2. /\ mfat'[f].cached = mfat[f].cached
            /\ mfat'[f].table = mfat[f].table /\ \A g \in Fats \ {f} : mfat'[g] = mfat[g]
        BY <3>1, <4>1, FatCleared
      <4> QED BY <4>1, <4>2
    <3>3. CASE SyncRetry
      BY <3>3 DEF SyncRetry, memory
    <3> QED BY <3>2, <3>3
  <2>2. mfat[f].cached /\ card'.dir = card.dir /\ card'.fat = [card.fat EXCEPT ![f] = mfat[f].table]
    BY <1>1, <1>6, StoredAt
  <2>3. Inode' = Inode /\ Dir.block' = Dir.block
    BY <2>1, <2>2 DEF Inode, Dir
  <2>4. ASSUME NEW g \in Fats PROVE Table(g)' = Table(g)
    <3>1. Table(g)' = IF mfat'[g].cached THEN mfat'[g].table ELSE card'.fat[g]
      BY DEF Table
    <3>2. CASE g = f
      BY <2>1, <2>2, <3>1, <3>2 DEF Table
    <3>3. CASE g # f
      <4>1. card'.fat[g] = card.fat[g]
        BY <1>2, <2>2, <3>3 DEF Types
      <4> QED BY <2>1, <3>1, <4>1 DEF Table
    <3> QED BY <3>2, <3>3
  <2> QED BY <1>2, <2>3, <2>4 DEF Tables
<1>7. ASSUME NEW i \in Slots, NEW k \in Ids, Head(dirty) = FileE(i, k)
      PROVE  Views
  <2>1. card'.dir = card.dir /\ card'.fat = card.fat /\ inode[i].data[k].dirty
    BY <1>1, <1>7, StoredAt
  <2>2. dir.cached
    <3>1. ~dir.cached => inode[i].data = NoData
      BY <1>2, NoNodes DEF Nodes, Unread
    <3> QED BY <2>1, <3>1, NoNodes
  <2>3. /\ dir' = dir /\ mfat' = mfat /\ inode' \in [Slots -> Node]
        /\ \A j \in Slots :
             /\ inode'[j].name = inode[j].name /\ inode'[j].size = inode[j].size
             /\ inode'[j].first = inode[j].first
             /\ \A l \in Ids :
                  /\ inode'[j].data[l].cached <=> inode[j].data[l].cached
                  /\ inode'[j].data[l].id = inode[j].data[l].id
                  /\ inode'[j].data[l].bytes = inode[j].data[l].bytes
                  /\ inode'[j].data[l].dirty # inode[j].data[l].dirty => j = i /\ l = k
    <3>1. inode \in [Slots -> Node]
      BY <1>2 DEF Types
    <3>2. CASE SyncStep
      <4>1. inode' = CleanPut(inode, i, k) /\ dir' = dir /\ mfat' = mfat
        BY <1>7, <3>2 DEF SyncStep, Cleaned, FileE, CleanPut
      <4>2. /\ inode' \in [Slots -> Node]
            /\ inode'[i].name = inode[i].name /\ inode'[i].size = inode[i].size
            /\ inode'[i].first = inode[i].first
            /\ inode'[i].data[k].cached = inode[i].data[k].cached
            /\ inode'[i].data[k].id = inode[i].data[k].id
            /\ inode'[i].data[k].bytes = inode[i].data[k].bytes
            /\ \A l \in Ids \ {k} : inode'[i].data[l] = inode[i].data[l]
            /\ \A j \in Slots \ {i} : inode'[j] = inode[j]
        BY <3>1, <4>1, CleanStep
      <4> QED BY <4>1, <4>2
    <3>3. CASE SyncRetry
      BY <3>1, <3>3 DEF SyncRetry, memory
    <3> QED BY <3>2, <3>3
  <2>4. Inode' = inode' /\ Inode = inode /\ Dir.block' = Dir.block /\ Tables' = Tables
    BY <2>1, <2>2, <2>3 DEF Inode, Dir, Tables, Table
  <2> QED BY <1>7, <2>3, <2>4
<1>8. CASE \E f \in Fats : Head(dirty) = FatE(f)
  BY <1>6, <1>8
<1>9. CASE \E i \in Slots, k \in Ids : Head(dirty) = FileE(i, k)
  BY <1>7, <1>9
<1> QED BY <1>3, <1>5, <1>8, <1>9, BlockKinds

(***************************************************************************)
(* Cards of one cluster to the file, through every call.                   *)
(***************************************************************************)
At(data, blk) == IF IsData(blk) THEN data[ClusterAt(blk)] ELSE [k \in 1 .. BLOCK_SIZE |-> Junk]

LEMMA ParsedTidy ==
    ASSUME NEW block \in [Slots -> Entry], Tidy(block), NEW i \in Slots
    PROVE  /\ Parsed(block)[i].name = block[i].name /\ Parsed(block)[i].size = block[i].size
           /\ Parsed(block)[i].first = block[i].first /\ Parsed(block)[i].data = NoData
<1>1. CASE \A j \in 1 .. i : block[j] # NoEnt
  BY <1>1 DEF Parsed
<1>2. CASE \E j \in 1 .. i : block[j] = NoEnt
  <2>1. PICK j \in 1 .. i : block[j] = NoEnt
    BY <1>2
  <2>2. j \in Slots /\ (j = i \/ j < i)
    BY CardAssumption DEF Slots
  <2>3. block[i] = NoEnt
    BY <2>1, <2>2 DEF Tidy
  <2>4. Parsed(block)[i] = NoInode
    BY <1>2 DEF Parsed
  <2>5. block[i].name = "" /\ block[i].size = 0 /\ block[i].first = 0
    <3>1. NoEnt.name = "" /\ NoEnt.size = 0 /\ NoEnt.first = 0
      BY DEF NoEnt
    <3> QED BY <2>3, <3>1
  <2> QED BY <2>4, <2>5, NoNodes
<1> QED BY <1>1, <1>2

(* What a card must be for the program to start well on it. *)
Bootable ==
    /\ \A f \in Fats, j \in 0 .. (FAT_ENTRY_PER_BLK - 1) : card.fat[f][j] \in {FREE, END}
    /\ Tidy(card.dir)
    /\ \A i \in Slots : OnCard(i) => card.dir[i].first \in Clusters
    /\ \A i, j \in Slots : OnCard(i) /\ card.dir[i].name = card.dir[j].name => i = j
    /\ Trusted => \A i, j \in Slots :
                    OnCard(i) /\ OnCard(j) /\ card.dir[i].first = card.dir[j].first => i = j
    /\ ~far /\ ~torn => \A i \in Slots : OnCard(i) => Taken(card.fat, card.dir[i].first)

LEMMA EmptyViews ==
    Empty => Inode = Parsed(card.dir) /\ Dir.block = card.dir
             /\ Tables = [f \in Fats |-> card.fat[f]]
<1> SUFFICES ASSUME Empty
             PROVE  /\ Inode = Parsed(card.dir) /\ Dir.block = card.dir
                    /\ Tables = [f \in Fats |-> card.fat[f]]
  OBVIOUS
<1>1. ~dir.cached /\ \A f \in Fats : ~mfat[f].cached
  BY DEF Empty, NoDir, Fresh
<1>2. Inode = Parsed(card.dir) /\ Dir.block = card.dir
  BY <1>1 DEF Inode, Dir
<1>3. Tables = [f \in Fats |-> card.fat[f]]
  BY <1>1 DEF Tables, Table
<1> QED BY <1>2, <1>3

LEMMA EmptyClean ==
    Empty /\ Types /\ Bootable => Clean
<1> SUFFICES ASSUME Empty, Types, Bootable
             PROVE  Clean
  OBVIOUS
<1>1. card.dir \in [Slots -> Entry]
  BY DEF Types
<1>2. Inode = Parsed(card.dir) /\ Dir.block = card.dir /\ Tables = [f \in Fats |-> card.fat[f]]
  BY EmptyViews
<1>3. \A i \in Slots : /\ Inode[i].name = card.dir[i].name /\ Inode[i].size = card.dir[i].size
                       /\ Inode[i].first = card.dir[i].first /\ Inode[i].data = NoData
  BY <1>1, <1>2, ParsedTidy DEF Bootable
<1>4. Plain
  BY <1>2 DEF Plain, Bootable
<1>5. Directory
  BY <1>2, <1>3 DEF Directory, Bootable
<1>6. Titles
  <2>1. \A i \in Slots : Named(i) => Inode[i].first \in Clusters
    BY <1>3 DEF Bootable, Named, OnCard
  <2>2. \A i, j \in Slots : Named(i) /\ Inode[i].name = Inode[j].name => i = j
    <3>1. \A i, j \in Slots : card.dir[i].name # "" /\ card.dir[i].name = card.dir[j].name => i = j
      BY DEF Bootable, OnCard
    <3>2. \A i \in Slots : Inode[i].name = card.dir[i].name
      BY <1>3
    <3> QED BY <3>1, <3>2 DEF Named
  <2>3. \A i \in Slots : OnCard(i) =>
          /\ Inode[i].name = card.dir[i].name /\ card.dir[i].first \in Clusters
          /\ ~far => Inode[i].first = card.dir[i].first
    BY <1>3 DEF Bootable
  <2> QED BY <2>1, <2>2, <2>3 DEF Titles
<1>7. Blkids /\ CleanData
  BY <1>3, NoNodes DEF Blkids, CleanData
<1>8. Unshared
  BY <1>3 DEF Unshared, Bootable, Named, OnCard
<1>9. CardMarked
  BY DEF CardMarked, Bootable
<1>10. MemMarked
  <2>1. ASSUME NEW i \in Slots, ~far, ~torn, Named(i)
        PROVE  Taken(Tables, Inode[i].first)
    <3>1. OnCard(i) /\ Inode[i].first = card.dir[i].first
      BY <1>3, <2>1 DEF Named, OnCard
    <3>2. card.dir[i].first \in Nat /\ card.dir[i].first \in Clusters
      BY <3>1, Constants DEF Bootable
    <3>3. card.dir[i].first \div FAT_ENTRY_PER_BLK \in Fats
      BY <3>2, Divided DEF F
    <3>4. Taken(card.fat, card.dir[i].first)
      BY <2>1, <3>1 DEF Bootable
    <3> QED BY <1>2, <3>1, <3>3, <3>4 DEF Taken
  <2> QED BY <2>1 DEF MemMarked
<1> QED BY <1>4, <1>5, <1>6, <1>7, <1>8, <1>9, <1>10 DEF Clean

LEMMA InitClean ==
    ASSUME \A c \in Cards : OneClusterEach(c), Init
    PROVE  Clean
<1>1. Empty /\ Types
  BY InitLists DEF Init, Empty, Lists
<1>2. OneClusterEach(card)
  BY DEF Init
<1>3. Bootable
  BY <1>2 DEF OneClusterEach, Bootable, Tidy, OnCard, Taken
<1> QED BY <1>1, <1>3, EmptyClean

LEMMA PowerClean ==
    ASSUME Lists, Clean, PowerCut
    PROVE  Clean'
<1>1. Empty' /\ card' = card /\ stray' = stray /\ far' = far /\ torn' = (torn \/ pc = "sync")
      /\ pc \in {"run", "sync"}
  BY DEF PowerCut, Empty
<1>2. Types'
  BY PowerLists DEF Lists
<1>3. torn \in BOOLEAN /\ stray \in BOOLEAN /\ far \in BOOLEAN
  BY DEF Lists, Types
<1>4. Trusted' => Trusted
  BY <1>1, <1>3 DEF Trusted
<1>5. Bootable'
  <2>1. \A f \in Fats, j \in 0 .. (FAT_ENTRY_PER_BLK - 1) : card'.fat[f][j] \in {FREE, END}
    BY <1>1 DEF Clean, Plain
  <2>2. Tidy(card'.dir)
    BY <1>1 DEF Clean, Directory
  <2>3. \A i \in Slots : OnCard(i)' => card'.dir[i].first \in Clusters
    BY <1>1 DEF Clean, Titles, OnCard
  <2>4. \A i, j \in Slots : OnCard(i)' /\ card'.dir[i].name = card'.dir[j].name => i = j
    BY <1>1 DEF Clean, Titles, OnCard, Named
  <2>5. Trusted' => \A i, j \in Slots :
          OnCard(i)' /\ OnCard(j)' /\ card'.dir[i].first = card'.dir[j].first => i = j
    BY <1>1, <1>4 DEF Clean, Titles, OnCard, Named, Unshared, Trusted
  <2>6. ~far' /\ ~torn' => \A i \in Slots : OnCard(i)' => Taken(card'.fat, card'.dir[i].first)
    BY <1>1 DEF Clean, CardMarked, OnCard
  <2> QED BY <2>1, <2>2, <2>3, <2>4, <2>5, <2>6 DEF Bootable
<1>6. (Empty /\ Types /\ Bootable => Clean)'
  BY EmptyClean, PTL
<1> QED BY <1>1, <1>2, <1>5, <1>6

(* The calls that change no file. *)
LEMMA QuietClean ==
    ASSUME Lists, Clean, Quiet, CardMarked'
    PROVE  Clean'
<1>1. /\ Inode' = Inode /\ Dir.block' = Dir.block /\ Tables' = Tables /\ card' = card
      /\ far' = far /\ torn' = torn /\ stray' = stray
  BY DEF Quiet, SameViews
<1>2. Plain' /\ Directory' /\ Titles' /\ Blkids'
  BY <1>1 DEF Clean, Plain, Directory, Titles, Blkids, Named, OnCard
<1>3. Unshared' /\ MemMarked'
  BY <1>1 DEF Clean, Unshared, MemMarked, Named, Trusted
<1>4. CleanData'
  BY <1>1 DEF Clean, CleanData, CardBytes, Trusted
<1> QED BY <1>2, <1>3, <1>4 DEF Clean

(* When the list is empty the card holds what memory does. *)
LEMMA AllClean ==
    ASSUME Lists, dirty = <<>>
    PROVE  /\ Dir.block = card.dir /\ \A f \in Fats : Tables[f] = card.fat[f]
           /\ \A i \in Slots, k \in Ids : ~Inode[i].data[k].dirty
<1>1. \A e : ~In(dirty, e)
  <2>1. Len(dirty) = 0
    OBVIOUS
  <2> QED BY <2>1 DEF In
<1>2. ~dir.dirty /\ \A f \in Fats : ~mfat[f].dirty
  BY <1>1 DEF Lists, Listed, DirListed, FatListed
<1>3. \A i \in Slots, k \in Ids : ~inode[i].data[k].dirty
  BY <1>1 DEF Lists, Listed, FileListed
<1>4. \A i \in Slots : Inode[i].data = inode[i].data
  BY DirFacts DEF Lists
<1>5. Dir.block = card.dir
  BY <1>2 DEF Lists, CleanDir, Dir
<1>6. \A f \in Fats : Tables[f] = card.fat[f]
  BY <1>2 DEF Lists, CleanFat, Tables, Table
<1> QED BY <1>3, <1>4, <1>5, <1>6

LEMMA QuietMarked ==
    ASSUME Lists, Clean, Quiet, SyncDone \/ (pc' = "run" => pc = "run")
    PROVE  CardMarked'
<1>1. card' = card /\ far' = far /\ torn' = torn
  BY DEF Quiet
<1>2. CASE SyncDone
  <2>1. dirty = <<>>
    BY <1>2 DEF SyncDone
  <2>2. /\ \A f \in Fats : Tables[f] = card.fat[f]
    BY <2>1, AllClean
  <2>3. ASSUME ~far, ~torn, NEW i \in Slots, OnCard(i)
        PROVE  Taken(card.fat, card.dir[i].first)
    <3>1. Named(i) /\ Inode[i].first = card.dir[i].first /\ card.dir[i].first \in Clusters
      BY <2>3 DEF Clean, Titles, OnCard, Named
    <3>2. Taken(Tables, card.dir[i].first)
      BY <2>3, <3>1 DEF Clean, MemMarked
    <3>3. card.dir[i].first \div FAT_ENTRY_PER_BLK \in Fats
      BY <3>1, Constants, Divided DEF F
    <3> QED BY <2>2, <3>2, <3>3 DEF Taken
  <2> QED BY <1>1, <2>3 DEF CardMarked, OnCard
<1>3. CASE pc' = "run" => pc = "run"
  BY <1>1, <1>3 DEF Clean, CardMarked, OnCard
<1> QED BY <1>2, <1>3

LEMMA CreateClean ==
    ASSUME Lists, Clean, NEW h \in Handles, NEW n \in Names, Create(h, n)
    PROVE  Clean'
<1> DEFINE i == Min(FreeSlots)
           c == FreeCluster
<1>1. /\ i \in Slots /\ Inode[i].name = "" /\ \A j \in Slots : Inode[j].name # n
      /\ \A j \in Slots : j < i => Named(j)
      /\ c \in Nat /\ c \in Clusters
      /\ Inode'[i] = [name |-> n, size |-> 0, first |-> c, data |-> NoData]
      /\ \A j \in Slots \ {i} : Inode'[j] = Inode[j]
      /\ Dir.block'[i] = [name |-> n, size |-> 0, first |-> ShortCluster(c)]
      /\ \A j \in Slots \ {i} : Dir.block'[j] = Dir.block[j]
      /\ \A f \in Fats, j \in 0 .. (FAT_ENTRY_PER_BLK - 1) : Tables'[f][j] \in {Tables[f][j], END}
      /\ ~far' => /\ ~far /\ c \in 2 .. (F - 1) /\ ~Taken(Tables, c) /\ Taken(Tables', c)
      /\ card' = card /\ torn' = torn /\ (far => far')
      /\ stray' = (stray \/ InUse(c)) /\ pc' = pc /\ safe' = safe /\ pc = "run"
  BY CreateViews DEF Clean
<1> HIDE DEF i, c
<1>2. n # ""
  BY CallAssumption
<1>3. /\ Inode'[i].name = n /\ Inode'[i].size = 0 /\ Inode'[i].first = c /\ Inode'[i].data = NoData
      /\ Dir.block'[i].name = n /\ Dir.block'[i].size = 0 /\ Dir.block'[i].first = ShortCluster(c)
  <2>1. /\ Inode'[i] = [name |-> n, size |-> 0, first |-> c, data |-> NoData]
        /\ Dir.block'[i] = [name |-> n, size |-> 0, first |-> ShortCluster(c)]
    BY <1>1
  <2> DEFINE a == Inode'[i]
             b == Dir.block'[i]
  <2>2. /\ a = [name |-> n, size |-> 0, first |-> c, data |-> NoData]
        /\ b = [name |-> n, size |-> 0, first |-> ShortCluster(c)]
    BY <2>1
  <2> HIDE DEF a, b
  <2>3. a.name = n /\ a.size = 0 /\ a.first = c /\ a.data = NoData
    BY <2>2
  <2>4. b.name = n /\ b.size = 0 /\ b.first = ShortCluster(c)
    BY <2>2
  <2> QED BY <2>3, <2>4 DEF a, b
<1>4. Plain'
  <2>1. \A f \in Fats, j \in 0 .. (FAT_ENTRY_PER_BLK - 1) :
          card.fat[f][j] \in {FREE, END} /\ Tables[f][j] \in {FREE, END}
    BY DEF Clean, Plain
  <2> QED BY <1>1, <2>1 DEF Plain
<1>5. Trusted' => Trusted
  BY <1>1 DEF Trusted
<1>6. Tidy(Dir.block')
  <2> SUFFICES ASSUME NEW j \in Slots, NEW k \in Slots, j < k, Dir.block'[j] = NoEnt
               PROVE  Dir.block'[k] = NoEnt
    BY DEF Tidy
  <2>1. NoEnt.name = ""
    BY DEF NoEnt
  <2>2. j # i
    BY <1>2, <1>3, <2>1
  <2>3. Dir.block[j] = NoEnt
    BY <1>1, <2>2
  <2>4. ~(j < i)
    <3>1. Inode[j].name = ""
      BY <2>1, <2>3 DEF Clean, Directory
    <3> QED BY <1>1, <3>1 DEF Named
  <2>5. k # i
    BY <1>1, <2>2, <2>4, Constants
  <2>6. Dir.block[k] = NoEnt
    BY <2>3 DEF Clean, Directory, Tidy
  <2> QED BY <1>1, <2>5, <2>6
<1>7. ~far' => ShortCluster(c) = c
  <2>1. ASSUME ~far' PROVE c \in Nat /\ c < F
    <3>1. c \in Nat /\ c \in 2 .. (F - 1)
      BY <1>1, <2>1
    <3>2. F \in Nat
      BY Constants
    <3> QED BY <3>1, <3>2
  <2> HIDE DEF c
  <2> QED BY <2>1, ShortFacts
<1>8. Directory'
  <2>1. Tidy(card.dir)'
    BY <1>1 DEF Clean, Directory
  <2>2. ASSUME NEW j \in Slots
        PROVE  /\ Inode'[j].name = Dir.block'[j].name /\ Inode'[j].size = Dir.block'[j].size
               /\ Dir.block'[j].first \in {Inode'[j].first, ShortCluster(Inode'[j].first)}
               /\ ~far' => Dir.block'[j].first = Inode'[j].first
    <3>1. CASE j = i
      BY <1>3, <1>7, <3>1
    <3>2. CASE j # i
      BY <1>1, <3>2 DEF Clean, Directory
    <3> QED BY <3>1, <3>2
  <2> QED BY <1>6, <2>1, <2>2 DEF Directory
<1>9. Titles'
  <2>1. ASSUME NEW j \in Slots, Inode'[j].name # "" PROVE Inode'[j].first \in Clusters
    <3>1. CASE j = i
      BY <1>1, <1>3, <3>1
    <3>2. CASE j # i
      BY <1>1, <2>1, <3>2 DEF Clean, Titles, Named
    <3> QED BY <3>1, <3>2
  <2>2. ASSUME NEW j \in Slots, NEW k \in Slots, Inode'[j].name # "", Inode'[j].name = Inode'[k].name
        PROVE  j = k
    <3>1. CASE j = i \/ k = i
      BY <1>1, <1>3, <2>2, <3>1
    <3>2. CASE j # i /\ k # i
      <4>1. Inode'[j] = Inode[j] /\ Inode'[k] = Inode[k]
        BY <1>1, <3>2
      <4>2. Named(j) /\ Inode[j].name = Inode[k].name
        BY <2>2, <4>1 DEF Named
      <4> QED BY <4>2 DEF Clean, Titles
    <3> QED BY <3>1, <3>2
  <2>3. ASSUME NEW j \in Slots, card'.dir[j].name # ""
        PROVE  /\ Inode'[j].name = card'.dir[j].name /\ card'.dir[j].first \in Clusters
               /\ ~far' => Inode'[j].first = card'.dir[j].first
    <3>1. /\ Inode[j].name = card.dir[j].name /\ card.dir[j].first \in Clusters
          /\ ~far => Inode[j].first = card.dir[j].first
      BY <1>1, <2>3 DEF Clean, Titles, OnCard
    <3>2. j # i
      BY <1>1, <2>3, <3>1
    <3> QED BY <1>1, <3>1, <3>2
  <2> QED BY <2>1, <2>2, <2>3 DEF Titles, Named, OnCard
<1>10. Blkids'
  <2>1. ASSUME NEW j \in Slots, NEW k \in Ids, Inode'[j].data[k].cached
        PROVE  Inode'[j].data[k].id = IF k = 0 THEN BlkId(Inode'[j].first) ELSE 0
    <3>1. j # i
      BY <1>3, <2>1, NoNodes
    <3>2. Inode'[j] = Inode[j]
      BY <1>1, <3>1
    <3> QED BY <2>1, <3>2 DEF Clean, Blkids
  <2> QED BY <2>1 DEF Blkids
<1>11. Unshared'
  <2>1. ASSUME Trusted', NEW j \in Slots, j # i, Named(j)
        PROVE  Inode[j].first # c
    <3>1. CASE ~torn
      <4>1. ~far /\ ~Taken(Tables, c)
        BY <1>1, <2>1 DEF Trusted
      <4>2. Taken(Tables, Inode[j].first)
        BY <2>1, <3>1, <4>1 DEF Clean, MemMarked
      <4> QED BY <4>1, <4>2
    <3>2. CASE torn
      <4>1. ~InUse(c)
        BY <1>1, <2>1, <3>2 DEF Trusted
      <4> QED BY <2>1, <4>1 DEF InUse, Named
    <3> QED BY <3>1, <3>2
  <2>2. ASSUME Trusted', NEW j \in Slots, NEW k \in Slots, Inode'[j].name # "",
               Inode'[k].name # "", Inode'[j].first = Inode'[k].first
        PROVE  j = k
    <3>1. CASE j = i /\ k # i
      BY <1>1, <1>3, <2>1, <2>2, <3>1 DEF Named
    <3>2. CASE j # i /\ k = i
      BY <1>1, <1>3, <2>1, <2>2, <3>2 DEF Named
    <3>3. CASE j # i /\ k # i
      <4>1. Inode'[j] = Inode[j] /\ Inode'[k] = Inode[k]
        BY <1>1, <3>3
      <4> QED BY <1>5, <2>2, <4>1 DEF Clean, Unshared, Named
    <3> QED BY <3>1, <3>2, <3>3
  <2> QED BY <2>2 DEF Unshared, Named
<1>12. MemMarked'
  <2>1. ASSUME ~far', ~torn', NEW j \in Slots, Inode'[j].name # ""
        PROVE  Taken(Tables', Inode'[j].first)
    <3>1. CASE j = i
      BY <1>1, <1>3, <2>1, <3>1
    <3>2. CASE j # i
      <4> DEFINE x == Inode[j].first
      <4>1. Inode'[j] = Inode[j] /\ Named(j) /\ ~far /\ ~torn
        BY <1>1, <2>1, <3>2 DEF Named
      <4>2. x \in Clusters /\ Taken(Tables, x)
        BY <4>1 DEF Clean, MemMarked, Titles
      <4> HIDE DEF x
      <4>3. x \div FAT_ENTRY_PER_BLK \in Fats /\ x % FAT_ENTRY_PER_BLK \in 0 .. (FAT_ENTRY_PER_BLK - 1)
        BY <4>2, Divided, Constants DEF F
      <4> DEFINE f == x \div FAT_ENTRY_PER_BLK
                 e == x % FAT_ENTRY_PER_BLK
      <4>5. f \in Fats /\ e \in 0 .. (FAT_ENTRY_PER_BLK - 1) /\ Tables[f][e] # FREE
        BY <4>2, <4>3 DEF Taken
      <4> HIDE DEF f, e
      <4>6. Tables'[f][e] \in {Tables[f][e], END}
        BY <1>1, <4>5
      <4>7. Tables'[f][e] # FREE
        BY <4>5, <4>6 DEF END, FREE
      <4>4. Taken(Tables', x)
        BY <4>7 DEF Taken, f, e
      <4> QED BY <4>1, <4>4 DEF x
    <3> QED BY <3>1, <3>2
  <2> QED BY <2>1 DEF MemMarked, Named
<1>13. CardMarked'
  BY <1>1 DEF Clean, CardMarked, OnCard
<1>14. CleanData'
  <2>1. ASSUME Trusted', NEW j \in Slots, NEW k \in Ids,
               Inode'[j].data[k].cached, ~Inode'[j].data[k].dirty
        PROVE  Inode'[j].data[k].bytes = At(card'.data, Inode'[j].data[k].id)
    <3>1. j # i
      BY <1>3, <2>1, NoNodes
    <3>2. Inode'[j] = Inode[j]
      BY <1>1, <3>1
    <3>3. \A jj \in Slots, kk \in Ids :
             LET b == Inode[jj].data[kk] IN b.cached /\ ~b.dirty => b.bytes = At(card.data, b.id)
      BY <1>5, <2>1 DEF Clean, CleanData, CardBytes, At
    <3>4. Inode[j].data[k].bytes = At(card.data, Inode[j].data[k].id)
      BY <2>1, <3>2, <3>3
    <3>5. card' = card
      BY <1>1
    <3> QED BY <3>2, <3>4, <3>5
  <2> QED BY <2>1 DEF CleanData, CardBytes, At
<1> QED BY <1>4, <1>8, <1>9, <1>10, <1>11, <1>12, <1>13, <1>14 DEF Clean

(* The blocks of a file that a call has in memory, read again or not. *)
LEMMA FetchedBlocks ==
    ASSUME Lists, Clean, Inode = inode, NEW i \in Slots, NEW P \in BOOLEAN, NEW k \in Ids
    PROVE  LET b == Fetched(i, P)[k] IN
           /\ b.cached => b.id = IF k = 0 THEN BlkId(Inode[i].first) ELSE 0
           /\ Trusted /\ b.cached /\ ~b.dirty => b.bytes = CardBytes(b.id)
<1> DEFINE b == Fetched(i, P)[k]
<1>1. CASE b = inode[i].data[k]
  BY <1>1 DEF Clean, Blkids, CleanData
<1>2. CASE b # inode[i].data[k] /\ k # 0
  BY <1>2, FetchedPlain DEF Clean
<1>3. CASE b # inode[i].data[k] /\ k = 0
  <2>1. ~P
    BY <1>3 DEF Fetched
  <2>2. b.id = BlkId(inode[i].first) /\ b.bytes = CardBytes(BlkId(inode[i].first))
    BY <1>3, <2>1, BlocksFacts
  <2>3. /\ b.cached => b.id = IF k = 0 THEN BlkId(Inode[i].first) ELSE 0
        /\ b.bytes = CardBytes(b.id)
    <3> HIDE DEF b
    <3> QED BY <1>3, <2>2
  <2> HIDE DEF b
  <2> QED BY <2>3 DEF b
<1> QED BY <1>1, <1>2, <1>3

(* Calls that leave every file its name and its cluster. *)
LEMMA SameTitles ==
    ASSUME Clean,
           \A i \in Slots : Inode'[i].name = Inode[i].name /\ Inode'[i].first = Inode[i].first,
           Tables' = Tables, card'.fat = card.fat, card'.dir = card.dir,
           far' = far, torn' = torn, stray => stray', pc' = "run" => pc = "run"
    PROVE  Plain' /\ Titles' /\ Unshared' /\ MemMarked' /\ CardMarked'
<1>1. Plain'
  BY DEF Clean, Plain
<1>2. Titles'
  BY DEF Clean, Titles, Named, OnCard
<1>3. Trusted' => Trusted
  BY DEF Trusted
<1>4. Unshared'
  BY <1>3 DEF Clean, Unshared, Named
<1>5. MemMarked'
  BY DEF Clean, MemMarked, Named
<1>6. CardMarked'
  BY DEF Clean, CardMarked, OnCard
<1> QED BY <1>1, <1>2, <1>4, <1>5, <1>6

LEMMA ReadClean ==
    ASSUME Lists, Clean, NEW h \in Handles, NEW k \in Lens, Read(h, k)
    PROVE  Clean'
<1> DEFINE i == hnd[h].slot
<1>1. PICK P \in BOOLEAN :
           /\ i \in Slots /\ dir.cached /\ Inode = inode /\ inode[i].name \in Names
           /\ Inode' \in [Slots -> Node]
           /\ Inode'[i].name = Inode[i].name /\ Inode'[i].size = Inode[i].size
           /\ Inode'[i].first = Inode[i].first /\ Inode'[i].data = Fetched(i, P)
           /\ \A j \in Slots \ {i} : Inode'[j] = Inode[j]
           /\ Dir.block' = Dir.block /\ Tables' = Tables /\ card' = card
           /\ far' = far /\ torn' = torn /\ (stray => stray') /\ pc' = pc /\ safe' = safe
           /\ pc = "run"
  BY ReadViews
<1> HIDE DEF i
<1>2. \A j \in Slots : /\ Inode'[j].name = Inode[j].name /\ Inode'[j].size = Inode[j].size
                       /\ Inode'[j].first = Inode[j].first
  BY <1>1
<1>3. Plain' /\ Titles' /\ Unshared' /\ MemMarked' /\ CardMarked'
  BY <1>1, <1>2, SameTitles
<1>4. Directory'
  BY <1>1, <1>2 DEF Clean, Directory
<1>5. Trusted' => Trusted
  BY <1>1 DEF Trusted
<1>6. ASSUME NEW j \in Slots, NEW l \in Ids
      PROVE  LET b == Inode'[j].data[l] IN
             /\ b.cached => b.id = IF l = 0 THEN BlkId(Inode'[j].first) ELSE 0
             /\ Trusted' /\ b.cached /\ ~b.dirty => b.bytes = CardBytes(b.id)
  <2>1. CASE j = i
    <3> DEFINE b == Fetched(i, P)[l]
    <3>1. Inode'[j].data[l] = b /\ Inode'[j].first = Inode[i].first
      BY <1>1, <2>1
    <3>2. /\ b.cached => b.id = IF l = 0 THEN BlkId(Inode[i].first) ELSE 0
          /\ Trusted /\ b.cached /\ ~b.dirty => b.bytes = CardBytes(b.id)
      BY <1>1, FetchedBlocks
    <3> HIDE DEF b
    <3> QED BY <1>5, <3>1, <3>2
  <2>2. CASE j # i
    <3>1. Inode'[j] = Inode[j]
      BY <1>1, <2>2
    <3> QED BY <1>5, <3>1 DEF Clean, Blkids, CleanData
  <2> QED BY <2>1, <2>2
<1>7. Blkids'
  BY <1>6 DEF Blkids
<1>8. CleanData'
  BY <1>1, <1>6 DEF CleanData, CardBytes
<1> QED BY <1>3, <1>4, <1>7, <1>8 DEF Clean

LEMMA WriteClean ==
    ASSUME Lists, Clean, NEW h \in Handles, NEW s \in Bufs, Write(h, s)
    PROVE  Clean'
<1> DEFINE i == hnd[h].slot
           P == inode[i].data[0].cached
           data == Fetched(i, P)
<1>1. /\ i \in Slots /\ dir.cached /\ Inode = inode /\ inode[i].name \in Names
      /\ Inode'[i].name = Inode[i].name /\ Inode'[i].size = Inode[i].size + Len(s)
      /\ Inode'[i].first = Inode[i].first
      /\ Inode'[i].data[0].cached /\ Inode'[i].data[0].dirty
      /\ Inode'[i].data[0].id = data[0].id
      /\ \A k \in Ids \ {0} : Inode'[i].data[k] = data[k]
      /\ \A j \in Slots \ {i} : Inode'[j] = Inode[j]
      /\ Dir.block'[i].name = Dir.block[i].name
      /\ Dir.block'[i].size = Inode[i].size + Len(s)
      /\ Dir.block'[i].first = Dir.block[i].first
      /\ \A j \in Slots \ {i} : Dir.block'[j] = Dir.block[j]
      /\ Tables' = Tables /\ card' = card
      /\ far' = far /\ torn' = torn /\ (stray => stray') /\ pc' = pc
  BY WriteViews
<1>2. P \in BOOLEAN /\ 0 \in Ids /\ data[0].cached
  <2>1. inode[i] \in Node /\ 0 \in Ids
    BY <1>1, Constants DEF Lists, Types
  <2>2. P \in BOOLEAN
    BY <2>1 DEF Node, DataBlock
  <2>3. data[0].cached
    BY WriteFacts
  <2> QED BY <2>1, <2>2, <2>3
<1>3. \A l \in Ids : LET b == data[l] IN
        /\ b.cached => b.id = IF l = 0 THEN BlkId(Inode[i].first) ELSE 0
        /\ Trusted /\ b.cached /\ ~b.dirty => b.bytes = CardBytes(b.id)
  <2> HIDE DEF P
  <2> QED BY <1>1, <1>2, FetchedBlocks
<1> HIDE DEF i, P, data
<1>4. \A j \in Slots : Inode'[j].name = Inode[j].name /\ Inode'[j].first = Inode[j].first
  BY <1>1
<1>0. NoEnt.name = ""
  BY DEF NoEnt
<1>5. Plain' /\ Titles' /\ Unshared' /\ MemMarked' /\ CardMarked'
  BY <1>1, <1>4, SameTitles
<1>6. Directory'
  <2>1. \A j \in Slots : Dir.block'[j].name = Dir.block[j].name /\ Dir.block'[j].first = Dir.block[j].first
    BY <1>1
  <2>2. \A j \in Slots : Inode'[j].size = Dir.block'[j].size
    BY <1>1 DEF Clean, Directory
  <2>3. Tidy(card.dir)'
    BY <1>1 DEF Clean, Directory
  <2>4. Tidy(Dir.block')
    <3> SUFFICES ASSUME NEW j \in Slots, NEW k \in Slots, j < k, Dir.block'[j] = NoEnt
                 PROVE  Dir.block'[k] = NoEnt
      BY DEF Tidy
    <3>1. Dir.block'[j].name = ""
      BY <1>0
    <3>2. j # i
      BY <1>1, <3>1, CallAssumption DEF Clean, Directory
    <3>3. Dir.block[k] = NoEnt
      BY <1>1, <3>2 DEF Clean, Directory, Tidy
    <3>4. k # i
      <4>1. Dir.block[k].name = ""
        BY <1>0, <3>3
      <4> QED BY <1>1, <4>1, CallAssumption DEF Clean, Directory
    <3> QED BY <1>1, <3>3, <3>4
  <2> QED BY <1>1, <1>4, <2>1, <2>2, <2>3, <2>4 DEF Clean, Directory
<1>7. Trusted' => Trusted
  BY <1>1 DEF Trusted
<1>8. ASSUME NEW j \in Slots, NEW l \in Ids
      PROVE  LET b == Inode'[j].data[l] IN
             /\ b.cached => b.id = IF l = 0 THEN BlkId(Inode'[j].first) ELSE 0
             /\ Trusted' /\ b.cached /\ ~b.dirty => b.bytes = CardBytes(b.id)
  <2>1. CASE j = i /\ l = 0
    BY <1>1, <1>2, <1>3, <2>1
  <2>2. CASE j = i /\ l # 0
    <3>1. Inode'[j].data[l] = data[l]
      BY <1>1, <2>2
    <3> QED BY <1>3, <1>7, <2>2, <3>1
  <2>3. CASE j # i
    <3>1. Inode'[j] = Inode[j]
      BY <1>1, <2>3
    <3> QED BY <1>7, <3>1 DEF Clean, Blkids, CleanData
  <2> QED BY <2>1, <2>2, <2>3
<1>9. Blkids'
  BY <1>8 DEF Blkids
<1>10. CleanData'
  BY <1>1, <1>8 DEF CleanData, CardBytes
<1> QED BY <1>5, <1>6, <1>9, <1>10 DEF Clean

(* What the card keeps of a cluster is a cluster. *)
LEMMA CutCluster == ASSUME NEW x \in Clusters PROVE ShortCluster(x) \in Clusters
<1>1. x \in Nat /\ FatBlks * FAT_ENTRY_PER_BLK \in Nat
  BY CardAssumption, Constants
<1>2. ShortCluster(x) \in Nat /\ ShortCluster(x) <= x
  BY <1>1, ShortFacts
<1> QED BY <1>1, <1>2 DEF Clusters

(* A block of a file that is stored is the file's first, and goes where no *)
(* other block of the card is.                                             *)
LEMMA StoredFile ==
    ASSUME Lists, Clean, dirty # <<>>, Placed(Head(dirty)), card' = Stored(Head(dirty)),
           NEW i \in Slots, NEW k \in Ids, Head(dirty) = FileE(i, k)
    PROVE  /\ k = 0 /\ Named(i) /\ Inode[i].data[0].cached
           /\ \A j \in Slots : Named(j) => ClusterAt(BlkId(Inode[j].first)) = Inode[j].first
           /\ At(card'.data, BlkId(Inode[i].first)) = Inode[i].data[0].bytes
           /\ \A x : ~IsData(x) \/ ClusterAt(x) # Inode[i].first =>
                At(card'.data, x) = At(card.data, x)
           /\ card'.dir = card.dir /\ card'.fat = card.fat
<1> DEFINE old == inode[i].data[k]
           c == ClusterAt(old.id)
<1>1. /\ IsData(old.id) /\ old.dirty /\ old.cached
      /\ card'.data = [card.data EXCEPT ![c] = old.bytes]
      /\ card'.dir = card.dir /\ card'.fat = card.fat
  BY StoredAt
<1>2. Types /\ Nodes
  BY DEF Lists
<1>3. inode[i].data = Inode[i].data /\ Named(i)
  BY <1>1, <1>2, DirFacts, NoNodes DEF Named
<1>4. k = 0 /\ old.id = BlkId(Inode[i].first)
  <2>1. old.id = IF k = 0 THEN BlkId(Inode[i].first) ELSE 0
    BY <1>1, <1>3 DEF Clean, Blkids
  <2>2. ~IsData(0)
    BY BlkIdFacts
  <2> QED BY <1>1, <2>1, <2>2
<1>5. \A j \in Slots : Named(j) => ClusterAt(BlkId(Inode[j].first)) = Inode[j].first
  <2>1. \A j \in Slots : Named(j) => Inode[j].first \in Nat
    BY Constants DEF Clean, Titles
  <2> QED BY <2>1, BlkIdFacts
<1>6. c = Inode[i].first /\ c \in Clusters
  BY <1>1, <1>3, <1>4, <1>5 DEF IsData
<1>7. card.data \in [Clusters -> Bytes]
  BY <1>2 DEF Types
<1> HIDE DEF c
<1>8. /\ \A x : x # c => (x \in Clusters => card'.data[x] = card.data[x])
      /\ card'.data[c] = old.bytes
  BY <1>1, <1>6, <1>7
<1>9. ASSUME NEW x, ~IsData(x) \/ ClusterAt(x) # c
      PROVE  At(card'.data, x) = At(card.data, x)
  BY <1>8, <1>9 DEF At, IsData
<1>10. At(card'.data, BlkId(Inode[i].first)) = Inode[i].data[0].bytes
  <2>1. At(card'.data, old.id) = card'.data[c]
    BY <1>1 DEF At, c
  <2>2. old = Inode[i].data[0]
    BY <1>3, <1>4
  <2> QED BY <1>4, <1>8, <2>1, <2>2
<1>11. Inode[i].data[0].cached
  BY <1>1, <1>3, <1>4
<1> QED BY <1>1, <1>3, <1>4, <1>5, <1>6, <1>9, <1>10, <1>11

LEMMA StoreClean ==
    ASSUME Lists, Clean, SyncStep \/ SyncRetry
    PROVE  Clean'
<1>1. /\ \A i \in Slots :
           /\ Inode'[i].name = Inode[i].name /\ Inode'[i].size = Inode[i].size
           /\ Inode'[i].first = Inode[i].first
           /\ \A k \in Ids :
                /\ Inode'[i].data[k].cached <=> Inode[i].data[k].cached
                /\ Inode'[i].data[k].id = Inode[i].data[k].id
                /\ Inode'[i].data[k].bytes = Inode[i].data[k].bytes
                /\ Inode'[i].data[k].dirty # Inode[i].data[k].dirty => Head(dirty) = FileE(i, k)
      /\ Dir.block' = Dir.block /\ Tables' = Tables
      /\ far' = far /\ torn' = torn /\ stray' = stray /\ pc' = pc /\ pc = "sync"
      /\ Inode' \in [Slots -> Node]
      /\ dirty # <<>> /\ Placed(Head(dirty)) /\ card' = Stored(Head(dirty))
  BY StoreViews
<1>2. Types /\ Nodes /\ Listed /\ Inode \in [Slots -> Node]
  BY DirFacts DEF Lists
<1>3. Trusted' => Trusted
  BY <1>1 DEF Trusted
<1>4. Blkids'
  BY <1>1 DEF Clean, Blkids
<1>13. \A i \in Slots : Inode'[i].name = Inode[i].name /\ Inode'[i].first = Inode[i].first
  BY <1>1
<1>14. Unshared' /\ MemMarked'
  <2>1. Unshared'
    BY <1>3, <1>13 DEF Clean, Unshared, Named
  <2>2. MemMarked'
    BY <1>1, <1>13 DEF Clean, MemMarked, Named
  <2> QED BY <2>1, <2>2
<1>15. /\ \A i \in Slots : Inode'[i].name # "" => Inode'[i].first \in Clusters
       /\ \A i, j \in Slots : Inode'[i].name # "" /\ Inode'[i].name = Inode'[j].name => i = j
  BY <1>13 DEF Clean, Titles, Named
<1>5. \A i \in Slots, k \in Ids : ~Inode'[i].data[k].dirty =>
        ~Inode[i].data[k].dirty \/ Head(dirty) = FileE(i, k)
  <2> SUFFICES ASSUME NEW i \in Slots, NEW k \in Ids, ~Inode'[i].data[k].dirty
               PROVE  ~Inode[i].data[k].dirty \/ Head(dirty) = FileE(i, k)
    OBVIOUS
  <2>1. Inode'[i].data[k].dirty # Inode[i].data[k].dirty => Head(dirty) = FileE(i, k)
    BY <1>1
  <2> QED BY <2>1
<1>6. CASE /\ Head(dirty) = DirE
           /\ card'.dir = dir.block /\ card'.fat = card.fat /\ card'.data = card.data
  <2>1. card'.dir = Dir.block
    <3>1. dir.cached
      <4>1. dir.dirty
        BY <1>1, <1>2, <1>6, Delisting DEF Types, Listed, DirListed
      <4> QED BY <1>2, <4>1 DEF Nodes, Unread
    <3> QED BY <1>6, <3>1 DEF Dir
  <2>2. Directory'
    BY <1>1, <2>1 DEF Clean, Directory
  <2>3. \A i \in Slots :
          /\ Inode[i].name = card'.dir[i].name
          /\ card'.dir[i].first \in {Inode[i].first, ShortCluster(Inode[i].first)}
          /\ ~far => card'.dir[i].first = Inode[i].first
    BY <2>1 DEF Clean, Directory
  <2>4. \A i \in Slots : card'.dir[i].name # "" => card'.dir[i].first \in Clusters
    BY <2>3, CutCluster DEF Clean, Titles, Named
  <2>5. Titles'
    <3>3. \A i \in Slots : card'.dir[i].name # "" =>
            /\ Inode'[i].name = card'.dir[i].name /\ card'.dir[i].first \in Clusters
            /\ ~far' => Inode'[i].first = card'.dir[i].first
      BY <1>1, <2>3, <2>4
    <3> QED BY <1>15, <3>3 DEF Titles, Named, OnCard
  <2>6. Plain' /\ Unshared' /\ MemMarked' /\ CardMarked'
    <3>1. Plain'
      BY <1>1, <1>6 DEF Clean, Plain
    <3>3. CardMarked'
      BY <1>1 DEF CardMarked
    <3> QED BY <1>14, <3>1, <3>3
  <2>7. CleanData'
    <3>1. \A i \in Slots, k \in Ids : Head(dirty) # FileE(i, k)
      BY <1>6, BlockKinds
    <3>2. \A i \in Slots, k \in Ids :
             LET b == Inode[i].data[k]
             IN Trusted' /\ b.cached /\ ~b.dirty => b.bytes = At(card.data, b.id)
      BY <1>3 DEF Clean, CleanData, CardBytes, At
    <3>3. ASSUME Trusted', NEW i \in Slots, NEW k \in Ids,
                 Inode'[i].data[k].cached, ~Inode'[i].data[k].dirty
          PROVE  Inode'[i].data[k].bytes = At(card'.data, Inode'[i].data[k].id)
      BY <1>1, <1>5, <1>6, <3>1, <3>2, <3>3
    <3> QED BY <3>3 DEF CleanData, CardBytes, At
  <2> QED BY <1>4, <2>2, <2>5, <2>6, <2>7 DEF Clean
<1>7. ASSUME NEW f \in Fats, Head(dirty) = FatE(f), mfat[f].cached,
             card'.fat = [card.fat EXCEPT ![f] = mfat[f].table],
             card'.dir = card.dir, card'.data = card.data
      PROVE  Clean'
  <2>1. \A g \in Fats : card'.fat[g] \in {card.fat[g], Tables[g]}
    <3>1. Tables[f] = mfat[f].table
      BY <1>7 DEF Tables, Table
    <3>2. card.fat \in [Fats -> FatTable]
      BY <1>2 DEF Types
    <3> QED BY <1>7, <3>1, <3>2
  <2>2. Plain'
    <3>1. \A g \in Fats, j \in 0 .. (FAT_ENTRY_PER_BLK - 1) :
            card.fat[g][j] \in {FREE, END} /\ Tables[g][j] \in {FREE, END}
      BY DEF Clean, Plain
    <3>2. ASSUME NEW g \in Fats, NEW j \in 0 .. (FAT_ENTRY_PER_BLK - 1)
          PROVE  card'.fat[g][j] \in {FREE, END}
      BY <2>1, <3>1
    <3> QED BY <1>1, <3>1, <3>2 DEF Plain
  <2>3. Directory'
    BY <1>1, <1>7 DEF Clean, Directory
  <2>4. Titles'
    <3>1. \A i \in Slots : card'.dir[i].name # "" =>
            /\ Inode'[i].name = card'.dir[i].name /\ card'.dir[i].first \in Clusters
            /\ ~far' => Inode'[i].first = card'.dir[i].first
      BY <1>1, <1>7, <1>13 DEF Clean, Titles, OnCard
    <3> QED BY <1>15, <3>1 DEF Titles, Named, OnCard
  <2>6. CardMarked'
    BY <1>1 DEF CardMarked
  <2>7. CleanData'
    <3>1. \A i \in Slots, k \in Ids : Head(dirty) # FileE(i, k)
      BY <1>7, BlockKinds
    <3>2. \A i \in Slots, k \in Ids :
             LET b == Inode[i].data[k]
             IN Trusted' /\ b.cached /\ ~b.dirty => b.bytes = At(card.data, b.id)
      BY <1>3 DEF Clean, CleanData, CardBytes, At
    <3>3. ASSUME Trusted', NEW i \in Slots, NEW k \in Ids,
                 Inode'[i].data[k].cached, ~Inode'[i].data[k].dirty
          PROVE  Inode'[i].data[k].bytes = At(card'.data, Inode'[i].data[k].id)
      BY <1>1, <1>5, <1>7, <3>1, <3>2, <3>3
    <3> QED BY <3>3 DEF CleanData, CardBytes, At
  <2> QED BY <1>4, <1>14, <2>2, <2>3, <2>4, <2>6, <2>7 DEF Clean
<1>8. ASSUME NEW i \in Slots, NEW k \in Ids, Head(dirty) = FileE(i, k)
      PROVE  Clean'
  <2>1. /\ k = 0 /\ Named(i) /\ Inode[i].data[0].cached
        /\ \A j \in Slots : Named(j) => ClusterAt(BlkId(Inode[j].first)) = Inode[j].first
        /\ At(card'.data, BlkId(Inode[i].first)) = Inode[i].data[0].bytes
        /\ \A x : ~IsData(x) \/ ClusterAt(x) # Inode[i].first =>
             At(card'.data, x) = At(card.data, x)
        /\ card'.dir = card.dir /\ card'.fat = card.fat
    BY <1>1, <1>8, StoredFile
  <2>2. Plain' /\ Titles' /\ Unshared' /\ MemMarked' /\ CardMarked'
    BY <1>1, <2>1, SameTitles
  <2>3. Directory'
    BY <1>1, <2>1 DEF Clean, Directory
  <2>4. ASSUME Trusted', NEW j \in Slots, NEW l \in Ids,
               Inode'[j].data[l].cached, ~Inode'[j].data[l].dirty
        PROVE  Inode'[j].data[l].bytes = At(card'.data, Inode'[j].data[l].id)
    <3> DEFINE b == Inode[j].data[l]
    <3>1. /\ Inode'[j].data[l].id = b.id /\ Inode'[j].data[l].bytes = b.bytes /\ b.cached
          /\ ~b.dirty \/ FileE(j, l) = FileE(i, k)
      BY <1>1, <1>5, <1>8, <2>4
    <3>2. b.id = IF l = 0 THEN BlkId(Inode[j].first) ELSE 0
      BY <3>1 DEF Clean, Blkids
    <3>3. CASE j = i /\ l = k
      BY <2>1, <3>1, <3>2, <3>3
    <3>4. CASE ~(j = i /\ l = k)
      <4>1. b.bytes = At(card.data, b.id)
        <5>1. ~b.dirty
          BY <3>1, <3>4, BlockKinds
        <5>2. \A jj \in Slots, ll \in Ids :
                 LET bb == Inode[jj].data[ll]
                 IN bb.cached /\ ~bb.dirty => bb.bytes = At(card.data, bb.id)
          BY <1>3, <2>4 DEF Clean, CleanData, CardBytes, At
        <5> QED BY <3>1, <5>1, <5>2
      <4>2. ~IsData(b.id) \/ ClusterAt(b.id) # Inode[i].first
        <5>1. SUFFICES ASSUME IsData(b.id) PROVE ClusterAt(b.id) # Inode[i].first
          OBVIOUS
        <5>2. l = 0
          BY <3>2, <5>1, BlkIdFacts
        <5>3. Named(j) /\ j # i
          <6>1. Inode[j].name = "" => Inode[j].data = NoData
            BY <1>2, DirFacts
          <6> QED BY <2>1, <3>1, <3>4, <5>2, <6>1, NoNodes DEF Named
        <5>4. ClusterAt(b.id) = Inode[j].first
          BY <2>1, <3>2, <5>2, <5>3
        <5> QED BY <1>3, <2>1, <2>4, <5>3, <5>4 DEF Clean, Unshared
      <4> QED BY <2>1, <3>1, <4>1, <4>2
    <3> QED BY <3>3, <3>4
  <2>5. CleanData'
    BY <2>4 DEF CleanData, CardBytes, At
  <2> QED BY <1>4, <2>2, <2>3, <2>5 DEF Clean
<1>9. CASE \E f \in Fats : Head(dirty) = FatE(f)
  <2>1. PICK f \in Fats : Head(dirty) = FatE(f)
    BY <1>9
  <2>2. /\ mfat[f].cached /\ card'.fat = [card.fat EXCEPT ![f] = mfat[f].table]
        /\ card'.dir = card.dir /\ card'.data = card.data
    BY <1>1, <2>1, StoredAt
  <2> QED BY <1>7, <2>1, <2>2
<1>10. CASE \E i \in Slots, k \in Ids : Head(dirty) = FileE(i, k)
  BY <1>8, <1>10
<1>11. CASE Head(dirty) = DirE
  <2>1. card'.dir = dir.block /\ card'.fat = card.fat /\ card'.data = card.data
    BY <1>1, <1>11, StoredAt
  <2> QED BY <1>6, <1>11, <2>1
<1>12. Head(dirty) \in Blocks
  BY <1>1, StoredAt
<1> QED BY <1>9, <1>10, <1>11, <1>12, BlockKinds

LEMMA NextClean ==
    ASSUME Lists, Clean, [Next]_vars
    PROVE  Clean'
<1>1. CASE SyncStep \/ SyncRetry
  BY <1>1, StoreClean
<1>2. CASE PowerCut
  BY <1>2, PowerClean
<1>3. CASE \E h \in Handles, n \in Names : Create(h, n)
  BY <1>3, CreateClean
<1>4. CASE \E h \in Handles, s \in Bufs : Write(h, s)
  BY <1>4, WriteClean
<1>5. CASE \E h \in Handles, k \in Lens : Read(h, k)
  BY <1>5, ReadClean
<1>6. CASE \/ SyncStart \/ SyncDone \/ Astray \/ UNCHANGED vars
           \/ \E n \in Names : CreateFails(n)
           \/ \E h \in Handles : \/ \E n \in Names : Open(h, n)
                                 \/ Close(h)
                                 \/ \E q \in Offsets : Seek(h, q)
  <2>1. Quiet /\ (SyncDone \/ (safe' = safe /\ (pc' = "run" => pc = "run")))
    BY <1>6, QuietSteps
  <2>2. CardMarked'
    BY <2>1, QuietMarked
  <2> QED BY <2>1, <2>2, QuietClean
<1> QED BY <1>1, <1>2, <1>3, <1>4, <1>5, <1>6 DEF Next, Astray

LEMMA CleanHolds ==
    ASSUME \A c \in Cards : OneClusterEach(c)
    PROVE  Spec => [](Lists /\ Phase /\ Clean)
<1>1. Init => Clean
  BY InitClean
<1>2. Lists /\ Clean /\ [Next]_vars => Clean'
  BY NextClean
<1> QED BY <1>1, <1>2, ListsHold, PTL DEF Spec

(* A list without repetition has as many members as elements. *)
LEMMA OnceCounted ==
    ASSUME NEW S, NEW d \in Seq(S), Once(d)
    PROVE  Cardinality(Range(d)) = Len(d)
<1>1. Len(d) \in Nat /\ DOMAIN d = 1 .. Len(d)
  OBVIOUS
<1>2. Range(d) = {d[a] : a \in 1 .. Len(d)}
  BY <1>1 DEF Range
<1>3. d \in Bijection(1 .. Len(d), Range(d))
  <2> DEFINE S1 == 1 .. Len(d)
             T == {d[a] : a \in S1}
  <2>1. d \in [S1 -> T] /\ \A a, b \in S1 : d[a] = d[b] => a = b
    BY <1>1 DEF Once
  <2>2. d \in Bijection(S1, T)
    <3> HIDE DEF S1
    <3> QED BY <2>1 DEF Bijection, Injection, Surjection, IsInjective
  <2> QED BY <1>2, <2>2
<1>4. IsFiniteSet(1 .. Len(d)) /\ Cardinality(1 .. Len(d)) = Len(d)
  BY <1>1, FS_Interval
<1>5. ExistsBijection(1 .. Len(d), Range(d))
  BY <1>3 DEF ExistsBijection
<1> QED BY <1>4, <1>5, FS_Bijection

LEMMA CachesAre ==
    Lists /\ Clean => CachesTrue
<1> SUFFICES ASSUME Lists, Clean PROVE CachesTrue
  OBVIOUS
<1>1. Types /\ Nodes /\ Listed
  BY DEF Lists
<1>2. Cardinality(Range(dirty)) = Len(dirty)
  BY <1>1, OnceCounted DEF Types, Listed
<1>3. {e \in Blocks : IsDirty(e)} = Range(dirty)
  <2>0. DOMAIN dirty = 1 .. Len(dirty) /\ \A a \in 1 .. Len(dirty) : dirty[a] \in Blocks
    <3>1. dirty \in Seq(Blocks)
      BY <1>1 DEF Types
    <3> QED BY <3>1
  <2>1. \A e : e \in Range(dirty) <=> In(dirty, e)
    BY <2>0 DEF In, Range
  <2>2. \A e \in Range(dirty) : e \in Blocks
    BY <2>0 DEF Range
  <2>3. IsDirty(DirE) <=> In(dirty, DirE)
    BY <1>1 DEF IsDirty, DirE, Listed, DirListed
  <2>4. \A f \in Fats : IsDirty(FatE(f)) <=> In(dirty, FatE(f))
    BY <1>1 DEF IsDirty, FatE, Listed, FatListed
  <2>5. \A i \in Slots, k \in Ids : IsDirty(FileE(i, k)) <=> In(dirty, FileE(i, k))
    BY <1>1 DEF IsDirty, FileE, Listed, FileListed
  <2>6. \A e \in Blocks : IsDirty(e) <=> In(dirty, e)
    BY <2>3, <2>4, <2>5, BlockKinds
  <2> QED BY <2>1, <2>2, <2>6
<1>4. dir.cached /\ ~dir.dirty => dir.block = card.dir
  BY DEF Lists, CleanDir
<1>5. \A f \in Fats : mfat[f].cached /\ ~mfat[f].dirty => mfat[f].table = card.fat[f]
  BY DEF Lists, CleanFat
<1>6. ASSUME ~torn, ~far, NEW i \in Slots, NEW k \in Ids,
             inode[i].data[k].cached, ~inode[i].data[k].dirty
      PROVE  inode[i].data[k].bytes = CardBytes(inode[i].data[k].id)
  <2>1. Inode[i].data = inode[i].data
    BY <1>1, DirFacts
  <2> QED BY <1>6, <2>1 DEF Clean, CleanData, Trusted
<1>7. dir.cached => \A i \in Slots :
        /\ inode[i].name = dir.block[i].name /\ inode[i].size = dir.block[i].size
        /\ dir.block[i].first \in {inode[i].first, ShortCluster(inode[i].first)}
  BY DEF Clean, Directory, Inode, Dir
<1> QED BY <1>2, <1>3, <1>4, <1>5, <1>6, <1>7 DEF CachesTrue

(* The dirty list is the dirty blocks, and the caches are true to the card *)
(* and to each other, on every card whose files have one cluster each.     *)
THEOREM CachesTrueHolds ==
    ASSUME \A c \in Cards : OneClusterEach(c)
    PROVE  Spec => []CachesTrue
BY CleanHolds, CachesAre, PTL

LEMMA Uncrossed ==
    Lists /\ Phase /\ Clean => NoCrossLink
<1> SUFFICES ASSUME Lists, Phase, Clean, ~torn, ~far, pc # "lost"
             PROVE  /\ Apart(Inode, Table)
                    /\ pc # "sync" => Apart(Parsed(card.dir), LAMBDA f : card.fat[f])
  BY DEF NoCrossLink
<1>1. Apart(Inode, Table)
  <2>1. ASSUME NEW i \in Slots, Inode[i].name # ""
        PROVE  Table(Inode[i].first \div FAT_ENTRY_PER_BLK)[Inode[i].first % FAT_ENTRY_PER_BLK] # FREE
    <3>1. Inode[i].first \in Clusters /\ Taken(Tables, Inode[i].first)
      BY <2>1 DEF Clean, Titles, MemMarked, Named
    <3>2. Inode[i].first \div FAT_ENTRY_PER_BLK \in Fats
      BY <3>1, Constants, Divided DEF F
    <3> QED BY <3>1, <3>2 DEF Taken, Tables
  <2>2. ASSUME NEW i \in Slots, Inode[i].name # "", NEW j \in Slots \ {i}, Inode[j].name # ""
        PROVE  Inode[i].first # Inode[j].first
    BY <2>2 DEF Clean, Unshared, Named, Trusted
  <2> QED BY <2>1, <2>2 DEF Apart
<1>2. ASSUME pc # "sync"
      PROVE  Apart(Parsed(card.dir), LAMBDA f : card.fat[f])
  <2>1. pc = "run"
    BY <1>2 DEF Phase
  <2>2. card.dir \in [Slots -> Entry] /\ Tidy(card.dir)
    BY DEF Lists, Types, Clean, Directory
  <2>3. \A i \in Slots : Parsed(card.dir)[i].name = card.dir[i].name
                       /\ Parsed(card.dir)[i].first = card.dir[i].first
    BY <2>2, ParsedTidy
  <2>4. ASSUME NEW i \in Slots, Parsed(card.dir)[i].name # ""
        PROVE  LET c == Parsed(card.dir)[i].first
               IN card.fat[c \div FAT_ENTRY_PER_BLK][c % FAT_ENTRY_PER_BLK] # FREE
    <3>1. OnCard(i)
      BY <2>3, <2>4 DEF OnCard
    <3> QED BY <2>1, <2>3, <3>1 DEF Clean, CardMarked, Taken
  <2>5. ASSUME NEW i \in Slots, Parsed(card.dir)[i].name # "",
               NEW j \in Slots \ {i}, Parsed(card.dir)[j].name # ""
        PROVE  Parsed(card.dir)[i].first # Parsed(card.dir)[j].first
    <3>1. /\ OnCard(i) /\ OnCard(j)
          /\ Parsed(card.dir)[i].first = card.dir[i].first
          /\ Parsed(card.dir)[j].first = card.dir[j].first
      BY <2>3, <2>5 DEF OnCard
    <3>2. /\ Named(i) /\ Named(j)
          /\ Inode[i].first = card.dir[i].first /\ Inode[j].first = card.dir[j].first
      BY <3>1 DEF Clean, Titles, OnCard, Named
    <3> QED BY <2>5, <3>1, <3>2 DEF Clean, Unshared, Trusted
  <2> QED BY <2>4, <2>5 DEF Apart
<1> QED BY <1>1, <1>2

(* No two files have one cluster and no file's cluster is free, whenever   *)
(* the power did not fail during a sync and the first FAT block was never  *)
(* full.                                                                   *)
THEOREM NoCrossLinkHolds ==
    ASSUME \A c \in Cards : OneClusterEach(c)
    PROVE  Spec => []NoCrossLink
BY CleanHolds, Uncrossed, PTL
============================================================================
