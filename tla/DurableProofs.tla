--------------------------- MODULE DurableProofs ---------------------------
(***************************************************************************)
(* Proof that module Fat32, on a card that satisfies OneClusterEach,       *)
(* implements DurableFiles.                                                *)
(***************************************************************************)
EXTENDS Fat32Proofs, SequenceTheorems

(***************************************************************************)
(* What survives.                                                          *)
(***************************************************************************)
Sound == ~stray /\ ~far /\ pc # "lost"
Content(node) == IF node.data[0].cached THEN node.data[0].bytes ELSE CardBytes(BlkId(node.first))
Sizes == \A i \in Slots : /\ Named(i) => Inode[i].size <= BLOCK_SIZE
                          /\ OnCard(i) => card.dir[i].size <= Inode[i].size
Kept(n, text) == \E i \in Slots :
    /\ card.dir[i].name = n /\ Len(text) <= card.dir[i].size
    /\ \A k \in 1 .. Len(text) :
         text[k] = Content(Inode[i])[k] /\ text[k] = CardBytes(BlkId(card.dir[i].first))[k]
SafeKept == \A n \in Names :
    /\ safe[n] \in [exists : BOOLEAN, text : Seq(Int)]
    /\ IF safe[n].exists THEN Kept(n, safe[n].text) ELSE safe[n].text = <<>>
Survives == Sound => Sizes /\ SafeKept

(***************************************************************************)
(* What programs find under a name.                                        *)
(***************************************************************************)
Gone == [exists |-> FALSE, text |-> <<>>]
Text(node) == SubSeq(Content(node), 1, Min({node.size, BLOCK_SIZE}))
Found(node) == [exists |-> TRUE, text |-> Text(node)]

LEMMA Lookup ==
    /\ Files(Inode) = [n \in Names |-> Files(Inode)[n]]
    /\ \A n \in Names : (\A j \in Slots : Inode[j].name # n) => Files(Inode)[n] = Gone
    /\ \A n \in Names, i \in Slots :
         Inode[i].name = n /\ (\A j \in Slots : Inode[j].name = n => j = i) =>
           Files(Inode)[n] = Found(Inode[i])
<1>1. Files(Inode) = [n \in Names |-> Files(Inode)[n]]
  BY DEF Files
<1>2. ASSUME NEW n \in Names, \A j \in Slots : Inode[j].name # n
      PROVE  Files(Inode)[n] = Gone
  <2>1. {i \in Slots : Inode[i].name = n} = {}
    BY <1>2
  <2> QED BY <2>1 DEF Files, Gone
<1>3. ASSUME NEW n \in Names, NEW i \in Slots, Inode[i].name = n,
             \A j \in Slots : Inode[j].name = n => j = i
      PROVE  Files(Inode)[n] = Found(Inode[i])
  <2> DEFINE T == {j \in Slots : Inode[j].name = n}
  <2>1. T = {i} /\ T # {}
    BY <1>3
  <2>2. Min({i}) = i
    BY MinOne, Constants
  <2>3. Files(Inode)[n] =
          IF T = {} THEN Gone
          ELSE [exists |-> TRUE,
                text |-> SubSeq(IF Inode[Min(T)].data[0].cached THEN Inode[Min(T)].data[0].bytes
                                ELSE CardBytes(BlkId(Inode[Min(T)].first)),
                                1, Min({Inode[Min(T)].size, BLOCK_SIZE}))]
    BY DEF Files, Gone
  <2> HIDE DEF T
  <2> QED BY <2>1, <2>2, <2>3 DEF Found, Text, Content
<1> QED BY <1>1, <1>2, <1>3

LEMMA TextFacts ==
    ASSUME Types, NEW node \in Node, node.size <= BLOCK_SIZE,
           node.data[0].cached => node.data[0].bytes \in Bytes
    PROVE  /\ Content(node) \in Bytes
           /\ Text(node) \in Seq(Int) /\ Len(Text(node)) = node.size
           /\ \A k \in 1 .. node.size : Text(node)[k] = Content(node)[k]
<1>1. Content(node) \in Bytes
  <2>1. node.first \in Nat
    BY DEF Node
  <2> QED BY <2>1, BlkIdFacts, CardBytesType DEF Content
<1> DEFINE m == node.size
           b == Content(node)
<1>2. m \in Nat /\ BLOCK_SIZE \in Nat
  BY Constants DEF Node
<1>3. Min({m, BLOCK_SIZE}) = m
  <2>1. {m, BLOCK_SIZE} \in SUBSET Nat
    BY <1>2
  <2> DEFINE x == Min({m, BLOCK_SIZE})
  <2>2. x \in {m, BLOCK_SIZE} /\ x <= m /\ x <= BLOCK_SIZE
    BY <2>1, MinIn
  <2> HIDE DEF x
  <2> QED BY <1>2, <2>2 DEF x
<1>4. \A i \in 1 .. m : b[i] \in Int
  <2>1. 1 .. m \subseteq 1 .. BLOCK_SIZE
    BY <1>2
  <2> QED BY <1>1, <2>1 DEF Bytes
<1>5. Text(node) = SubSeq(b, 1, m)
  BY <1>3 DEF Text
<1> HIDE DEF m, b
<1>6. /\ SubSeq(b, 1, m) \in Seq(Int) /\ Len(SubSeq(b, 1, m)) = IF 1 <= m THEN m - 1 + 1 ELSE 0
      /\ \A i \in 1 .. (m - 1 + 1) : SubSeq(b, 1, m)[i] = b[1 + i - 1]
  BY <1>2, <1>4, SubSeqProperties
<1>7. Len(SubSeq(b, 1, m)) = m /\ \A i \in 1 .. m : SubSeq(b, 1, m)[i] = b[i]
  <2>1. m - 1 + 1 = m /\ \A i \in 1 .. m : 1 + i - 1 = i
    BY <1>2
  <2>2. (IF 1 <= m THEN m - 1 + 1 ELSE 0) = m
    BY <1>2
  <2> QED BY <1>6, <2>1, <2>2
<1> QED BY <1>1, <1>5, <1>6, <1>7 DEF m, b

(* Every name in memory is one file's, and its text is as long as its size. *)
LEMMA Present ==
    Lists /\ Clean /\ Sizes =>
    /\ \A n \in Names : (\A j \in Slots : Inode[j].name # n) => Files(Inode)[n] = Gone
    /\ \A i \in Slots : Inode[i].name \in Names =>
         /\ Named(i) /\ Files(Inode)[Inode[i].name] = Found(Inode[i])
         /\ Content(Inode[i]) \in Bytes /\ Inode[i].size \in Nat /\ Inode[i].size <= BLOCK_SIZE
         /\ Text(Inode[i]) \in Seq(Int) /\ Len(Text(Inode[i])) = Inode[i].size
         /\ \A k \in 1 .. Inode[i].size : Text(Inode[i])[k] = Content(Inode[i])[k]
<1> SUFFICES ASSUME Lists, Clean, Sizes, NEW i \in Slots, Inode[i].name \in Names
             PROVE  /\ Named(i) /\ Files(Inode)[Inode[i].name] = Found(Inode[i])
                    /\ Content(Inode[i]) \in Bytes /\ Inode[i].size \in Nat
                    /\ Inode[i].size <= BLOCK_SIZE
                    /\ Text(Inode[i]) \in Seq(Int) /\ Len(Text(Inode[i])) = Inode[i].size
                    /\ \A k \in 1 .. Inode[i].size : Text(Inode[i])[k] = Content(Inode[i])[k]
  BY Lookup
<1>1. Named(i)
  BY CallAssumption DEF Named
<1>2. \A j \in Slots : Inode[j].name = Inode[i].name => j = i
  BY <1>1 DEF Clean, Titles
<1>3. Files(Inode)[Inode[i].name] = Found(Inode[i])
  BY <1>2, Lookup
<1>4. Types /\ Nodes
  BY DEF Lists
<1>5. Inode[i] \in Node /\ Inode[i].data = inode[i].data
  BY <1>4, DirFacts
<1>6. Inode[i].data[0].cached => Inode[i].data[0].bytes \in Bytes
  BY <1>4, <1>5, Constants DEF Nodes, Filled
<1>7. Inode[i].size \in Nat /\ Inode[i].size <= BLOCK_SIZE
  BY <1>1, <1>5 DEF Sizes, Node
<1> QED BY <1>1, <1>3, <1>4, <1>5, <1>6, <1>7, TextFacts

LEMMA LookupAfter ==
    /\ Files(Inode)' = [n \in Names |-> Files(Inode)'[n]]
    /\ \A n \in Names : (\A j \in Slots : Inode'[j].name # n) => Files(Inode)'[n] = Gone
    /\ \A n \in Names, i \in Slots :
         Inode'[i].name = n /\ (\A j \in Slots : Inode'[j].name = n => j = i) =>
           Files(Inode)'[n] = Found(Inode[i])'
<1>1. (/\ Files(Inode) = [n \in Names |-> Files(Inode)[n]]
       /\ \A n \in Names : (\A j \in Slots : Inode[j].name # n) => Files(Inode)[n] = Gone
       /\ \A n \in Names, i \in Slots :
            Inode[i].name = n /\ (\A j \in Slots : Inode[j].name = n => j = i) =>
              Files(Inode)[n] = Found(Inode[i]))'
  BY Lookup, PTL
<1> QED BY <1>1 DEF Gone

(* A step that leaves the file of a name. *)
LEMMA SameFile ==
    ASSUME Lists, Clean, NEW n \in Names,
           \A i \in Slots : Inode'[i].name = n <=> Inode[i].name = n,
           \A i \in Slots : Inode[i].name = n =>
             Inode'[i].size = Inode[i].size /\ Content(Inode[i])' = Content(Inode[i])
    PROVE  Files(Inode)'[n] = Files(Inode)[n]
<1>1. CASE \A j \in Slots : Inode[j].name # n
  BY <1>1, Lookup, LookupAfter
<1>2. CASE \E j \in Slots : Inode[j].name = n
  <2>1. PICK i \in Slots : Inode[i].name = n
    BY <1>2
  <2>2. Named(i)
    BY <2>1, CallAssumption DEF Named
  <2>3. \A j \in Slots : Inode[j].name = n => j = i
    BY <2>1, <2>2 DEF Clean, Titles
  <2>4. Files(Inode)[n] = Found(Inode[i])
    BY <2>1, <2>3, Lookup
  <2>5. Files(Inode)'[n] = Found(Inode[i])'
    <3>1. Inode'[i].name = n /\ \A j \in Slots : Inode'[j].name = n => j = i
      BY <2>1, <2>3
    <3> QED BY <3>1, LookupAfter
  <2>6. Found(Inode[i])' = Found(Inode[i])
    BY <2>1 DEF Found, Text
  <2> QED BY <2>4, <2>5, <2>6
<1> QED BY <1>1, <1>2

(* Steps that leave every name, size and content. *)
LEMMA SameFiles ==
    ASSUME Lists, Clean,
           \A i \in Slots : Inode'[i].name = Inode[i].name /\ Inode'[i].size = Inode[i].size,
           \A i \in Slots : Named(i) => Content(Inode[i])' = Content(Inode[i])
    PROVE  Files(Inode)' = Files(Inode)
<1>1. ASSUME NEW n \in Names
      PROVE  Files(Inode)'[n] = Files(Inode)[n]
  <2>1. \A i \in Slots : Inode[i].name = n => Named(i)
    BY CallAssumption DEF Named
  <2> QED BY <2>1, SameFile
<1> QED BY <1>1, Lookup, LookupAfter

LEMMA PresentAfter ==
    ASSUME Lists', Clean', Sizes', NEW l \in Slots, Inode'[l].name \in Names
    PROVE  /\ Files(Inode)'[Inode'[l].name] = Found(Inode[l])'
           /\ Content(Inode[l])' \in Bytes /\ Inode'[l].size \in Nat
           /\ Text(Inode[l])' \in Seq(Int) /\ Len(Text(Inode[l])') = Inode'[l].size
           /\ \A k \in 1 .. Inode'[l].size : Text(Inode[l])'[k] = Content(Inode[l])'[k]
<1>1. (Lists /\ Clean /\ Sizes =>
    /\ \A n \in Names : (\A j \in Slots : Inode[j].name # n) => Files(Inode)[n] = Gone
    /\ \A i \in Slots : Inode[i].name \in Names =>
         /\ Named(i) /\ Files(Inode)[Inode[i].name] = Found(Inode[i])
         /\ Content(Inode[i]) \in Bytes /\ Inode[i].size \in Nat /\ Inode[i].size <= BLOCK_SIZE
         /\ Text(Inode[i]) \in Seq(Int) /\ Len(Text(Inode[i])) = Inode[i].size
         /\ \A k \in 1 .. Inode[i].size : Text(Inode[i])[k] = Content(Inode[i])[k])'
  BY Present, PTL
<1> QED BY <1>1 DEF Bytes

(* A store changes no file's content. *)
LEMMA StoreContent ==
    ASSUME Lists, Clean, Trusted, SyncStep \/ SyncRetry
    PROVE  \A i \in Slots : Named(i) =>
             /\ Content(Inode[i])' = Content(Inode[i])
             /\ At(card'.data, BlkId(Inode[i].first)) \in
                  {At(card.data, BlkId(Inode[i].first)), Content(Inode[i])}
<1>1. /\ \A i \in Slots :
           /\ Inode'[i].name = Inode[i].name /\ Inode'[i].first = Inode[i].first
           /\ \A k \in Ids : /\ Inode'[i].data[k].cached <=> Inode[i].data[k].cached
                             /\ Inode'[i].data[k].bytes = Inode[i].data[k].bytes
      /\ dirty # <<>> /\ Placed(Head(dirty)) /\ card' = Stored(Head(dirty))
  BY StoreViews
<1>2. /\ \A node : Content(node) = IF node.data[0].cached THEN node.data[0].bytes
                                   ELSE At(card.data, BlkId(node.first))
      /\ \A i \in Slots : Content(Inode[i])' =
           IF Inode'[i].data[0].cached THEN Inode'[i].data[0].bytes
           ELSE At(card'.data, BlkId(Inode'[i].first))
  BY DEF Content, CardBytes, At
<1>3. 0 \in Ids
  BY Constants
<1>4. CASE card'.data = card.data
  BY <1>1, <1>2, <1>3, <1>4
<1>5. ASSUME NEW j \in Slots, NEW k \in Ids, Head(dirty) = FileE(j, k), NEW i \in Slots, Named(i)
      PROVE  /\ Content(Inode[i])' = Content(Inode[i])
             /\ At(card'.data, BlkId(Inode[i].first)) \in
                  {At(card.data, BlkId(Inode[i].first)), Content(Inode[i])}
  <2>1. /\ Named(j) /\ Inode[j].data[0].cached
        /\ \A l \in Slots : Named(l) => ClusterAt(BlkId(Inode[l].first)) = Inode[l].first
        /\ At(card'.data, BlkId(Inode[j].first)) = Inode[j].data[0].bytes
        /\ \A x : ~IsData(x) \/ ClusterAt(x) # Inode[j].first =>
             At(card'.data, x) = At(card.data, x)
    BY <1>1, <1>5, StoredFile
  <2>2. CASE i = j
    BY <1>1, <1>2, <1>3, <2>1, <2>2
  <2>3. CASE i # j
    <3>1. Inode[i].first # Inode[j].first
      BY <1>5, <2>1, <2>3 DEF Clean, Unshared
    <3>2. At(card'.data, BlkId(Inode[i].first)) = At(card.data, BlkId(Inode[i].first))
      BY <1>5, <2>1, <3>1
    <3> QED BY <1>1, <1>2, <1>3, <3>2
  <2> QED BY <2>2, <2>3
<1>6. CASE Head(dirty) = DirE \/ \E f \in Fats : Head(dirty) = FatE(f)
  BY <1>1, <1>4, <1>6, StoredAt
<1>7. CASE \E j \in Slots, k \in Ids : Head(dirty) = FileE(j, k)
  BY <1>5, <1>7
<1>8. Head(dirty) \in Blocks
  BY <1>1, StoredAt
<1> QED BY <1>6, <1>7, <1>8, BlockKinds

(* Within a file a read finds its content, and leaves it. *)
LEMMA ReadContent ==
    ASSUME Lists, Clean, Sizes, NEW h \in Handles, NEW k \in Lens, Read(h, k),
           ~(hnd[h].pos > inode[hnd[h].slot].size)
    PROVE  LET i == hnd[h].slot
               q == hnd[h].pos
               m == Min({k, inode[i].size - q})
           IN /\ i \in Slots /\ q \in Nat /\ m \in Nat /\ q + m <= inode[i].size
              /\ m = k \/ q + m = inode[i].size
              /\ m <= k
              /\ hnd[h] # NoHandle /\ hnd' = [hnd EXCEPT ![h].pos = q + m]
              /\ got' = [j \in 1 .. m |-> Content(Inode[i])[q + j]]
              /\ \A j \in Slots : Content(Inode[j])' = Content(Inode[j])
<1> DEFINE i == hnd[h].slot
           q == hnd[h].pos
           old == inode[i]
           m == Min({k, old.size - q})
           R == BlocksRead(q, m)
           missing == {b \in R : ~old.data[b].cached}
           P == missing = {}
           data == Fetched(i, P)
           byte(x) ==
             LET b == x \div BLOCK_SIZE
                 from == IF P \/ b < Min(missing) THEN old.data ELSE data
             IN IF from[b].cached THEN from[b].bytes[(x % BLOCK_SIZE) + 1] ELSE Junk
<1>1. /\ hnd[h] # NoHandle
      /\ inode' = DataPut(inode, i, data)
      /\ got' = [j \in 1 .. m |-> byte(q + j - 1)]
      /\ hnd' = [hnd EXCEPT ![h].pos = q + m]
      /\ card' = card /\ dir' = dir
  BY DEF Read, Count, Fetched, DataPut
<1>2. i \in Slots /\ q \in Nat /\ k \in Nat /\ dir.cached /\ Inode = inode /\ inode[i].name \in Names
  <2>1. i \in Slots /\ q \in Nat /\ dir.cached /\ inode[i].name \in Names
    BY <1>1 DEF Lists, Types, Nodes, Handled
  <2> QED BY <2>1, CallAssumption DEF Inode
<1>3. old \in Node /\ old.size \in Nat /\ old.size <= BLOCK_SIZE /\ BLOCK_SIZE \in Nat \ {0}
  <2>1. old \in Node
    BY <1>2 DEF Lists, Types
  <2>2. Named(i)
    BY <1>2, CallAssumption DEF Named
  <2> QED BY <1>2, <2>1, <2>2, Constants DEF Sizes, Node
<1>4. q <= old.size
  BY <1>2, <1>3
<1> HIDE DEF i, old, q
<1>5. m \in Nat /\ q + m <= old.size /\ (m = k \/ q + m = old.size) /\ m <= k
  <2> DEFINE d == old.size - q
             x == Min({k, d})
  <2>1. d \in Nat
    BY <1>2, <1>3, <1>4
  <2>2. x \in {k, d} /\ x <= k /\ x <= d
    <3> HIDE DEF d
    <3>1. {k, d} \in SUBSET Nat
      BY <1>2, <2>1
    <3> QED BY <3>1, MinIn
  <2> HIDE DEF x
  <2>3. x \in Nat /\ q + x <= old.size /\ (x = k \/ q + x = old.size) /\ x <= k
    BY <1>2, <1>3, <1>4, <2>1, <2>2
  <2> QED BY <2>3 DEF x
<1> HIDE DEF m
<1>6. \A x \in q .. (q + m - 1) : x \div BLOCK_SIZE = 0 /\ x % BLOCK_SIZE = x /\ x \in Nat
  BY <1>2, <1>3, <1>5
<1>7. R \subseteq {0}
  BY <1>6 DEF BlocksRead
<1> HIDE DEF R
<1>8. P \/ (~old.data[0].cached /\ missing = {0})
  BY <1>7
<1> HIDE DEF missing
<1>9. old.data \in [Ids -> DataBlock] /\ 0 \in Ids /\ P \in BOOLEAN
  BY <1>3, Constants DEF Node
<1>10. /\ P => data[0] = old.data[0]
       /\ ~P => ~old.data[0].cached /\ data[0].cached /\ data[0].bytes = At(card.data, BlkId(old.first))
  <2>1. P => data[0] = old.data[0]
    BY DEF Fetched, old
  <2>2. ASSUME ~P
        PROVE  ~old.data[0].cached /\ data[0].cached /\ data[0].bytes = At(card.data, BlkId(old.first))
    <3>1. ~P => /\ data[0].cached /\ data[0].bytes = CardBytes(BlkId(inode[i].first))
      <4> HIDE DEF P
      <4> QED BY <1>2, <1>9, BlocksFacts
    <3> QED BY <1>8, <2>2, <3>1 DEF CardBytes, At, old
  <2> QED BY <2>1, <2>2
<1>11. \A j \in Slots :
         /\ Content(Inode[j]) = IF Inode[j].data[0].cached THEN Inode[j].data[0].bytes
                                ELSE At(card.data, BlkId(Inode[j].first))
         /\ Content(Inode[j])' = IF Inode'[j].data[0].cached THEN Inode'[j].data[0].bytes
                                 ELSE At(card'.data, BlkId(Inode'[j].first))
  BY DEF Content, CardBytes, At
<1>12. /\ Inode'[i].data = data /\ Inode'[i].first = old.first
       /\ \A j \in Slots \ {i} : Inode'[j] = Inode[j]
  <2>1. data \in [Ids -> DataBlock] /\ inode \in [Slots -> Node]
    <3> HIDE DEF P
    <3> QED BY <1>2, <1>9, BlocksFacts DEF Lists, Types
  <2> DEFINE g == DataPut(inode, i, data)
  <2> HIDE DEF data
  <2>2. g[i].data = data /\ g[i].first = inode[i].first /\ \A j \in Slots \ {i} : g[j] = inode[j]
    BY <1>2, <2>1, DataStep
  <2>3. Inode' = g
    BY <1>1, <1>2 DEF Inode
  <2> HIDE DEF g
  <2> QED BY <1>2, <2>2, <2>3 DEF old
<1>13. \A j \in Slots : Content(Inode[j])' = Content(Inode[j])
  <2> HIDE DEF data, P
  <2>1. ASSUME NEW j \in Slots PROVE Content(Inode[j])' = Content(Inode[j])
    <3>1. CASE j = i
      <4>1. Inode[j] = old
        BY <1>2, <3>1 DEF old
      <4> QED BY <1>1, <1>9, <1>10, <1>11, <1>12, <3>1, <4>1
    <3>2. CASE j # i
      BY <1>1, <1>11, <1>12, <3>2
    <3> QED BY <3>1, <3>2
  <2> QED BY <2>1
<1>14. ASSUME NEW j \in 1 .. m PROVE byte(q + j - 1) = Content(Inode[i])[q + j]
  <2> DEFINE x == q + j - 1
  <2>1. x \in q .. (q + m - 1) /\ x + 1 = q + j
    BY <1>2, <1>5
  <2> HIDE DEF x
  <2>2. x \div BLOCK_SIZE = 0 /\ x % BLOCK_SIZE = x
    BY <1>6, <2>1
  <2>3. 0 \in R
    BY <2>1, <2>2 DEF BlocksRead, R
  <2>4. P => old.data[0].cached
    BY <2>3 DEF missing
  <2>5. ~P => Min(missing) = 0
    BY <1>8, MinOne
  <2>6. Inode[i] = old /\ Content(old) = IF old.data[0].cached THEN old.data[0].bytes
                                        ELSE At(card.data, BlkId(old.first))
    BY <1>2, <1>11 DEF old
  <2>7. byte(x) = IF P THEN (IF old.data[0].cached THEN old.data[0].bytes[x + 1] ELSE Junk)
                  ELSE (IF data[0].cached THEN data[0].bytes[x + 1] ELSE Junk)
    <3>1. CASE P
      BY <2>2, <3>1
    <3>2. CASE ~P
      BY <2>2, <2>5, <3>2
    <3> QED BY <3>1, <3>2
  <2> HIDE DEF P, data, byte
  <2>8. byte(x) = Content(old)[x + 1]
    BY <1>9, <1>10, <2>4, <2>6, <2>7
  <2> QED BY <2>1, <2>6, <2>8 DEF x
<1>15. got' = [j \in 1 .. m |-> Content(Inode[i])[q + j]]
  <2> HIDE DEF byte
  <2> QED BY <1>1, <1>14
<1> QED BY <1>1, <1>2, <1>5, <1>13, <1>15 DEF i, q, old, m

(* A write keeps what lies outside of it. *)
LEMMA WriteContent ==
    ASSUME Lists, Clean, NEW h \in Handles, NEW s \in Bufs, Write(h, s)
    PROVE  LET i == hnd[h].slot
               q == hnd[h].pos
           IN \A j \in Slots :
              /\ j = i => \A k \in 1 .. BLOCK_SIZE : Content(Inode[j])'[k] =
                   IF k \in (q + 1) .. (q + Len(s)) THEN s[k - q] ELSE Content(Inode[j])[k]
              /\ j # i => Content(Inode[j])' = Content(Inode[j])
<1> DEFINE i == hnd[h].slot
           q == hnd[h].pos
           P == inode[i].data[0].cached
           data == Fetched(i, P)
<1>1. /\ i \in Slots /\ Inode = inode
      /\ Inode'[i].data[0].cached
      /\ Inode'[i].data[0].bytes = Wrote(data, q, s)
      /\ \A j \in Slots \ {i} : Inode'[j] = Inode[j]
      /\ card' = card
  BY WriteViews
<1>2. \A j \in Slots :
        /\ Content(Inode[j]) = IF Inode[j].data[0].cached THEN Inode[j].data[0].bytes
                               ELSE CardBytes(BlkId(Inode[j].first))
        /\ Content(Inode[j])' = IF Inode'[j].data[0].cached THEN Inode'[j].data[0].bytes
                                ELSE At(card'.data, BlkId(Inode'[j].first))
  BY DEF Content, CardBytes, At
<1>3. data[0].bytes = Content(Inode[i])
  <2>1. P \in BOOLEAN
    <3>1. inode[i] \in Node /\ 0 \in Ids
      BY <1>1, Constants DEF Lists, Types
    <3> QED BY <3>1 DEF Node, DataBlock
  <2>2. CASE P
    BY <1>1, <1>2, <2>2 DEF Fetched
  <2>3. CASE ~P
    <3>1. ~P => data[0].bytes = CardBytes(BlkId(inode[i].first))
      <4> HIDE DEF P
      <4> QED BY <1>1, <2>1, BlocksFacts
    <3> QED BY <1>1, <1>2, <2>3, <3>1
  <2> QED BY <2>2, <2>3
<1> HIDE DEF data
<1>4. \A k \in 1 .. BLOCK_SIZE : Wrote(data, q, s)[k] =
        IF k \in (q + 1) .. (q + Len(s)) THEN s[k - q] ELSE data[0].bytes[k]
  BY DEF Wrote
<1>5. Content(Inode[i]) = data[0].bytes
  BY <1>3
<1>6. ASSUME NEW j \in Slots
      PROVE  /\ j = i => \A k \in 1 .. BLOCK_SIZE : Content(Inode[j])'[k] =
                   IF k \in (q + 1) .. (q + Len(s)) THEN s[k - q] ELSE Content(Inode[j])[k]
             /\ j # i => Content(Inode[j])' = Content(Inode[j])
  <2>1. CASE j = i
    <3>1. Content(Inode[j])' = Wrote(data, q, s)
      BY <1>1, <1>2, <2>1
    <3>2. Content(Inode[j]) = data[0].bytes
      BY <1>5, <2>1
    <3> QED BY <1>4, <2>1, <3>1, <3>2
  <2>2. CASE j # i
    <3>1. Content(Inode[j])' = IF Inode'[j].data[0].cached THEN Inode'[j].data[0].bytes
                               ELSE At(card'.data, BlkId(Inode'[j].first))
      BY <1>2
    <3>2. Content(Inode[j]) = IF Inode[j].data[0].cached THEN Inode[j].data[0].bytes
                              ELSE At(card.data, BlkId(Inode[j].first))
      BY DEF Content, CardBytes, At
    <3> QED BY <1>1, <2>2, <3>1, <3>2
  <2> QED BY <2>1, <2>2
<1> QED BY <1>6

(* What is kept stays kept. *)
LEMMA StillKept ==
    ASSUME Types, SafeKept, safe' = safe,
           \A i \in Slots : OnCard(i) =>
             /\ card'.dir[i].name = card.dir[i].name /\ card'.dir[i].size \in Nat
             /\ card.dir[i].size <= card'.dir[i].size
             /\ \A k \in 1 .. card.dir[i].size :
                  /\ Content(Inode[i])'[k] = Content(Inode[i])[k]
                  /\ At(card'.data, BlkId(card'.dir[i].first))[k] \in
                       {At(card.data, BlkId(card.dir[i].first))[k], Content(Inode[i])[k]}
    PROVE  SafeKept'
<1> SUFFICES ASSUME NEW n \in Names
             PROVE  /\ safe'[n] \in [exists : BOOLEAN, text : Seq(Int)]
                    /\ IF safe'[n].exists THEN Kept(n, safe[n].text)' ELSE safe'[n].text = <<>>
  BY DEF SafeKept
<1> DEFINE text == safe[n].text
<1>1. safe[n] \in [exists : BOOLEAN, text : Seq(Int)]
      /\ IF safe[n].exists THEN Kept(n, text) ELSE text = <<>>
  BY DEF SafeKept
<1>2. text \in Seq(Int) /\ Len(text) \in Nat
  <2>1. text \in Seq(Int)
    BY <1>1
  <2> QED BY <2>1
<1> HIDE DEF text
<1>3. ASSUME safe[n].exists PROVE Kept(n, safe[n].text)'
  <2>1. Kept(n, text)
    BY <1>1, <1>3
  <2>2. PICK i \in Slots :
          /\ card.dir[i].name = n /\ Len(text) <= card.dir[i].size
          /\ \A k \in 1 .. Len(text) :
               text[k] = Content(Inode[i])[k] /\ text[k] = At(card.data, BlkId(card.dir[i].first))[k]
    BY <2>1 DEF Kept, CardBytes, At
  <2>3. OnCard(i) /\ card.dir[i].size \in Nat
    BY <2>2, CallAssumption DEF OnCard, Types, Entry
  <2>4. /\ card'.dir[i].name = n /\ card'.dir[i].size \in Nat
        /\ card.dir[i].size <= card'.dir[i].size
        /\ \A k \in 1 .. card.dir[i].size :
             /\ Content(Inode[i])'[k] = Content(Inode[i])[k]
             /\ At(card'.data, BlkId(card'.dir[i].first))[k] \in
                  {At(card.data, BlkId(card.dir[i].first))[k], Content(Inode[i])[k]}
    BY <2>2, <2>3
  <2>5. Len(text) <= card'.dir[i].size /\ 1 .. Len(text) \subseteq 1 .. card.dir[i].size
    BY <1>2, <2>2, <2>3, <2>4
  <2>6. ASSUME NEW k \in 1 .. Len(text)
        PROVE  /\ text[k] = Content(Inode[i])'[k]
               /\ text[k] = At(card'.data, BlkId(card'.dir[i].first))[k]
    BY <2>2, <2>4, <2>5
  <2>7. safe'[n].text = text
    BY DEF text
  <2>8. \E j \in Slots :
          /\ card'.dir[j].name = n /\ Len(text) <= card'.dir[j].size
          /\ \A k \in 1 .. Len(text) :
               /\ text[k] = Content(Inode[j])'[k]
               /\ text[k] = At(card'.data, BlkId(card'.dir[j].first))[k]
    BY <2>4, <2>5, <2>6
  <2> QED BY <2>7, <2>8 DEF Kept, CardBytes, At
<1> QED BY <1>1, <1>3 DEF text

(* When the card holds what memory does, all of it is kept. *)
LEMMA Saved ==
    Lists /\ Clean /\ Sizes /\ safe = Files(Inode)
    /\ (\A i \in Slots : Named(i) =>
          /\ card.dir[i].name = Inode[i].name /\ card.dir[i].size = Inode[i].size
          /\ Content(Inode[i]) = CardBytes(BlkId(card.dir[i].first))) => SafeKept
<1> SUFFICES ASSUME Lists, Clean, Sizes, safe = Files(Inode),
                    \A i \in Slots : Named(i) =>
                      /\ card.dir[i].name = Inode[i].name /\ card.dir[i].size = Inode[i].size
                      /\ Content(Inode[i]) = CardBytes(BlkId(card.dir[i].first)),
                    NEW n \in Names
             PROVE  /\ safe[n] \in [exists : BOOLEAN, text : Seq(Int)]
                    /\ IF safe[n].exists THEN Kept(n, safe[n].text) ELSE safe[n].text = <<>>
  BY DEF SafeKept
<1>1. CASE \A j \in Slots : Inode[j].name # n
  <2>1. safe[n] = Gone
    BY <1>1, Present
  <2>2. ~Gone.exists /\ Gone.text = <<>> /\ Gone \in [exists : BOOLEAN, text : Seq(Int)]
    BY DEF Gone
  <2> QED BY <2>1, <2>2
<1>2. CASE \E j \in Slots : Inode[j].name = n
  <2>1. PICK i \in Slots : Inode[i].name = n
    BY <1>2
  <2>2. /\ Named(i) /\ safe[n] = Found(Inode[i]) /\ Inode[i].size \in Nat
        /\ Text(Inode[i]) \in Seq(Int) /\ Len(Text(Inode[i])) = Inode[i].size
        /\ \A k \in 1 .. Inode[i].size : Text(Inode[i])[k] = Content(Inode[i])[k]
    BY <2>1, Present
  <2> DEFINE text == Text(Inode[i])
  <2>3. safe[n].exists /\ safe[n].text = text /\ safe[n] \in [exists : BOOLEAN, text : Seq(Int)]
    BY <2>2 DEF Found
  <2>4. Kept(n, text)
    <3> HIDE DEF text
    <3>1. /\ card.dir[i].name = n /\ card.dir[i].size = Inode[i].size
          /\ Content(Inode[i]) = CardBytes(BlkId(card.dir[i].first))
      BY <2>1, <2>2
    <3>2. Len(text) <= card.dir[i].size /\ \A k \in 1 .. Len(text) : text[k] = Content(Inode[i])[k]
      BY <2>2, <3>1 DEF text
    <3> QED BY <3>1, <3>2 DEF Kept
  <2> QED BY <2>3, <2>4
<1> QED BY <1>1, <1>2

LEMMA EmptySaved ==
    Empty /\ Lists /\ Clean /\ safe = Files(Inode)
    /\ (\A i \in Slots : OnCard(i) => card.dir[i].size <= BLOCK_SIZE) => Sizes /\ SafeKept
<1> SUFFICES ASSUME Empty, Lists, Clean, safe = Files(Inode),
                    \A i \in Slots : OnCard(i) => card.dir[i].size <= BLOCK_SIZE
             PROVE  Sizes /\ SafeKept
  OBVIOUS
<1>1. card.dir \in [Slots -> Entry] /\ Tidy(card.dir) /\ Inode = Parsed(card.dir)
  BY EmptyViews DEF Lists, Types, Clean, Directory
<1>2. \A i \in Slots :
        /\ Inode[i].name = card.dir[i].name /\ Inode[i].size = card.dir[i].size
        /\ Inode[i].first = card.dir[i].first /\ Inode[i].data = NoData
        /\ card.dir[i].size \in Nat
  BY <1>1, ParsedTidy DEF Entry
<1>3. Sizes
  <2>1. ASSUME NEW i \in Slots
        PROVE  /\ Named(i) => Inode[i].size <= BLOCK_SIZE
               /\ card.dir[i].size <= Inode[i].size
    <3>1. card.dir[i].size \in Nat /\ Inode[i].size = card.dir[i].size
      BY <1>2
    <3>2. Named(i) => card.dir[i].size <= BLOCK_SIZE
      BY <1>2 DEF Named, OnCard
    <3> QED BY <3>1, <3>2
  <2> QED BY <2>1 DEF Sizes
<1>4. \A i \in Slots : Content(Inode[i]) = CardBytes(BlkId(card.dir[i].first))
  BY <1>2, NoNodes, Constants DEF Content
<1> QED BY <1>2, <1>3, <1>4, Saved

(* The promise, once void, stays so. *)
LEMMA Monotone ==
    ASSUME Lists, Phase, [Next]_vars
    PROVE  (stray => stray') /\ (far => far') /\ (pc = "lost" => pc' = "lost")
<1>1. CASE \/ SyncStart \/ SyncDone \/ Astray \/ UNCHANGED vars
           \/ \E n \in Names : CreateFails(n)
           \/ \E h \in Handles : \/ \E n \in Names : Open(h, n)
                                 \/ Close(h)
                                 \/ \E q \in Offsets : Seek(h, q)
  BY <1>1, QuietSteps DEF Quiet
<1>2. CASE SyncStep \/ SyncRetry
  BY <1>2, StoreViews
<1>3. CASE PowerCut
  BY <1>3 DEF PowerCut
<1>4. ASSUME NEW h \in Handles, NEW n \in Names, Create(h, n)
      PROVE  (stray => stray') /\ (far => far') /\ pc = "run"
  BY <1>4 DEF Create, Calling
<1>5. ASSUME NEW h \in Handles, NEW s \in Bufs, Write(h, s)
      PROVE  (stray => stray') /\ (far => far') /\ pc = "run"
  BY <1>5 DEF Write, Calling
<1>6. ASSUME NEW h \in Handles, NEW k \in Lens, Read(h, k)
      PROVE  (stray => stray') /\ (far => far') /\ pc = "run"
  BY <1>6 DEF Read, Calling
<1> QED BY <1>1, <1>2, <1>3, <1>4, <1>5, <1>6 DEF Next, Astray

LEMMA SoundBack ==
    ASSUME Lists, Phase, [Next]_vars, Sound'
    PROVE  Sound /\ Trusted
BY Monotone DEF Sound, Trusted

(* Contents of files that are on the card, when it is not written. *)
LEMMA ContentHere ==
    ASSUME card' = card, NEW i \in Slots, Inode'[i] = Inode[i]
    PROVE  Content(Inode[i])' = Content(Inode[i])
BY DEF Content, CardBytes

LEMMA QuietSurvives ==
    ASSUME Lists, Clean, Trusted, Sizes, SafeKept, Quiet, SyncDone \/ safe' = safe,
           Lists', Clean'
    PROVE  Sizes' /\ SafeKept'
<1>1. Inode' = Inode /\ card' = card
  BY DEF Quiet, SameViews
<1>2. Sizes'
  BY <1>1 DEF Sizes, Named, OnCard
<1>3. CASE safe' = safe
  <2>1. \A i \in Slots : OnCard(i) => card.dir[i].size \in Nat
    BY DEF Lists, Types, Entry
  <2>2. \A i \in Slots : Content(Inode[i])' = Content(Inode[i])
    BY <1>1, ContentHere
  <2>3. ASSUME NEW i \in Slots, OnCard(i)
        PROVE  /\ card'.dir[i].name = card.dir[i].name /\ card'.dir[i].size \in Nat
               /\ card.dir[i].size <= card'.dir[i].size
               /\ \A k \in 1 .. card.dir[i].size :
                    /\ Content(Inode[i])'[k] = Content(Inode[i])[k]
                    /\ At(card'.data, BlkId(card'.dir[i].first))[k] =
                         At(card.data, BlkId(card.dir[i].first))[k]
    <3>1. card.dir[i].size \in Nat /\ card.dir[i].size <= card.dir[i].size
      BY <2>1, <2>3
    <3> QED BY <1>1, <2>2, <3>1
  <2> QED BY <1>2, <1>3, <2>3, StillKept DEF Lists
<1>4. CASE SyncDone
  <2>1. dirty = <<>> /\ safe' = Files(Inode)
    BY <1>4 DEF SyncDone
  <2>2. Dir.block = card.dir /\ \A i \in Slots, k \in Ids : ~Inode[i].data[k].dirty
    BY <2>1, AllClean
  <2>3. ASSUME NEW i \in Slots, Named(i)
        PROVE  /\ card.dir[i].name = Inode[i].name /\ card.dir[i].size = Inode[i].size
               /\ Content(Inode[i]) = CardBytes(BlkId(card.dir[i].first))
    <3>1. card.dir[i].name = Inode[i].name /\ card.dir[i].size = Inode[i].size
      BY <2>2 DEF Clean, Directory
    <3>2. card.dir[i].first = Inode[i].first
      BY <2>2 DEF Clean, Directory, Trusted
    <3>3. Inode[i].data[0].cached => Inode[i].data[0].bytes = CardBytes(BlkId(Inode[i].first))
      <4>1. ASSUME Inode[i].data[0].cached
            PROVE  Inode[i].data[0].bytes = CardBytes(BlkId(Inode[i].first))
        <5>1. Inode[i].data[0].bytes = CardBytes(Inode[i].data[0].id)
          BY <2>2, <4>1, Constants DEF Clean, CleanData
        <5>2. Inode[i].data[0].id = BlkId(Inode[i].first)
          BY <4>1, Constants DEF Clean, Blkids
        <5> QED BY <5>1, <5>2
      <4> QED BY <4>1
    <3> QED BY <3>1, <3>2, <3>3 DEF Content
  <2>4. Files(Inode)' = Files(Inode)
    BY <1>1 DEF Files, CardBytes
  <2>5. \A i \in Slots : Named(i)' =>
          /\ card'.dir[i].name = Inode'[i].name /\ card'.dir[i].size = Inode'[i].size
          /\ Content(Inode[i])' = CardBytes(BlkId(card.dir[i].first))'
    <3>1. \A i \in Slots : Content(Inode[i])' = Content(Inode[i])
      BY <1>1, ContentHere
    <3>2. \A i \in Slots : CardBytes(BlkId(card.dir[i].first))' = CardBytes(BlkId(card.dir[i].first))
      BY <1>1 DEF CardBytes
    <3> QED BY <1>1, <2>3, <3>1, <3>2 DEF Named
  <2>6. (Lists /\ Clean /\ Sizes /\ safe = Files(Inode)
         /\ (\A i \in Slots : Named(i) =>
               /\ card.dir[i].name = Inode[i].name /\ card.dir[i].size = Inode[i].size
               /\ Content(Inode[i]) = CardBytes(BlkId(card.dir[i].first))) => SafeKept)'
    BY Saved, PTL
  <2> QED BY <1>2, <2>1, <2>4, <2>5, <2>6
<1> QED BY <1>2, <1>3, <1>4

LEMMA PowerSurvives ==
    ASSUME Lists, Clean, Trusted, Sizes, SafeKept, PowerCut, Lists', Clean'
    PROVE  Sizes' /\ SafeKept'
<1>1. Empty' /\ card' = card /\ safe' = Files(Parsed(card.dir))
  BY DEF PowerCut, Empty
<1>2. Inode' = Parsed(card'.dir)
  <2>1. (Empty => Inode = Parsed(card.dir) /\ Dir.block = card.dir
                  /\ Tables = [f \in Fats |-> card.fat[f]])'
    BY EmptyViews, PTL
  <2> QED BY <1>1, <2>1
<1>3. safe' = Files(Inode)'
  BY <1>1, <1>2 DEF Files, CardBytes, Parsed
<1>4. \A i \in Slots : OnCard(i) => card.dir[i].size <= BLOCK_SIZE
  <2>1. ASSUME NEW i \in Slots, OnCard(i) PROVE card.dir[i].size <= BLOCK_SIZE
    <3>1. Named(i)
      BY <2>1 DEF Clean, Titles, OnCard, Named
    <3>2. card.dir[i].size <= Inode[i].size /\ Inode[i].size <= BLOCK_SIZE
      BY <2>1, <3>1 DEF Sizes
    <3>3. card.dir[i].size \in Nat /\ Inode[i].size \in Nat /\ BLOCK_SIZE \in Nat
      <4>1. card.dir[i] \in Entry /\ Inode[i] \in Node
        BY DirFacts DEF Lists, Types
      <4> QED BY <4>1, Constants DEF Entry, Node
    <3> QED BY <3>2, <3>3
  <2> QED BY <2>1
<1>5. \A i \in Slots : OnCard(i)' => card'.dir[i].size <= BLOCK_SIZE
  BY <1>1, <1>4 DEF OnCard
<1>6. (Empty /\ Lists /\ Clean /\ safe = Files(Inode)
       /\ (\A i \in Slots : OnCard(i) => card.dir[i].size <= BLOCK_SIZE) => Sizes /\ SafeKept)'
  BY EmptySaved, PTL
<1> QED BY <1>1, <1>3, <1>5, <1>6

LEMMA CreateSurvives ==
    ASSUME Lists, Clean, Sizes, SafeKept, NEW h \in Handles, NEW n \in Names, Create(h, n)
    PROVE  Sizes' /\ SafeKept'
<1> DEFINE i == Min(FreeSlots)
<1>1. /\ i \in Slots /\ Inode[i].name = ""
      /\ Inode'[i] = [name |-> n, size |-> 0, first |-> FreeCluster, data |-> NoData]
      /\ \A j \in Slots \ {i} : Inode'[j] = Inode[j]
      /\ card' = card /\ safe' = safe
  BY CreateViews DEF Clean
<1> HIDE DEF i
<1>2. ~OnCard(i)
  BY <1>1 DEF Clean, Titles, OnCard
<1>3. Inode'[i].size = 0
  <2> DEFINE c == FreeCluster
             a == Inode'[i]
  <2>1. a = [name |-> n, size |-> 0, first |-> c, data |-> NoData]
    BY <1>1
  <2> HIDE DEF a
  <2>2. a.size = 0
    BY <2>1
  <2> QED BY <2>2 DEF a
<1>4. Sizes'
  <2>1. ASSUME NEW j \in Slots
        PROVE  /\ Inode'[j].name # "" => Inode'[j].size <= BLOCK_SIZE
               /\ card'.dir[j].name # "" => card'.dir[j].size <= Inode'[j].size
    <3>1. CASE j = i
      <4>1. 0 <= BLOCK_SIZE
        BY Constants
      <4>2. ~(card'.dir[j].name # "")
        BY <1>1, <1>2, <3>1 DEF OnCard
      <4> QED BY <1>3, <3>1, <4>1, <4>2
    <3>2. CASE j # i
      <4>1. Inode'[j] = Inode[j]
        BY <1>1, <3>2
      <4> QED BY <1>1, <4>1 DEF Sizes, Named, OnCard
    <3> QED BY <3>1, <3>2
  <2> QED BY <2>1 DEF Sizes, Named, OnCard
<1>5. ASSUME NEW j \in Slots, OnCard(j)
      PROVE  /\ card'.dir[j].name = card.dir[j].name /\ card'.dir[j].size \in Nat
             /\ card.dir[j].size <= card'.dir[j].size
             /\ Content(Inode[j])' = Content(Inode[j])
  <2>1. card.dir[j].size \in Nat /\ card.dir[j].size <= card.dir[j].size
    BY DEF Lists, Types, Entry
  <2>2. Content(Inode[j])' = Content(Inode[j])
    BY <1>1, <1>2, <1>5, ContentHere
  <2> QED BY <1>1, <2>1, <2>2
<1> QED BY <1>1, <1>4, <1>5, StillKept DEF Lists

LEMMA WriteSurvives ==
    ASSUME Lists, Clean, Sizes, SafeKept, NEW h \in Handles, NEW s \in Bufs, Write(h, s), ~stray'
    PROVE  Sizes' /\ SafeKept'
<1> DEFINE i == hnd[h].slot
           q == hnd[h].pos
<1>1. /\ i \in Slots /\ Inode = inode /\ q \in Nat /\ Len(s) \in Nat /\ q + Len(s) <= BLOCK_SIZE
      /\ Inode'[i].name = Inode[i].name /\ Inode'[i].size = Inode[i].size + Len(s)
      /\ \A j \in Slots \ {i} : Inode'[j] = Inode[j]
      /\ card' = card /\ safe' = safe /\ stray' = (stray \/ q # inode[i].size \/ ~IsData(BlkId(inode[i].first)))
  BY WriteViews
<1>2. \A j \in Slots :
        /\ j = i => \A k \in 1 .. BLOCK_SIZE : Content(Inode[j])'[k] =
             IF k \in (q + 1) .. (q + Len(s)) THEN s[k - q] ELSE Content(Inode[j])[k]
        /\ j # i => Content(Inode[j])' = Content(Inode[j])
  BY WriteContent
<1> HIDE DEF i, q
<1>3. Inode[i].size = q
  BY <1>1
<1>4. Sizes'
  <2>1. ASSUME NEW j \in Slots
        PROVE  /\ Inode'[j].name # "" => Inode'[j].size <= BLOCK_SIZE
               /\ card'.dir[j].name # "" => card'.dir[j].size <= Inode'[j].size
    <3>1. CASE j = i
      <4>1. card.dir[j].name # "" => card.dir[j].size <= q
        BY <1>3, <3>1 DEF Sizes, OnCard
      <4>2. card.dir[j].size \in Nat
        BY DEF Lists, Types, Entry
      <4>3. card.dir[j].name # "" => card.dir[j].size <= q + Len(s)
        <5> DEFINE y == card.dir[j].size
                   z == Len(s)
        <5>1. y \in Nat /\ z \in Nat /\ q \in Nat
          BY <1>1, <4>2
        <5> HIDE DEF y, z
        <5>2. y <= q => y <= q + z
          BY <5>1
        <5> QED BY <4>1, <5>2 DEF y, z
      <4> QED BY <1>1, <1>3, <3>1, <4>3
    <3>2. CASE j # i
      <4>1. Inode'[j] = Inode[j]
        BY <1>1, <3>2
      <4> QED BY <1>1, <4>1 DEF Sizes, Named, OnCard
    <3> QED BY <3>1, <3>2
  <2> QED BY <2>1 DEF Sizes, Named, OnCard
<1>5. ASSUME NEW j \in Slots, OnCard(j)
      PROVE  /\ card'.dir[j].name = card.dir[j].name /\ card'.dir[j].size \in Nat
             /\ card.dir[j].size <= card'.dir[j].size
             /\ \A k \in 1 .. card.dir[j].size :
                  /\ Content(Inode[j])'[k] = Content(Inode[j])[k]
                  /\ At(card'.data, BlkId(card'.dir[j].first))[k] =
                       At(card.data, BlkId(card.dir[j].first))[k]
  <2>1. card.dir[j].size \in Nat
    BY DEF Lists, Types, Entry
  <2>2. ASSUME NEW k \in 1 .. card.dir[j].size
        PROVE  Content(Inode[j])'[k] = Content(Inode[j])[k]
    <3>1. CASE j = i
      <4>1. card.dir[j].size <= q
        BY <1>3, <1>5, <3>1 DEF Sizes
      <4>2. k \in 1 .. BLOCK_SIZE /\ k \notin (q + 1) .. (q + Len(s))
        BY <1>1, <2>1, <4>1, Constants
      <4> QED BY <1>2, <3>1, <4>2
    <3>2. CASE j # i
      BY <1>2, <3>2
    <3> QED BY <3>1, <3>2
  <2>3. card.dir[j].size <= card.dir[j].size
    BY <2>1
  <2> QED BY <1>1, <2>1, <2>2, <2>3
<1> QED BY <1>1, <1>4, <1>5, StillKept DEF Lists

LEMMA ReadSurvives ==
    ASSUME Lists, Clean, Sizes, SafeKept, NEW h \in Handles, NEW k \in Lens, Read(h, k), ~stray'
    PROVE  Sizes' /\ SafeKept'
<1> DEFINE i == hnd[h].slot
<1>1. PICK P \in BOOLEAN :
           /\ i \in Slots
           /\ Inode'[i].name = Inode[i].name /\ Inode'[i].size = Inode[i].size
           /\ \A j \in Slots \ {i} : Inode'[j] = Inode[j]
           /\ card' = card /\ safe' = safe
  BY ReadViews
<1>2. \A j \in Slots : Content(Inode[j])' = Content(Inode[j])
  <2>1. ~(hnd[h].pos > inode[hnd[h].slot].size)
    BY DEF Read
  <2> QED BY <2>1, ReadContent
<1> HIDE DEF i
<1>3. \A j \in Slots : Inode'[j].name = Inode[j].name /\ Inode'[j].size = Inode[j].size
  BY <1>1
<1>4. Sizes'
  BY <1>1, <1>3 DEF Sizes, Named, OnCard
<1>5. \A j \in Slots : card.dir[j].size \in Nat /\ card.dir[j].size <= card.dir[j].size
  BY DEF Lists, Types, Entry
<1> QED BY <1>1, <1>2, <1>4, <1>5, StillKept DEF Lists

LEMMA StoreSurvives ==
    ASSUME Lists, Clean, Trusted, Sizes, SafeKept, SyncStep \/ SyncRetry
    PROVE  Sizes' /\ SafeKept'
<1>1. /\ \A i \in Slots :
           /\ Inode'[i].name = Inode[i].name /\ Inode'[i].size = Inode[i].size
           /\ Inode'[i].first = Inode[i].first
      /\ dirty # <<>> /\ Placed(Head(dirty)) /\ card' = Stored(Head(dirty))
      /\ safe' = safe
  BY StoreViews
<1>2. \A i \in Slots : Named(i) =>
        /\ Content(Inode[i])' = Content(Inode[i])
        /\ At(card'.data, BlkId(Inode[i].first)) \in
             {At(card.data, BlkId(Inode[i].first)), Content(Inode[i])}
  BY StoreContent
<1>3. card'.dir = card.dir \/ card'.dir = Dir.block
  <2>1. CASE Head(dirty) = DirE
    <3>1. card'.dir = dir.block
      BY <1>1, <2>1, StoredAt
    <3>2. dir.cached
      <4>1. dir.dirty
        BY <1>1, <2>1, Delisting DEF Lists, Types, Listed, DirListed
      <4> QED BY <4>1 DEF Lists, Nodes, Unread
    <3> QED BY <3>1, <3>2 DEF Dir
  <2>2. CASE \E f \in Fats : Head(dirty) = FatE(f)
    BY <1>1, <2>2, StoredAt
  <2>3. CASE \E i \in Slots, k \in Ids : Head(dirty) = FileE(i, k)
    BY <1>1, <2>3, StoredAt
  <2>4. Head(dirty) \in Blocks
    BY <1>1, StoredAt
  <2> QED BY <2>1, <2>2, <2>3, <2>4, BlockKinds
<1>4. \A i \in Slots : card.dir[i].size \in Nat /\ Inode[i].size \in Nat
  <2>1. \A i \in Slots : card.dir[i] \in Entry /\ Inode[i] \in Node
    BY DirFacts DEF Lists, Types
  <2> QED BY <2>1 DEF Entry, Node
<1>5. \A i \in Slots : Dir.block[i].name = Inode[i].name /\ Dir.block[i].size = Inode[i].size
                       /\ Dir.block[i].first = Inode[i].first
  BY DEF Clean, Directory, Trusted
<1>6. ASSUME NEW i \in Slots
      PROVE  /\ Named(i) => Inode[i].size <= BLOCK_SIZE
             /\ card'.dir[i].name # "" => card'.dir[i].size <= Inode[i].size
  <2>1. CASE card'.dir = card.dir
    BY <2>1 DEF Sizes, OnCard
  <2>2. CASE card'.dir = Dir.block
    <3>1. Inode[i].size <= Inode[i].size
      BY <1>4
    <3> QED BY <1>5, <2>2, <3>1 DEF Sizes
  <2> QED BY <1>3, <2>1, <2>2
<1>7. Sizes'
  BY <1>1, <1>6 DEF Sizes, Named, OnCard
<1>8. ASSUME NEW i \in Slots, OnCard(i)
      PROVE  /\ card'.dir[i].name = card.dir[i].name /\ card'.dir[i].size \in Nat
             /\ card.dir[i].size <= card'.dir[i].size
             /\ card'.dir[i].first = card.dir[i].first /\ card.dir[i].first = Inode[i].first
             /\ Named(i)
  <2>1. /\ Inode[i].name = card.dir[i].name /\ Inode[i].first = card.dir[i].first /\ Named(i)
        /\ card.dir[i].size <= Inode[i].size
    BY <1>8 DEF Clean, Titles, Trusted, OnCard, Named, Sizes
  <2>2. CASE card'.dir = card.dir
    <3>1. card.dir[i].size <= card.dir[i].size
      BY <1>4
    <3> QED BY <1>4, <2>1, <2>2, <3>1
  <2>3. CASE card'.dir = Dir.block
    BY <1>4, <1>5, <2>1, <2>3
  <2> QED BY <1>3, <2>2, <2>3
<1>9. ASSUME NEW i \in Slots, OnCard(i)
      PROVE  /\ card'.dir[i].name = card.dir[i].name /\ card'.dir[i].size \in Nat
             /\ card.dir[i].size <= card'.dir[i].size
             /\ \A k \in 1 .. card.dir[i].size :
                  /\ Content(Inode[i])'[k] = Content(Inode[i])[k]
                  /\ At(card'.data, BlkId(card'.dir[i].first))[k] \in
                       {At(card.data, BlkId(card.dir[i].first))[k], Content(Inode[i])[k]}
  BY <1>2, <1>8, <1>9
<1> QED BY <1>1, <1>7, <1>9, StillKept DEF Lists

(* What survives a loss of power, at every step. *)
LEMMA NextSurvives ==
    ASSUME Lists, Phase, Clean, Survives, [Next]_vars, Lists', Clean'
    PROVE  Survives'
<1> SUFFICES ASSUME Sound' PROVE Sizes' /\ SafeKept'
  BY DEF Survives
<1>1. Sound /\ Trusted /\ ~stray'
  BY SoundBack DEF Sound
<1>2. Sizes /\ SafeKept
  BY <1>1 DEF Survives
<1>3. CASE SyncStep \/ SyncRetry
  BY <1>1, <1>2, <1>3, StoreSurvives
<1>4. CASE PowerCut
  BY <1>1, <1>2, <1>4, PowerSurvives
<1>5. CASE \E h \in Handles, n \in Names : Create(h, n)
  BY <1>2, <1>5, CreateSurvives
<1>6. CASE \E h \in Handles, s \in Bufs : Write(h, s)
  BY <1>1, <1>2, <1>6, WriteSurvives
<1>7. CASE \E h \in Handles, k \in Lens : Read(h, k)
  BY <1>1, <1>2, <1>7, ReadSurvives
<1>8. CASE \/ SyncStart \/ SyncDone \/ Astray \/ UNCHANGED vars
           \/ \E n \in Names : CreateFails(n)
           \/ \E h \in Handles : \/ \E n \in Names : Open(h, n)
                                 \/ Close(h)
                                 \/ \E q \in Offsets : Seek(h, q)
  <2>1. Quiet /\ (SyncDone \/ (safe' = safe /\ (pc' = "run" => pc = "run")))
    BY <1>8, QuietSteps
  <2> QED BY <1>1, <1>2, <2>1, QuietSurvives
<1> QED BY <1>3, <1>4, <1>5, <1>6, <1>7, <1>8 DEF Next, Astray

LEMMA InitSurvives ==
    ASSUME \A c \in Cards : OneClusterEach(c), Init, Lists, Clean
    PROVE  Survives
<1>1. Empty /\ safe = Files(Parsed(card.dir))
  BY DEF Init, Empty
<1>2. safe = Files(Inode)
  BY <1>1, EmptyViews
<1>3. OneClusterEach(card)
  BY DEF Init
<1>4. \A i \in Slots : OnCard(i) => card.dir[i].size <= BLOCK_SIZE
  BY <1>3 DEF OneClusterEach, OnCard
<1> QED BY <1>1, <1>2, <1>4, EmptySaved DEF Survives

LEMMA SurvivesHolds ==
    ASSUME \A c \in Cards : OneClusterEach(c)
    PROVE  Spec => [](Lists /\ Phase /\ Clean /\ Survives)
<1>1. Init /\ Lists /\ Clean => Survives
  BY InitSurvives
<1>2. Lists /\ Phase /\ Clean /\ Survives /\ [Next]_vars /\ Lists' /\ Clean' => Survives'
  BY NextSurvives
<1> QED BY <1>1, <1>2, CleanHolds, PTL DEF Spec

(***************************************************************************)
(* The promise is kept step by step.                                       *)
(***************************************************************************)
Shut == [name |-> "", pos |-> 0]
Standing == [h \in Handles |-> IF hnd[h] = NoHandle THEN Shut
                               ELSE [name |-> inode[hnd[h].slot].name, pos |-> hnd[h].pos]]
Put(f, h, p) == [f EXCEPT ![h] = p]

(* One open file moves, and no open file is renamed. *)
LEMMA Moves ==
    ASSUME Types, NEW h \in Handles, NEW r, hnd' = [hnd EXCEPT ![h] = r],
           \A g \in Handles \ {h} : hnd[g] # NoHandle =>
             inode'[hnd[g].slot].name = inode[hnd[g].slot].name
    PROVE  Standing' = Put(Standing, h, IF r = NoHandle THEN Shut
                                        ELSE [name |-> inode'[r.slot].name, pos |-> r.pos])
<1> DEFINE p == IF r = NoHandle THEN Shut ELSE [name |-> inode'[r.slot].name, pos |-> r.pos]
<1>1. /\ hnd'[h] = r /\ \A g \in Handles \ {h} : hnd'[g] = hnd[g]
  BY DEF Types
<1>2. /\ Standing' = [g \in Handles |-> Standing'[g]]
      /\ \A g \in Handles : Standing'[g] =
           IF hnd'[g] = NoHandle THEN Shut
           ELSE [name |-> inode'[hnd'[g].slot].name, pos |-> hnd'[g].pos]
  BY DEF Standing, Shut, NoHandle
<1>3. \A g \in Handles : Standing[g] =
           IF hnd[g] = NoHandle THEN Shut
           ELSE [name |-> inode[hnd[g].slot].name, pos |-> hnd[g].pos]
  BY DEF Standing
<1>4. Standing'[h] = p
  BY <1>1, <1>2
<1>5. ASSUME NEW g \in Handles \ {h} PROVE Standing'[g] = Standing[g]
  <2>1. CASE hnd[g] = NoHandle
    BY <1>1, <1>2, <1>3, <2>1
  <2>2. CASE hnd[g] # NoHandle
    <3>1. hnd'[g] = hnd[g] /\ inode'[hnd'[g].slot].name = inode[hnd[g].slot].name
      BY <1>1, <2>2
    <3>2. Standing'[g] = [name |-> inode'[hnd'[g].slot].name, pos |-> hnd'[g].pos]
      BY <1>2, <2>2, <3>1
    <3>3. Standing[g] = [name |-> inode[hnd[g].slot].name, pos |-> hnd[g].pos]
      BY <1>3, <2>2
    <3> QED BY <3>1, <3>2, <3>3
  <2> QED BY <2>1, <2>2
<1>6. Put(Standing, h, p) = [g \in Handles |-> IF g = h THEN p ELSE Standing[g]]
  <2> HIDE DEF p
  <2> QED BY DEF Put, Standing
<1> HIDE DEF p
<1>7. Standing' = [g \in Handles |-> IF g = h THEN p ELSE Standing[g]]
  <2>1. \A g \in Handles : Standing'[g] = IF g = h THEN p ELSE Standing[g]
    BY <1>4, <1>5
  <2> HIDE DEF Standing
  <2> QED BY <1>2, <2>1
<1> QED BY <1>6, <1>7 DEF p

(* No open file moves. *)
LEMMA Stays ==
    ASSUME hnd' = hnd,
           \A g \in Handles : hnd[g] # NoHandle =>
             inode'[hnd[g].slot].name = inode[hnd[g].slot].name
    PROVE  Standing' = Standing
BY DEF Standing, Shut, NoHandle

(* The files, when memory says the same and the card is as it was. *)
LEMMA QuietFiles ==
    ASSUME Inode' = Inode, card' = card
    PROVE  Files(Inode)' = Files(Inode)
BY DEF Files, CardBytes

LEMMA OpenImplements ==
    ASSUME Lists, Clean, Sizes, NEW h \in Handles, NEW n \in Names, Open(h, n)
    PROVE  Store!Open(h, n)
<1> DEFINE i == Min(Slot(n))
<1>1. i \in Slots /\ Inode[i].name = n
  <2>1. Slot(n) \in SUBSET Nat /\ Slot(n) # {}
    BY Constants DEF Slot, Open
  <2>2. i \in Slot(n)
    BY <2>1, MinIn
  <2> QED BY <2>2 DEF Slot
<1>2. /\ hnd' = [hnd EXCEPT ![h] = [slot |-> i, pos |-> 0]]
      /\ inode' = Inode /\ card' = card /\ got' = <<>> /\ safe' = safe
  BY DEF Open, Returns
<1>3. Inode' = Inode
  <2>1. Quiet
    BY QuietSteps
  <2> QED BY <2>1 DEF Quiet, SameViews
<1> HIDE DEF i
<1>4. Files(Inode)' = Files(Inode)
  BY <1>2, <1>3, QuietFiles
<1>5. Files(Inode)[n] = Found(Inode[i])
  BY <1>1, Present
<1>6. Files(Inode)[n].exists
  BY <1>5 DEF Found
<1>7. [slot |-> i, pos |-> 0] # NoHandle
  <2>1. i # 0
    BY <1>1, Constants
  <2> QED BY <2>1 DEF NoHandle
<1>8. Standing' = Put(Standing, h, [name |-> n, pos |-> 0])
  <2> DEFINE r == [slot |-> i, pos |-> 0]
  <2>1. r.slot = i /\ r.pos = 0 /\ r # NoHandle /\ hnd' = [hnd EXCEPT ![h] = r]
    BY <1>2, <1>7
  <2>2. \A g \in Handles \ {h} : hnd[g] # NoHandle =>
             inode'[hnd[g].slot].name = inode[hnd[g].slot].name
    BY <1>2, DirRead
  <2> HIDE DEF r
  <2>3. Standing' = Put(Standing, h, IF r = NoHandle THEN Shut
                                     ELSE [name |-> inode'[r.slot].name, pos |-> r.pos])
    BY <2>1, <2>2, Moves DEF Lists
  <2> QED BY <1>1, <1>2, <2>1, <2>3
<1> QED BY <1>2, <1>4, <1>6, <1>8 DEF Store!Open, Standing, Shut, Put

LEMMA CloseImplements ==
    ASSUME Lists, NEW h \in Handles, Close(h)
    PROVE  Store!Close(h)
<1>1. /\ hnd' = [hnd EXCEPT ![h] = NoHandle]
      /\ inode' = inode /\ dir' = dir /\ card' = card /\ got' = <<>> /\ safe' = safe
  BY DEF Close, Returns, memory
<1>2. Inode' = Inode
  BY <1>1 DEF Inode
<1>3. Files(Inode)' = Files(Inode)
  BY <1>1, <1>2, QuietFiles
<1>4. Standing' = Put(Standing, h, Shut)
  <2> DEFINE r == NoHandle
  <2>1. Standing' = Put(Standing, h, IF r = NoHandle THEN Shut
                                     ELSE [name |-> inode'[r.slot].name, pos |-> r.pos])
    BY <1>1, Moves DEF Lists
  <2> QED BY <2>1
<1> QED BY <1>1, <1>3, <1>4 DEF Store!Close, Store!Closed, Standing, Shut, Put

LEMMA SeekImplements ==
    ASSUME Lists, NEW h \in Handles, NEW q \in Offsets, Seek(h, q)
    PROVE  Store!Seek(h, q)
<1>1. /\ hnd' = [hnd EXCEPT ![h].pos = q] /\ hnd[h] # NoHandle
      /\ inode' = inode /\ dir' = dir /\ card' = card /\ got' = <<>> /\ safe' = safe
  BY DEF Seek, Returns, memory
<1>2. Inode' = Inode
  BY <1>1 DEF Inode
<1>3. Files(Inode)' = Files(Inode)
  BY <1>1, <1>2, QuietFiles
<1> DEFINE r == [hnd[h] EXCEPT !.pos = q]
<1>4. hnd' = [hnd EXCEPT ![h] = r] /\ r.slot = hnd[h].slot /\ r.pos = q /\ r # NoHandle
  <2>1. hnd[h] \in [slot : Slots \cup {0}, pos : Nat] /\ hnd[h].slot \in Slots
    BY <1>1 DEF Lists, Types, Nodes, Handled
  <2>2. r.slot = hnd[h].slot /\ r.pos = q
    BY <2>1
  <2>3. r # NoHandle
    BY <2>1, <2>2, Constants DEF NoHandle
  <2> QED BY <1>1, <2>2, <2>3
<1> HIDE DEF r
<1>5. Standing' = Put(Standing, h, IF r = NoHandle THEN Shut
                                   ELSE [name |-> inode'[r.slot].name, pos |-> r.pos])
  BY <1>1, <1>4, Moves DEF Lists
<1>6. Standing[h] = [name |-> inode[hnd[h].slot].name, pos |-> hnd[h].pos]
  BY <1>1 DEF Standing
<1>7. Standing' = [Standing EXCEPT ![h].pos = q]
  <2>1. [Standing[h] EXCEPT !.pos = q] = [name |-> inode[hnd[h].slot].name, pos |-> q]
    BY <1>6
  <2>2. Standing' = Put(Standing, h, [Standing[h] EXCEPT !.pos = q])
    BY <1>1, <1>4, <1>5, <2>1
  <2> QED BY <2>2 DEF Put
<1>8. Standing[h] # Shut
  <2>1. inode[hnd[h].slot].name # ""
    BY <1>1, CallAssumption DEF Lists, Nodes, Handled
  <2> DEFINE w == Standing[h]
  <2>2. w.name = inode[hnd[h].slot].name
    BY <1>6
  <2>3. Shut.name = ""
    BY DEF Shut
  <2> HIDE DEF w
  <2>4. w # Shut
    BY <2>1, <2>2, <2>3
  <2> QED BY <2>4 DEF w
<1> QED BY <1>1, <1>3, <1>7, <1>8 DEF Store!Seek, Store!Closed, Standing, Shut

LEMMA CreateImplements ==
    ASSUME Lists, Clean, Sizes, NEW h \in Handles, NEW n \in Names, Create(h, n), Lists', Clean'
    PROVE  Store!Open(h, n)
<1> DEFINE i == Min(FreeSlots)
           c == FreeCluster
           new == [name |-> n, size |-> 0, first |-> c, data |-> NoData]
<1>1. /\ i \in Slots /\ Inode[i].name = "" /\ \A j \in Slots : Inode[j].name # n
      /\ Inode'[i] = new /\ \A j \in Slots \ {i} : Inode'[j] = Inode[j]
      /\ card' = card /\ safe' = safe
  BY CreateViews DEF Clean
<1>2. /\ hnd' = [hnd EXCEPT ![h] = [slot |-> i, pos |-> 0]] /\ got' = <<>>
      /\ inode' = [Inode EXCEPT ![i] = new]
  BY DEF Create, Returns
<1>3. new.name = n /\ new.size = 0
  OBVIOUS
<1> HIDE DEF i, new
<1>4. Inode'[i].name = n /\ Inode'[i].size = 0
  BY <1>1, <1>3
<1>5. n # ""
  BY CallAssumption
<1>6. Files(Inode)[n] = Gone
  BY <1>1, Lookup
<1>7. \A j \in Slots : Inode'[j].name = n => j = i
  BY <1>1
<1>8. /\ Files(Inode)' = [m \in Names |-> Files(Inode)'[m]]
      /\ \A m \in Names : (\A j \in Slots : Inode'[j].name # m) => Files(Inode)'[m] = Gone
      /\ \A m \in Names, l \in Slots :
           Inode'[l].name = m /\ (\A j \in Slots : Inode'[j].name = m => j = l) =>
             Files(Inode)'[m] = Found(Inode[l])'
  BY LookupAfter
<1>9. Files(Inode)'[n] = [exists |-> TRUE, text |-> <<>>]
  <2>1. \A l \in Slots : l = i => Files(Inode)'[n] = Found(Inode[l])'
    BY <1>4, <1>7, <1>8
  <2>2. ASSUME NEW l \in Slots, l = i
        PROVE  Found(Inode[l])' = [exists |-> TRUE, text |-> <<>>]
    <3>1. Inode'[l].size = 0
      BY <1>4, <2>2
    <3>2. Min({0, BLOCK_SIZE}) = 0
      <4>1. {0, BLOCK_SIZE} \in SUBSET Nat /\ {0, BLOCK_SIZE} # {}
        BY Constants
      <4> DEFINE x == Min({0, BLOCK_SIZE})
      <4>2. x \in Nat /\ x <= 0
        BY <4>1, MinIn
      <4> HIDE DEF x
      <4>3. x = 0
        BY <4>2
      <4> QED BY <4>3 DEF x
    <3>3. \A b : SubSeq(b, 1, 0) = <<>>
      BY SubSeqEmpty
    <3>4. Found(Inode[l])' = [exists |-> TRUE, text |-> SubSeq(Content(Inode[l])', 1, Min({Inode'[l].size, BLOCK_SIZE}))]
      BY DEF Found, Text
    <3> QED BY <3>1, <3>2, <3>3, <3>4
  <2> QED BY <1>1, <2>1, <2>2
<1>10. ASSUME NEW m \in Names \ {n}
       PROVE  Files(Inode)'[m] = Files(Inode)[m]
  <2>1. m # "" /\ \A j \in Slots : Inode'[j].name = m <=> Inode[j].name = m
    BY <1>1, <1>4, CallAssumption
  <2>2. ASSUME NEW j \in Slots, Inode[j].name = m
        PROVE  Inode'[j].size = Inode[j].size /\ Content(Inode[j])' = Content(Inode[j])
    <3>1. Inode'[j] = Inode[j]
      BY <1>1, <2>1, <2>2
    <3> QED BY <1>1, <3>1, ContentHere
  <2> QED BY <2>1, <2>2, SameFile
<1>11. Files(Inode)' = Put(Files(Inode), n, [exists |-> TRUE, text |-> <<>>])
  <2> DEFINE v == [exists |-> TRUE, text |-> <<>>]
             G == Files(Inode)
  <2>1. G = [m \in Names |-> G[m]]
    BY Lookup
  <2>2. \A m \in Names : Files(Inode)'[m] = IF m = n THEN v ELSE G[m]
    BY <1>9, <1>10
  <2> HIDE DEF v
  <2>3. Put(G, n, v) = [m \in Names |-> IF m = n THEN v ELSE G[m]]
    <3> HIDE DEF G
    <3> QED BY <2>1 DEF Put
  <2>4. Files(Inode)' = [m \in Names |-> IF m = n THEN v ELSE G[m]]
    BY <1>8, <2>2
  <2> QED BY <2>3, <2>4 DEF v
<1>12. Standing' = Put(Standing, h, [name |-> n, pos |-> 0])
  <2> DEFINE r == [slot |-> i, pos |-> 0]
  <2>1. r.slot = i /\ r.pos = 0 /\ hnd' = [hnd EXCEPT ![h] = r]
    BY <1>2
  <2>2. r # NoHandle
    <3>1. NoHandle.slot = 0
      BY DEF NoHandle
    <3>2. i # 0
      BY <1>1, Constants
    <3> HIDE DEF r
    <3> QED BY <2>1, <3>1, <3>2
  <2>3. ASSUME NEW g \in Handles \ {h}, hnd[g] # NoHandle
        PROVE  inode'[hnd[g].slot].name = inode[hnd[g].slot].name
    <3>1. hnd[g].slot \in Slots /\ Inode[hnd[g].slot].name \in Names /\ Inode = inode
      BY <2>3, DirRead
    <3>2. hnd[g].slot # i
      BY <1>1, <3>1, CallAssumption
    <3> QED BY <1>2, <3>1, <3>2, DirRead
  <2>4. inode'[i].name = n
    <3>1. inode'[i] = new
      BY <1>1, <1>2, DirRead
    <3> QED BY <1>3, <3>1
  <2> HIDE DEF r
  <2>5. Standing' = Put(Standing, h, IF r = NoHandle THEN Shut
                                     ELSE [name |-> inode'[r.slot].name, pos |-> r.pos])
    BY <2>1, <2>3, Moves DEF Lists
  <2> QED BY <2>1, <2>2, <2>4, <2>5
<1>13. ~Files(Inode)[n].exists
  BY <1>6 DEF Gone
<1> QED BY <1>1, <1>2, <1>11, <1>12, <1>13 DEF Store!Open, Standing, Shut, Put

LEMMA TextPut ==
    ASSUME NEW e, NEW t, NEW y
    PROVE  [[exists |-> e, text |-> t] EXCEPT !.text = y] = [exists |-> e, text |-> y]
OBVIOUS

LEMMA WriteImplements ==
    ASSUME Lists, Clean, Sizes, NEW h \in Handles, NEW s \in Bufs, Write(h, s), ~stray',
           Lists', Clean', Sizes'
    PROVE  Store!Write(h, s)
<1>1. PICK i \in Slots, q \in Nat :
        /\ i = hnd[h].slot /\ q = hnd[h].pos
        /\ Inode = inode /\ inode[i].name \in Names /\ Len(s) \in Nat
        /\ Inode'[i].name = Inode[i].name /\ Inode'[i].size = Inode[i].size + Len(s)
        /\ \A j \in Slots \ {i} : Inode'[j] = Inode[j]
        /\ q + Len(s) <= BLOCK_SIZE
        /\ card' = card /\ safe' = safe /\ q = inode[i].size
  BY WriteViews
<1>2. \A j \in Slots :
        /\ j = i => \A k \in 1 .. BLOCK_SIZE : Content(Inode[j])'[k] =
             IF k \in (q + 1) .. (q + Len(s)) THEN s[k - q] ELSE Content(Inode[j])[k]
        /\ j # i => Content(Inode[j])' = Content(Inode[j])
  <2>1. \A j \in Slots :
          /\ j = hnd[h].slot => \A k \in 1 .. BLOCK_SIZE : Content(Inode[j])'[k] =
               IF k \in (hnd[h].pos + 1) .. (hnd[h].pos + Len(s)) THEN s[k - hnd[h].pos]
               ELSE Content(Inode[j])[k]
          /\ j # hnd[h].slot => Content(Inode[j])' = Content(Inode[j])
    BY WriteContent
  <2>2. i = hnd[h].slot /\ q = hnd[h].pos
    BY <1>1
  <2> QED BY <2>1, <2>2
<1>3. /\ hnd[h] # NoHandle /\ hnd' = [hnd EXCEPT ![h].pos = q + Len(s)] /\ got' = <<>>
      /\ inode' = Inode' /\ hnd \in [Handles -> [slot : Slots \cup {0}, pos : Nat]]
  <2>1. hnd[h] # NoHandle /\ hnd' = [hnd EXCEPT ![h].pos = q + Len(s)] /\ got' = <<>>
    BY <1>1 DEF Write, Returns
  <2>2. hnd \in [Handles -> [slot : Slots \cup {0}, pos : Nat]]
    BY DEF Lists, Types
  <2>3. dir.cached /\ dir \in [cached : BOOLEAN, dirty : BOOLEAN, block : [Slots -> Entry]]
    BY <2>1 DEF Lists, Types, Nodes, Handled
  <2>4. dir'.cached
    <3>1. PICK b : dir' = [dir EXCEPT !.dirty = TRUE, !.block = b]
      BY DEF Write
    <3> QED BY <2>3, <3>1
  <2> QED BY <2>1, <2>2, <2>4 DEF Inode
<1> DEFINE n == inode[i].name
           T == Text(Inode[i])
<1>4. /\ Files(Inode)[n] = Found(Inode[i]) /\ T \in Seq(Int) /\ Len(T) = q
      /\ \A k \in 1 .. q : T[k] = Content(Inode[i])[k]
  BY <1>1, Present
<1>5. /\ Files(Inode)'[n] = Found(Inode[i])'
      /\ Text(Inode[i])' \in Seq(Int) /\ Len(Text(Inode[i])') = q + Len(s)
      /\ \A k \in 1 .. q + Len(s) : Text(Inode[i])'[k] = Content(Inode[i])'[k]
  <2>1. Inode'[i].name = n /\ Inode'[i].size = q + Len(s)
    BY <1>1
  <2> HIDE DEF n
  <2> QED BY <1>1, <2>1, PresentAfter
<1> HIDE DEF T
<1>6. Text(Inode[i])' = T \o s
  <2>1. s \in Seq(Int)
    <3>1. s \in Seq(Nat)
      BY CallAssumption
    <3>2. Nat \subseteq Int
      OBVIOUS
    <3> QED BY <3>1, <3>2, SeqMonotonic
  <2>2. /\ T \o s \in Seq(Int) /\ Len(T \o s) = q + Len(s)
        /\ \A k \in 1 .. q + Len(s) : (T \o s)[k] = IF k <= q THEN T[k] ELSE s[k - q]
    BY <1>4, <2>1, ConcatProperties
  <2>3. ASSUME NEW k \in 1 .. q + Len(s)
        PROVE  Text(Inode[i])'[k] = (T \o s)[k]
    <3>1. k \in 1 .. BLOCK_SIZE
      BY <1>1, Constants
    <3>2. CASE k <= q
      <4>1. k \in 1 .. q /\ k \notin (q + 1) .. (q + Len(s))
        BY <1>1, <3>2
      <4> QED BY <1>2, <1>4, <1>5, <2>2, <3>1, <3>2, <4>1
    <3>3. CASE ~(k <= q)
      <4>1. k \in (q + 1) .. (q + Len(s))
        BY <1>1, <3>3
      <4> QED BY <1>2, <1>5, <2>2, <3>1, <3>3, <4>1
    <3> QED BY <3>2, <3>3
  <2> DEFINE u == T \o s
             v == Text(Inode[i])'
  <2>4. v \in Seq(Int) /\ u \in Seq(Int) /\ Len(v) = Len(u) /\ \A k \in 1 .. Len(v) : v[k] = u[k]
    BY <1>5, <2>2, <2>3
  <2> HIDE DEF u, v
  <2>5. v = u
    BY <2>4, SeqEqual
  <2> QED BY <2>5 DEF u, v
<1>7. ASSUME NEW m \in Names \ {n}
      PROVE  Files(Inode)'[m] = Files(Inode)[m]
  <2>1. \A j \in Slots : Inode'[j].name = m <=> Inode[j].name = m
    BY <1>1
  <2>2. ASSUME NEW j \in Slots, Inode[j].name = m
        PROVE  Inode'[j].size = Inode[j].size /\ Content(Inode[j])' = Content(Inode[j])
    <3>1. j # i
      BY <1>1, <2>2
    <3> QED BY <1>1, <1>2, <3>1
  <2> QED BY <2>1, <2>2, SameFile
<1>8. Files(Inode)' = [Files(Inode) EXCEPT ![n].text = @ \o s]
  <2> DEFINE G == Files(Inode)
             v == [exists |-> TRUE, text |-> T \o s]
  <2>1. G = [m \in Names |-> G[m]] /\ G[n] = [exists |-> TRUE, text |-> T]
    BY <1>4, Lookup DEF Found, T
  <2>2. [G[n] EXCEPT !.text = @ \o s] = v
    <3> DEFINE g == G[n]
    <3>1. g = [exists |-> TRUE, text |-> T]
      BY <2>1
    <3> DEFINE y == T \o s
    <3> HIDE DEF g, G, n
    <3>2. g.text = T
      BY <3>1
    <3>3. [g EXCEPT !.text = @ \o s] = [g EXCEPT !.text = y]
      BY <3>2
    <3> HIDE DEF y
    <3>4. [g EXCEPT !.text = y] = [exists |-> TRUE, text |-> y]
      BY <3>1, TextPut
    <3> QED BY <3>3, <3>4 DEF g, y
  <2>3. Files(Inode)'[n] = v
    BY <1>5, <1>6 DEF Found
  <2> HIDE DEF v
  <2>4. \A m \in Names : Files(Inode)'[m] = IF m = n THEN v ELSE G[m]
    BY <1>7, <2>3
  <2>5. Files(Inode)' = [m \in Names |-> IF m = n THEN v ELSE G[m]]
    BY <2>4, LookupAfter
  <2>6. [G EXCEPT ![n].text = @ \o s] = Put(G, n, [G[n] EXCEPT !.text = @ \o s])
    <3> HIDE DEF G
    <3> QED BY DEF Put
  <2>7. Put(G, n, v) = [m \in Names |-> IF m = n THEN v ELSE G[m]]
    <3> HIDE DEF G
    <3> QED BY <2>1 DEF Put
  <2> QED BY <2>2, <2>5, <2>6, <2>7
<1>9. Standing[h] = [name |-> n, pos |-> q]
  BY <1>1, <1>3 DEF Standing
<1>10. Standing' = [Standing EXCEPT ![h].pos = @ + Len(s)]
  <2> DEFINE r == [hnd[h] EXCEPT !.pos = q + Len(s)]
  <2>1. r.slot = i /\ r.pos = q + Len(s) /\ hnd' = [hnd EXCEPT ![h] = r]
    BY <1>1, <1>3
  <2>2. r # NoHandle
    <3>1. NoHandle.slot = 0 /\ i # 0
      BY <1>1, Constants DEF NoHandle
    <3> HIDE DEF r
    <3> QED BY <2>1, <3>1
  <2>3. \A j \in Slots : inode'[j].name = inode[j].name
    BY <1>1, <1>3
  <2>4. \A g \in Handles \ {h} : hnd[g] # NoHandle =>
          inode'[hnd[g].slot].name = inode[hnd[g].slot].name
    BY <2>3, DirRead
  <2> HIDE DEF r
  <2>5. Standing' = Put(Standing, h, IF r = NoHandle THEN Shut
                                     ELSE [name |-> inode'[r.slot].name, pos |-> r.pos])
    BY <2>1, <2>4, Moves DEF Lists
  <2>6. [Standing[h] EXCEPT !.pos = @ + Len(s)] = [name |-> n, pos |-> q + Len(s)]
    BY <1>9
  <2>7. Standing' = Put(Standing, h, [Standing[h] EXCEPT !.pos = @ + Len(s)])
    BY <2>1, <2>2, <2>3, <2>5, <2>6
  <2> QED BY <2>7 DEF Put
<1>11. Standing[h] # Shut
  <2> DEFINE w == Standing[h]
  <2>1. w.name = n
    BY <1>9
  <2>2. n # "" /\ Shut.name = ""
    BY <1>1, CallAssumption DEF Shut
  <2> HIDE DEF w
  <2>3. w # Shut
    BY <2>1, <2>2
  <2> QED BY <2>3 DEF w
<1>12. Standing[h].name = n /\ Standing[h].pos = q /\ Files(Inode)[n].text = T
  BY <1>4, <1>9 DEF Found, T
<1>13. /\ Standing[h] # Shut /\ Standing[h].pos = Len(Files(Inode)[Standing[h].name].text)
       /\ Files(Inode)' = [Files(Inode) EXCEPT ![Standing[h].name].text = @ \o s]
  <2> HIDE DEF n
  <2> QED BY <1>4, <1>8, <1>11, <1>12
<1> QED BY <1>1, <1>3, <1>10, <1>13 DEF Store!Write, Store!Closed, Standing, Shut

LEMMA ReadImplements ==
    ASSUME Lists, Clean, Sizes, NEW h \in Handles, NEW k \in Lens, Read(h, k), ~stray', Lists'
    PROVE  Store!Read(h, k)
<1>1. ~(hnd[h].pos > inode[hnd[h].slot].size)
  BY DEF Read
<1>2. PICK i \in Slots, q \in Nat, m \in Nat :
        /\ i = hnd[h].slot /\ q = hnd[h].pos
        /\ q + m <= inode[i].size /\ (m = k \/ q + m = inode[i].size) /\ m <= k
        /\ hnd[h] # NoHandle /\ hnd' = [hnd EXCEPT ![h].pos = q + m]
        /\ got' = [j \in 1 .. m |-> Content(Inode[i])[q + j]]
        /\ \A j \in Slots : Content(Inode[j])' = Content(Inode[j])
  <2> DEFINE x == hnd[h].slot
             y == hnd[h].pos
             z == Min({k, inode[x].size - y})
  <2>1. /\ x \in Slots /\ y \in Nat /\ z \in Nat
        /\ y + z <= inode[x].size /\ (z = k \/ y + z = inode[x].size) /\ z <= k
        /\ hnd[h] # NoHandle /\ hnd' = [hnd EXCEPT ![h].pos = y + z]
        /\ got' = [j \in 1 .. z |-> Content(Inode[x])[y + j]]
        /\ \A j \in Slots : Content(Inode[j])' = Content(Inode[j])
    BY <1>1, ReadContent
  <2> HIDE DEF z
  <2> QED BY <2>1
<1>3. /\ dir.cached /\ Inode = inode /\ inode[i].name \in Names
      /\ \A j \in Slots : Inode'[j].name = Inode[j].name /\ Inode'[j].size = Inode[j].size
      /\ card' = card /\ safe' = safe
  <2>1. PICK P \in BOOLEAN :
           /\ dir.cached /\ Inode = inode /\ inode[i].name \in Names
           /\ Inode'[i].name = Inode[i].name /\ Inode'[i].size = Inode[i].size
           /\ \A j \in Slots \ {i} : Inode'[j] = Inode[j]
           /\ card' = card /\ safe' = safe
    BY <1>2, ReadViews
  <2> QED BY <2>1
<1>4. Files(Inode)' = Files(Inode)
  BY <1>2, <1>3, SameFiles
<1>5. inode' = Inode' /\ hnd \in [Handles -> [slot : Slots \cup {0}, pos : Nat]]
  <2>1. dir' = dir
    BY DEF Read
  <2> QED BY <1>3, <2>1 DEF Inode, Lists, Types
<1> DEFINE n == inode[i].name
           T == Text(Inode[i])
           z == Inode[i].size
<1>6. /\ Files(Inode)[n] = Found(Inode[i]) /\ T \in Seq(Int) /\ Len(T) = z /\ z \in Nat
      /\ \A j \in 1 .. z : T[j] = Content(Inode[i])[j]
  BY <1>3, Present
<1>7. k \in Nat /\ q + m <= z /\ (m = k \/ q + m = z) /\ m <= k
  BY <1>2, <1>3, CallAssumption
<1>8. Standing[h] = [name |-> n, pos |-> q]
  BY <1>2 DEF Standing
<1>9. Standing[h].name = n /\ Standing[h].pos = q /\ Files(Inode)[n].text = T
  BY <1>6, <1>8 DEF Found
<1> HIDE DEF T, z
<1>10. (IF q + k < Len(T) THEN q + k ELSE Len(T)) = q + m
  BY <1>6, <1>7
<1>11. got' = SubSeq(T, q + 1, q + m)
  <2> DEFINE u == SubSeq(T, q + 1, q + m)
             v == [j \in 1 .. m |-> Content(Inode[i])[q + j]]
  <2>1. \A j \in (q + 1) .. (q + m) : T[j] \in Int
    <3>1. (q + 1) .. (q + m) \subseteq 1 .. Len(T)
      BY <1>6, <1>7
    <3> QED BY <1>6, <3>1
  <2>2. q + 1 \in Int /\ q + m \in Int /\ q + m - (q + 1) + 1 = m
        /\ (q + 1 <= q + m <=> 1 <= m)
    OBVIOUS
  <2>3. /\ u \in Seq(Int) /\ Len(u) = IF q + 1 <= q + m THEN q + m - (q + 1) + 1 ELSE 0
        /\ \A j \in 1 .. q + m - (q + 1) + 1 : u[j] = T[q + 1 + j - 1]
    BY <2>1, <2>2, SubSeqProperties
  <2>4. Len(u) = m /\ \A j \in 1 .. m : u[j] = T[q + j]
    <3>1. \A j \in 1 .. m : q + 1 + j - 1 = q + j
      OBVIOUS
    <3>2. (IF 1 <= m THEN m ELSE 0) = m
      OBVIOUS
    <3> HIDE DEF u
    <3> QED BY <2>2, <2>3, <3>1, <3>2
  <2>5. ASSUME NEW j \in 1 .. m
        PROVE  T[q + j] = Content(Inode[i])[q + j] /\ T[q + j] \in Int
    <3>1. q + j \in 1 .. z
      BY <1>6, <1>7
    <3> QED BY <1>6, <3>1
  <2>6. v \in Seq(Int) /\ Len(v) = m /\ \A j \in 1 .. m : v[j] = u[j]
    BY <2>4, <2>5
  <2> HIDE DEF u, v
  <2>7. v = u
    BY <2>3, <2>4, <2>6, SeqEqual
  <2> QED BY <1>2, <2>7 DEF u, v
<1>12. Standing' = [Standing EXCEPT ![h].pos = q + m]
  <2> DEFINE r == [hnd[h] EXCEPT !.pos = q + m]
  <2>1. r.slot = i /\ r.pos = q + m /\ hnd' = [hnd EXCEPT ![h] = r]
    BY <1>2, <1>5
  <2>2. r # NoHandle
    <3>1. NoHandle.slot = 0 /\ i # 0
      BY <1>2, Constants DEF NoHandle
    <3> HIDE DEF r
    <3> QED BY <2>1, <3>1
  <2>3. \A j \in Slots : inode'[j].name = inode[j].name
    BY <1>3, <1>5
  <2>4. \A g \in Handles \ {h} : hnd[g] # NoHandle =>
          inode'[hnd[g].slot].name = inode[hnd[g].slot].name
    BY <2>3, DirRead
  <2> HIDE DEF r
  <2>5. Standing' = Put(Standing, h, IF r = NoHandle THEN Shut
                                     ELSE [name |-> inode'[r.slot].name, pos |-> r.pos])
    BY <2>1, <2>4, Moves DEF Lists
  <2>6. [Standing[h] EXCEPT !.pos = q + m] = [name |-> n, pos |-> q + m]
    BY <1>8
  <2>7. Standing' = Put(Standing, h, [Standing[h] EXCEPT !.pos = q + m])
    BY <2>1, <2>2, <2>3, <2>5, <2>6
  <2> QED BY <2>7 DEF Put
<1>13. Standing[h] # Shut
  <2> DEFINE w == Standing[h]
  <2>1. w.name = n
    BY <1>8
  <2>2. n # "" /\ Shut.name = ""
    BY <1>3, CallAssumption DEF Shut
  <2> HIDE DEF w
  <2>3. w # Shut
    BY <2>1, <2>2
  <2> QED BY <2>3 DEF w
<1>14. LET text == Files(Inode)[Standing[h].name].text
           end == IF Standing[h].pos + k < Len(text) THEN Standing[h].pos + k ELSE Len(text)
       IN /\ Standing[h] # Shut /\ Standing[h].pos <= Len(text)
          /\ got' = SubSeq(text, Standing[h].pos + 1, end)
          /\ Standing' = [Standing EXCEPT ![h].pos = end]
  <2>1. q <= Len(T)
    BY <1>6, <1>7
  <2> HIDE DEF n
  <2> QED BY <1>9, <1>10, <1>11, <1>12, <1>13, <2>1
<1> QED BY <1>3, <1>4, <1>14 DEF Store!Read, Store!Closed, Standing, Shut

(* Calls that fail, and stores of a sync. *)
LEMMA QuietImplements ==
    ASSUME Lists, SyncStart \/ \E n \in Names : CreateFails(n)
    PROVE  Store!Other
<1>1. Quiet /\ safe' = safe
  <2>1. Quiet /\ (SyncDone \/ safe' = safe)
    BY QuietSteps
  <2> QED BY <2>1 DEF SyncStart, CreateFails, Returns
<1>2. Files(Inode)' = Files(Inode)
  BY <1>1, QuietFiles DEF Quiet, SameViews
<1>3. got' = <<>> /\ hnd' = hnd /\ (inode' = inode \/ inode' = Inode)
  BY DEF SyncStart, CreateFails, Returns, memory
<1>4. Standing' = Standing
  <2>1. \A g \in Handles : hnd[g] # NoHandle =>
          inode'[hnd[g].slot].name = inode[hnd[g].slot].name
    BY <1>3, DirRead
  <2> QED BY <1>3, <2>1, Stays
<1> QED BY <1>1, <1>2, <1>3, <1>4 DEF Store!Other, Standing, Shut

LEMMA SyncImplements ==
    ASSUME Lists, SyncDone
    PROVE  Store!Sync
<1>1. /\ got' = <<>> /\ hnd' = hnd /\ inode' = inode /\ safe' = Files(Inode)
      /\ dir' = dir /\ card' = card
  BY DEF SyncDone, memory
<1>2. Inode' = Inode
  BY <1>1 DEF Inode
<1>3. Files(Inode)' = Files(Inode)
  BY <1>1, <1>2, QuietFiles
<1>4. Standing' = Standing
  BY <1>1, Stays
<1> QED BY <1>1, <1>3, <1>4 DEF Store!Sync, Standing, Shut

LEMMA HandlesRead ==
    Lists => \A h \in Handles : hnd[h] # NoHandle => hnd[h].slot \in Slots /\ Inode = inode
BY DirRead

LEMMA StoreImplements ==
    ASSUME Lists, Clean, Trusted, SyncStep \/ SyncRetry, Lists'
    PROVE  UNCHANGED Store!vars
<1>1. /\ \A i \in Slots : Inode'[i].name = Inode[i].name /\ Inode'[i].size = Inode[i].size
      /\ far' = far /\ stray' = stray /\ pc' = pc /\ safe' = safe
  BY StoreViews
<1>2. \A i \in Slots : Named(i) => Content(Inode[i])' = Content(Inode[i])
  BY StoreContent
<1>3. Files(Inode)' = Files(Inode)
  BY <1>1, <1>2, SameFiles
<1>4. hnd' = hnd /\ got' = got
  BY DEF SyncStep, SyncRetry
<1>5. Standing' = Standing
  <2>1. (Lists => \A h \in Handles : hnd[h] # NoHandle =>
                    hnd[h].slot \in Slots /\ Inode = inode)'
    BY HandlesRead, PTL
  <2>2. \A g \in Handles : hnd[g] # NoHandle => hnd[g].slot \in Slots /\ Inode' = inode'
    BY <1>4, <2>1 DEF NoHandle
  <2>3. \A g \in Handles : hnd[g] # NoHandle =>
          inode'[hnd[g].slot].name = inode[hnd[g].slot].name
    BY <1>1, <2>2, DirRead
  <2> QED BY <1>4, <2>3, Stays
<1> QED BY <1>1, <1>3, <1>4, <1>5 DEF Store!vars, Standing, Shut

LEMMA PowerImplements ==
    ASSUME Lists, Clean, Trusted, Sizes, SafeKept, PowerCut, Lists', Clean', Sizes'
    PROVE  Store!PowerCut
<1>1. /\ card' = card /\ got' = <<>> /\ hnd' = [h \in Handles |-> NoHandle]
      /\ safe' = Files(Parsed(card.dir))
  BY DEF PowerCut
<1>2. Inode' = Parsed(card.dir)
  <2>1. (Empty => Inode = Parsed(card.dir) /\ Dir.block = card.dir
                  /\ Tables = [f \in Fats |-> card.fat[f]])'
    BY EmptyViews, PTL
  <2>2. Empty'
    BY DEF PowerCut, Empty
  <2> QED BY <1>1, <2>1, <2>2
<1>3. safe' = Files(Inode)'
  BY <1>1, <1>2 DEF Files, CardBytes, Parsed
<1>4. \A i \in Slots : /\ Inode'[i].name = card.dir[i].name /\ Inode'[i].size = card.dir[i].size
                       /\ Inode'[i].first = card.dir[i].first /\ Inode'[i].data = NoData
  <2>1. card.dir \in [Slots -> Entry] /\ Tidy(card.dir)
    BY DEF Lists, Types, Clean, Directory
  <2> QED BY <1>2, <2>1, ParsedTidy
<1>5. \A i \in Slots : Content(Inode[i])' = CardBytes(BlkId(card.dir[i].first))
  <2>1. ~NoData[0].cached
    BY Constants DEF NoData
  <2>2. \A i \in Slots : Content(Inode[i])' =
          IF Inode'[i].data[0].cached THEN Inode'[i].data[0].bytes
          ELSE At(card'.data, BlkId(Inode'[i].first))
    BY DEF Content, CardBytes, At
  <2>3. \A i \in Slots : CardBytes(BlkId(card.dir[i].first)) = At(card.data, BlkId(card.dir[i].first))
    BY DEF CardBytes, At
  <2> QED BY <1>1, <1>4, <2>1, <2>2, <2>3
<1>6. Standing' = [h \in Handles |-> Shut]
  BY <1>1 DEF Standing, Shut, NoHandle
<1>7. ASSUME NEW n \in Names, Files(Inode)[n] = safe[n]
      PROVE  Files(Inode)'[n] = safe[n]
  <2>1. /\ safe[n] \in [exists : BOOLEAN, text : Seq(Int)]
        /\ IF safe[n].exists THEN Kept(n, safe[n].text) ELSE safe[n].text = <<>>
    BY DEF SafeKept
  <2>2. n # ""
    BY CallAssumption
  <2>3. CASE safe[n].exists
    <3>1. PICK i \in Slots :
            /\ card.dir[i].name = n /\ Len(safe[n].text) <= card.dir[i].size
            /\ \A k \in 1 .. Len(safe[n].text) :
                 safe[n].text[k] = CardBytes(BlkId(card.dir[i].first))[k]
      BY <2>1, <2>3 DEF Kept
    <3>2. Inode[i].name = n /\ card.dir[i].size <= Inode[i].size
      BY <2>2, <3>1 DEF Clean, Titles, OnCard, Sizes
    <3> DEFINE T == Text(Inode[i])
               U == Text(Inode[i])'
    <3>3. /\ safe[n] = [exists |-> TRUE, text |-> T]
          /\ T \in Seq(Int) /\ Len(T) = Inode[i].size /\ Inode[i].size \in Nat
      BY <1>7, <3>2, Present DEF Found
    <3>4. /\ Files(Inode)'[n] = [exists |-> TRUE, text |-> U]
          /\ U \in Seq(Int) /\ Len(U) = card.dir[i].size /\ card.dir[i].size \in Nat
          /\ \A k \in 1 .. card.dir[i].size : U[k] = CardBytes(BlkId(card.dir[i].first))[k]
      <4>1. /\ Inode'[i].name = n /\ Inode'[i].size = card.dir[i].size
            /\ Content(Inode[i])' = CardBytes(BlkId(card.dir[i].first))
        BY <1>4, <1>5, <3>1
      <4> QED BY <4>1, PresentAfter DEF Found
    <3> HIDE DEF T, U
    <3>5. safe[n].text = T
      BY <3>3
    <3>6. Len(T) = Len(U) /\ \A k \in 1 .. Len(T) : T[k] = U[k]
      <4>1. Len(T) = Len(U)
        BY <3>1, <3>2, <3>3, <3>4, <3>5
      <4> QED BY <3>1, <3>4, <3>5, <4>1
    <3>7. T = U
      BY <3>3, <3>4, <3>6, SeqEqual
    <3> QED BY <3>3, <3>4, <3>7
  <2>4. CASE ~safe[n].exists
    <3>1. \A j \in Slots : Inode[j].name # n
      <4>1. ASSUME NEW j \in Slots, Inode[j].name = n PROVE FALSE
        <5>1. Files(Inode)[n] = Found(Inode[j])
          BY <4>1, Present
        <5>2. Found(Inode[j]).exists
          BY DEF Found
        <5> QED BY <1>7, <2>4, <5>1, <5>2
      <4> QED BY <4>1
    <3>2. \A j \in Slots : Inode'[j].name # n
      <4>1. \A j \in Slots : card.dir[j].name # n
        BY <2>2, <3>1 DEF Clean, Titles, OnCard
      <4> QED BY <1>4, <4>1
    <3>3. Files(Inode)[n] = Gone /\ Files(Inode)'[n] = Gone
      BY <3>1, <3>2, Lookup, LookupAfter
    <3> QED BY <1>7, <3>3
  <2> QED BY <2>3, <2>4
<1> QED BY <1>1, <1>3, <1>6, <1>7 DEF Store!PowerCut, Store!Closed, Standing, Shut

(***************************************************************************)
(* What ends the promise.                                                  *)
(***************************************************************************)
(* A block that a sync will store is one that was read: a file's first, in *)
(* the data of the card, as long as no file without a cluster was written. *)
Written == ~stray => \A i \in Slots, k \in Ids :
    Inode[i].data[k].dirty => IsData(Inode[i].data[k].id)
FatsIn == ~far => \A f \in Fats : mfat[f].dirty => mfat[f].cached
Located == Written /\ FatsIn

LEMMA WrittenFirst ==
    ASSUME Lists, Clean, Written, ~stray, NEW i \in Slots, NEW k \in Ids, Inode[i].data[k].dirty
    PROVE  k = 0 /\ Inode[i].data[0].cached /\ IsData(BlkId(Inode[i].first))
<1>1. Inode[i].data[k].cached
  BY DirRead DEF Lists, Nodes, Filled
<1>2. Inode[i].data[k].id = IF k = 0 THEN BlkId(Inode[i].first) ELSE 0
  BY <1>1 DEF Clean, Blkids
<1>3. IsData(Inode[i].data[k].id) /\ ~IsData(0)
  BY BlkIdFacts DEF Written
<1> QED BY <1>1, <1>2, <1>3

LEMMA DataRead == Lists => \A j \in Slots : Inode[j].data = inode[j].data
BY DirRead

LEMMA NextWritten ==
    ASSUME Lists, Phase, Clean, Written, [Next]_vars, Lists', Clean'
    PROVE  Written'
<1> SUFFICES ASSUME ~stray', NEW i \in Slots, NEW k \in Ids, Inode'[i].data[k].dirty
             PROVE  IsData(Inode'[i].data[k].id)
  BY DEF Written, IsData, ClusterAt
<1>1. ~stray
  BY Monotone
<1>2. ASSUME Inode'[i] = Inode[i] PROVE IsData(Inode'[i].data[k].id)
  BY <1>1, <1>2 DEF Written
<1>3. ASSUME k = 0, Inode'[i].data[0].cached, IsData(BlkId(Inode'[i].first))
      PROVE  IsData(Inode'[i].data[k].id)
  BY <1>3 DEF Clean, Blkids, BlkId
<1>4. CASE \/ SyncStart \/ SyncDone \/ Astray \/ UNCHANGED vars
           \/ \E n \in Names : CreateFails(n)
           \/ \E h \in Handles : \/ \E n \in Names : Open(h, n)
                                 \/ Close(h)
                                 \/ \E q \in Offsets : Seek(h, q)
  BY <1>2, <1>4, QuietSteps DEF Quiet, SameViews
<1>5. CASE SyncStep \/ SyncRetry
  <2>1. /\ Inode'[i].data[k].id = Inode[i].data[k].id
        /\ Inode'[i].data[k].dirty # Inode[i].data[k].dirty => Head(dirty) = FileE(i, k)
        /\ dirty # <<>>
    BY <1>5, StoreViews
  <2>2. Inode[i].data[k].dirty
    <3>1. In(dirty, Head(dirty))
      BY <2>1, Delisting DEF Lists, Types, Listed
    <3>2. inode[i].data[k].dirty <=> In(dirty, FileE(i, k))
      BY DEF Lists, Listed, FileListed
    <3> QED BY <2>1, <3>1, <3>2, DirRead
  <2> QED BY <1>1, <2>1, <2>2 DEF Written
<1>6. CASE PowerCut
  <2>1. inode' = [j \in Slots |-> NoInode]
    BY <1>6 DEF PowerCut
  <2>2. (Lists => \A j \in Slots : Inode[j].data = inode[j].data)'
    BY DataRead, PTL
  <2> QED BY <2>1, <2>2, NoNodes
<1>7. ASSUME NEW h \in Handles, NEW n \in Names, Create(h, n)
      PROVE  IsData(Inode'[i].data[k].id)
  <2>1. /\ Inode'[Min(FreeSlots)] = [name |-> n, size |-> 0, first |-> FreeCluster, data |-> NoData]
        /\ \A j \in Slots \ {Min(FreeSlots)} : Inode'[j] = Inode[j]
    BY <1>7, CreateViews DEF Clean
  <2>2. CASE i = Min(FreeSlots)
    <3>1. Inode'[i].data = NoData
      BY <2>1, <2>2
    <3> QED BY <3>1, NoNodes
  <2> QED BY <1>2, <2>1, <2>2
<1>8. ASSUME NEW h \in Handles, NEW s \in Bufs, Write(h, s)
      PROVE  IsData(Inode'[i].data[k].id)
  <2> DEFINE l == hnd[h].slot
             P == inode[l].data[0].cached
             data == Fetched(l, P)
  <2>1. /\ l \in Slots /\ Inode = inode
        /\ Inode'[l].first = Inode[l].first /\ Inode'[l].data[0].cached
        /\ \A m \in Ids \ {0} : Inode'[l].data[m] = data[m]
        /\ \A j \in Slots \ {l} : Inode'[j] = Inode[j]
        /\ stray' = (stray \/ hnd[h].pos # inode[l].size \/ ~IsData(BlkId(inode[l].first)))
    BY <1>8, WriteViews
  <2>2. CASE i = l /\ k = 0
    BY <1>3, <2>1, <2>2
  <2>3. CASE i = l /\ k # 0
    <3>1. P \in BOOLEAN
      <4> HIDE DEF l
      <4>1. inode[l] \in Node /\ 0 \in Ids
        BY <2>1, Constants DEF Lists, Types
      <4> QED BY <4>1 DEF Node, DataBlock
    <3>2. data[k].dirty = inode[l].data[k].dirty
      <4> HIDE DEF l, P
      <4> QED BY <2>1, <3>1, BlocksFacts
    <3>3. Inode[i].data[k].dirty
      BY <2>1, <2>3, <3>2
    <3> QED BY <1>1, <2>3, <3>3, WrittenFirst
  <2> QED BY <1>2, <2>1, <2>2, <2>3
<1>9. ASSUME NEW h \in Handles, NEW m \in Lens, Read(h, m)
      PROVE  IsData(Inode'[i].data[k].id)
  <2> DEFINE l == hnd[h].slot
  <2>1. PICK P \in BOOLEAN :
           /\ l \in Slots /\ Inode = inode
           /\ Inode'[l].first = Inode[l].first /\ Inode'[l].data = Fetched(l, P)
           /\ \A j \in Slots \ {l} : Inode'[j] = Inode[j]
    BY <1>9, ReadViews
  <2>2. CASE i = l
    <3>1. /\ Fetched(l, P)[k].dirty = inode[l].data[k].dirty
          /\ inode[l].data[0].cached => Fetched(l, P)[0].cached
      <4> HIDE DEF l
      <4> QED BY <2>1, BlocksFacts, Constants
    <3>2. Inode[i].data[k].dirty
      BY <2>1, <2>2, <3>1
    <3>3. k = 0 /\ Inode[i].data[0].cached /\ IsData(BlkId(Inode[i].first))
      BY <1>1, <3>2, WrittenFirst
    <3> QED BY <1>3, <2>1, <2>2, <3>1, <3>3
  <2> QED BY <1>2, <2>1, <2>2
<1> QED BY <1>4, <1>5, <1>6, <1>7, <1>8, <1>9 DEF Next, Astray

LEMMA NextFatsIn ==
    ASSUME Lists, Phase, FatsIn, [Next]_vars
    PROVE  FatsIn'
<1> SUFFICES ASSUME ~far', NEW f \in Fats, mfat'[f].dirty PROVE mfat'[f].cached
  BY DEF FatsIn
<1>1. ~far
  BY Monotone
<1>2. mfat[f].dirty => mfat[f].cached
  BY <1>1 DEF FatsIn
<1>3. ASSUME NEW S, mfat' = WithFats(S) PROVE mfat'[f].cached
  BY <1>2, <1>3, FatFacts DEF Lists
<1>4. CASE UNCHANGED mfat
  BY <1>2, <1>4
<1>5. CASE SyncStep
  <2>1. mfat \in [Fats -> FatBlock] /\ dirty # <<>>
    BY <1>5 DEF SyncStep, Lists, Types, FatBlock
  <2>2. Head(dirty) \in Blocks
    BY <2>1, Delisting DEF Lists, Types, Listed
  <2>3. CASE \E g \in Fats : Head(dirty) = FatE(g)
    <3>1. PICK g \in Fats : mfat' = [mfat EXCEPT ![g].dirty = FALSE]
      BY <1>5, <2>3 DEF SyncStep, Cleaned, FatE
    <3>2. mfat'[g].cached = mfat[g].cached /\ ~mfat'[g].dirty
          /\ \A x \in Fats \ {g} : mfat'[x] = mfat[x]
      BY <2>1, <3>1, FatCleared
    <3> QED BY <1>2, <3>2
  <2>4. CASE Head(dirty) = DirE \/ \E i \in Slots, k \in Ids : Head(dirty) = FileE(i, k)
    <3>1. mfat' = mfat
      BY <1>5, <2>4 DEF SyncStep, Cleaned, DirE, FileE
    <3> QED BY <1>4, <3>1
  <2> QED BY <2>2, <2>3, <2>4, BlockKinds
<1>6. CASE PowerCut
  <2>1. mfat'[f] = Fresh(f)
    BY <1>6 DEF PowerCut
  <2>2. ~Fresh(f).dirty
    BY DEF Fresh
  <2> QED BY <2>1, <2>2
<1>7. ASSUME NEW h \in Handles, NEW n \in Names, Create(h, n)
      PROVE  mfat'[f].cached
  <2> DEFINE c == FreeCluster
             g == c \div FAT_ENTRY_PER_BLK
             S == FatsSearched
             fats == WithFats(S)
  <2>1. FatsWithFree # {} /\ mfat' = Marked(fats, c) /\ far' = (far \/ g # 0)
    BY <1>7 DEF Create
  <2>2. g = 0 /\ g \in Fats /\ c \in Nat
    BY <2>1, FreeFacts, Constants
  <2>3. 0 \in S
    <3>1. FatsWithFree \in SUBSET Nat
      BY Constants DEF FatsWithFree
    <3>2. Min(FatsWithFree) \in Nat
      BY <2>1, <3>1, MinIn
    <3> QED BY <2>1, <3>2 DEF FatsSearched
  <2>4. fats \in [Fats -> FatBlock] /\ fats[0].cached
        /\ (fats[f].dirty => fats[f].cached)
    BY <1>2, <2>2, <2>3, FatFacts, Constants DEF Lists
  <2> HIDE DEF c, S, fats
  <2>5. mfat'[g].cached = fats[g].cached /\ \A x \in Fats \ {g} : mfat'[x] = fats[x]
    BY <2>1, <2>2, <2>4, FatStep
  <2> QED BY <2>2, <2>4, <2>5
<1>8. CASE \/ SyncStart \/ SyncDone \/ SyncRetry \/ Astray \/ UNCHANGED vars
           \/ \E h \in Handles : \/ \E n \in Names : Open(h, n)
                                 \/ Close(h)
                                 \/ \E q \in Offsets : Seek(h, q)
  <2>1. mfat' = mfat
    BY <1>8, AstrayLost DEF SyncStart, SyncDone, SyncRetry, Derails, vars, memory, Open, Close, Seek
  <2> QED BY <1>4, <2>1
<1>9. CASE \/ \E n \in Names : CreateFails(n)
           \/ \E h \in Handles : \/ \E s \in Bufs : Write(h, s)
                                 \/ \E k \in Lens : Read(h, k)
  <2>1. mfat' = mfat \/ \E S : mfat' = WithFats(S)
    <3>1. CASE \E n \in Names : CreateFails(n)
      BY <3>1 DEF CreateFails
    <3>2. CASE \E h \in Handles, s \in Bufs : Write(h, s)
      BY <3>2 DEF Write
    <3>3. CASE \E h \in Handles, k \in Lens : Read(h, k)
      BY <3>3 DEF Read
    <3> QED BY <1>9, <3>1, <3>2, <3>3
  <2> QED BY <1>3, <1>4, <2>1
<1> QED BY <1>5, <1>6, <1>7, <1>8, <1>9 DEF Next, Astray

LEMMA LocatedHolds ==
    ASSUME \A c \in Cards : OneClusterEach(c)
    PROVE  Spec => [](Lists /\ Phase /\ Clean /\ Survives /\ Located)
<1>1. Init /\ Lists => Located
  <2> SUFFICES ASSUME Init, Lists PROVE Located
    OBVIOUS
  <2>1. \A i \in Slots : inode[i] = NoInode
    BY DEF Init
  <2>2. \A i \in Slots, k \in Ids : ~Inode[i].data[k].dirty
    BY <2>1, DirRead, NoNodes
  <2>3. \A f \in Fats : ~mfat[f].dirty
    BY DEF Init, Fresh
  <2> QED BY <2>2, <2>3 DEF Located, Written, FatsIn
<1>2. Lists /\ Phase /\ Clean /\ Located /\ [Next]_vars /\ Lists' /\ Clean' => Located'
  BY NextWritten, NextFatsIn DEF Located
<1> QED BY <1>1, <1>2, SurvivesHolds, PTL DEF Spec

(* A file that is not its name's owner's: no other has the name. *)
LEMMA NotOwned ==
    ASSUME Lists, Clean, NEW i \in Slots, Inode[i].name \in Names,
           ~IsData(BlkId(Inode[i].first)) \/ LoadsAstray(Inode[i].first)
    PROVE  Inode[i].name \notin {n \in Names : Owned(n)}
<1>1. \A j \in Slots : Inode[j].name = Inode[i].name => j = i
  BY CallAssumption DEF Clean, Titles, Named
<1> QED BY <1>1 DEF Owned

(* An open file, as the program sees it. *)
LEMMA Opened ==
    ASSUME Lists, Clean, Sizes, NEW h \in Handles, hnd[h] # NoHandle
    PROVE  LET i == hnd[h].slot IN
           /\ i \in Slots /\ Inode = inode /\ inode[i].name \in Names
           /\ hnd[h].pos \in Nat /\ inode[i].size \in Nat /\ inode[i].size <= BLOCK_SIZE
           /\ Standing[h].name = inode[i].name /\ Standing[h].pos = hnd[h].pos
           /\ Standing[h] # Shut
           /\ Len(Files(Inode)[Standing[h].name].text) = inode[i].size
<1> DEFINE i == hnd[h].slot
           w == Standing[h]
<1>1. i \in Slots /\ Inode = inode /\ inode[i].name \in Names /\ hnd[h].pos \in Nat
  <2>1. i \in Slots /\ Inode = inode /\ inode[i].name \in Names
    BY DirRead
  <2>2. hnd[h].pos \in Nat
    BY DEF Lists, Types
  <2> QED BY <2>1, <2>2
<1>2. w = [name |-> inode[i].name, pos |-> hnd[h].pos]
  BY DEF Standing
<1>3. w.name = inode[i].name /\ w.pos = hnd[h].pos
  BY <1>2
<1>4. inode[i].name # "" /\ Shut.name = ""
  BY <1>1, CallAssumption DEF Shut
<1> HIDE DEF w
<1>5. w # Shut
  BY <1>3, <1>4
<1> HIDE DEF i
<1>6. /\ Files(Inode)[inode[i].name] = Found(Inode[i]) /\ Len(Text(Inode[i])) = inode[i].size
      /\ inode[i].size \in Nat /\ inode[i].size <= BLOCK_SIZE
  BY <1>1, Present
<1>7. Files(Inode)[w.name].text = Text(Inode[i])
  BY <1>3, <1>6 DEF Found
<1> QED BY <1>1, <1>3, <1>5, <1>6, <1>7 DEF i, w

(* The position of an open file moves. *)
LEMMA Advances ==
    ASSUME Lists, NEW h \in Handles, hnd[h] # NoHandle, NEW x \in Nat,
           hnd' = [hnd EXCEPT ![h].pos = hnd[h].pos + x],
           \A j \in Slots : inode'[j].name = inode[j].name
    PROVE  Standing' = [Standing EXCEPT ![h].pos = @ + x]
<1> DEFINE q == hnd[h].pos
           r == [hnd[h] EXCEPT !.pos = q + x]
           n == inode[hnd[h].slot].name
<1>1. hnd \in [Handles -> [slot : Slots \cup {0}, pos : Nat]] /\ hnd[h].slot \in Slots
  BY DEF Lists, Types, Nodes, Handled
<1>2. r.slot = hnd[h].slot /\ r.pos = q + x /\ hnd' = [hnd EXCEPT ![h] = r]
  BY <1>1
<1>3. r # NoHandle
  <2>1. NoHandle.slot = 0 /\ hnd[h].slot # 0
    BY <1>1, Constants DEF NoHandle
  <2> HIDE DEF r
  <2> QED BY <1>2, <2>1
<1>4. \A g \in Handles \ {h} : hnd[g] # NoHandle =>
        inode'[hnd[g].slot].name = inode[hnd[g].slot].name
  BY DirRead
<1>5. inode'[hnd[h].slot].name = n
  BY <1>1
<1> HIDE DEF r
<1>6. Standing' = Put(Standing, h, IF r = NoHandle THEN Shut
                                   ELSE [name |-> inode'[r.slot].name, pos |-> r.pos])
  BY <1>2, <1>4, Moves DEF Lists
<1>7. Standing[h] = [name |-> n, pos |-> q]
  BY DEF Standing
<1>8. [Standing[h] EXCEPT !.pos = @ + x] = [name |-> n, pos |-> q + x]
  BY <1>7
<1>9. Standing' = Put(Standing, h, [Standing[h] EXCEPT !.pos = @ + x])
  BY <1>2, <1>3, <1>5, <1>6, <1>8
<1> QED BY <1>9 DEF Put

LEMMA WriteExcused ==
    ASSUME Lists, Clean, Sizes, NEW h \in Handles, NEW s \in Bufs, Write(h, s),
           ~stray, stray', Lists'
    PROVE  Store!Elsewhere(h, s)
<1> DEFINE i == hnd[h].slot
           q == hnd[h].pos
<1>1. /\ hnd[h] # NoHandle /\ hnd' = [hnd EXCEPT ![h].pos = q + Len(s)] /\ got' = <<>>
  BY DEF Write, Returns
<1>2. /\ i \in Slots /\ Len(s) \in Nat
      /\ \A j \in Slots : Inode'[j].name = Inode[j].name
      /\ stray' = (stray \/ q # inode[i].size \/ ~IsData(BlkId(inode[i].first)))
  <2>1. /\ i \in Slots /\ Len(s) \in Nat /\ Inode'[i].name = Inode[i].name
        /\ \A j \in Slots \ {i} : Inode'[j] = Inode[j]
        /\ stray' = (stray \/ q # inode[i].size \/ ~IsData(BlkId(inode[i].first)))
    BY WriteViews
  <2> QED BY <2>1
<1>3. Inode = inode /\ Inode' = inode'
  <2>1. dir.cached /\ dir \in DirBlock
    BY <1>1 DEF Lists, Types, Nodes, Handled, DirBlock
  <2>2. dir'.cached
    <3>1. PICK b : dir' = [dir EXCEPT !.dirty = TRUE, !.block = b]
      BY DEF Write
    <3> QED BY <2>1, <3>1 DEF DirBlock
  <2> QED BY <2>1, <2>2 DEF Inode
<1>4. Standing' = [Standing EXCEPT ![h].pos = @ + Len(s)]
  BY <1>1, <1>2, <1>3, Advances
<1>5. /\ inode[i].name \in Names
      /\ Standing[h].name = inode[i].name /\ Standing[h].pos = q /\ Standing[h] # Shut
      /\ Len(Files(Inode)[Standing[h].name].text) = inode[i].size
  BY <1>1, Opened
<1>6. \/ Standing[h].pos # Len(Files(Inode)[Standing[h].name].text)
      \/ Standing[h].name \notin {n \in Names : Owned(n)}
  <2>1. CASE q # inode[i].size
    BY <1>5, <2>1
  <2>2. CASE ~IsData(BlkId(inode[i].first))
    <3>1. inode[i].name \notin {n \in Names : Owned(n)}
      BY <1>2, <1>3, <1>5, <2>2, NotOwned
    <3> QED BY <1>5, <3>1
  <2> QED BY <1>2, <2>1, <2>2
<1> HIDE DEF q
<1> QED BY <1>1, <1>4, <1>5, <1>6 DEF Store!Elsewhere, Store!Closed, Standing, Shut

LEMMA ReadExcused ==
    ASSUME Lists, Clean, Sizes, NEW h \in Handles, NEW k \in Lens, Read(h, k), ~stray, stray'
    PROVE  Store!Beyond(h, k)
<1> DEFINE i == hnd[h].slot
           q == hnd[h].pos
<1>1. hnd[h] # NoHandle /\ stray' = (stray \/ q > inode[i].size)
  BY DEF Read
<1>2. q > inode[i].size
  BY <1>1
<1>3. hnd' = [hnd EXCEPT ![h].pos = q + k]
  BY <1>2 DEF Read, Count
<1>4. dir' = dir /\ dir.cached
  BY <1>1 DEF Read, Lists, Nodes, Handled
<1>5. \A j \in Slots : inode'[j].name = inode[j].name
  <2>1. Inode = inode /\ Inode' = inode'
    BY <1>4 DEF Inode
  <2>2. PICK P \in BOOLEAN : /\ i \in Slots /\ Inode'[i].name = Inode[i].name
                             /\ \A j \in Slots \ {i} : Inode'[j] = Inode[j]
    BY ReadViews
  <2> QED BY <2>1, <2>2
<1>6. Standing' = [Standing EXCEPT ![h].pos = @ + k]
  BY <1>1, <1>3, <1>5, Advances, CallAssumption
<1>7. /\ Standing[h] # Shut /\ Standing[h].pos > Len(Files(Inode)[Standing[h].name].text)
  BY <1>1, <1>2, Opened
<1> QED BY <1>6, <1>7 DEF Store!Beyond, Store!Closed, Standing, Shut

LEMMA CreateExcused ==
    ASSUME Lists, Clean, Sizes, NEW h \in Handles, NEW n \in Names, Create(h, n), Lists', Clean',
           Sound, ~Sound'
    PROVE  Store!Shared(h, n)
<1>1. Store!Open(h, n)
  BY CreateImplements
<1>2. Files(Inode)[n] = Gone
  BY CreateViews, Lookup DEF Clean
<1>3. ~NewIsOwned
  <2>1. /\ FatsWithFree # {} /\ pc' = pc
        /\ stray' = (stray \/ InUse(FreeCluster))
        /\ far' = (far \/ FreeCluster \div FAT_ENTRY_PER_BLK # 0)
    BY DEF Create, Returns
  <2> QED BY <2>1 DEF Sound, NewIsOwned
<1>4. ~Files(Inode)[n].exists
  BY <1>2 DEF Gone
<1> QED BY <1>1, <1>3, <1>4 DEF Store!Open, Store!Shared

(* A sync that meets a block without a place follows a stray call. *)
LEMMA SyncExcused == ASSUME Lists, Located, Clean, SyncAstray PROVE ~Sound
<1> SUFFICES ASSUME Sound PROVE FALSE
  OBVIOUS
<1>1. dirty # <<>> /\ ~Placed(Head(dirty)) /\ ~stray /\ ~far
  BY DEF SyncAstray, Sound
<1>2. Head(dirty) \in Blocks /\ In(dirty, Head(dirty))
  BY <1>1, Delisting DEF Lists, Types, Listed
<1>3. CASE Head(dirty) = DirE
  BY <1>1, <1>3 DEF Placed, DirE
<1>4. ASSUME NEW f \in Fats, Head(dirty) = FatE(f) PROVE FALSE
  <2>1. mfat[f].dirty
    BY <1>2, <1>4 DEF Lists, Listed, FatListed
  <2>2. mfat[f].cached
    BY <1>1, <2>1 DEF Located, FatsIn
  <2> QED BY <1>1, <1>4, <2>2 DEF Placed, FatE
<1>5. ASSUME NEW i \in Slots, NEW k \in Ids, Head(dirty) = FileE(i, k) PROVE FALSE
  <2>1. inode[i].data[k].dirty
    BY <1>2, <1>5 DEF Lists, Listed, FileListed
  <2>2. IsData(inode[i].data[k].id)
    BY <1>1, <2>1, DirRead DEF Located, Written
  <2> QED BY <1>1, <1>5, <2>2 DEF Placed, FileE
<1> QED BY <1>2, <1>3, <1>4, <1>5, BlockKinds

LEMMA DerailExcused ==
    ASSUME Lists, Located, Clean, Sizes, Astray, Sound
    PROVE  Store!Derailed
<1>1. UNCHANGED <<card, mfat, dir, inode, hnd, got, safe>>
  BY AstrayLost DEF Derails, memory
<1>2. Inode' = Inode
  BY <1>1 DEF Inode
<1>3. Files(Inode)' = Files(Inode) /\ Standing' = Standing
  BY <1>1, <1>2, QuietFiles, Stays
<1> DEFINE Reason == \/ ~NewIsOwned
                     \/ \E h \in Handles : Standing[h] # Shut /\
                          \/ Standing[h].name \notin {n \in Names : Owned(n)}
                          \/ Standing[h].pos > Len(Files(Inode)[Standing[h].name].text)
                          \/ Standing[h].pos >= BLOCK_SIZE
                          \/ \E s \in Bufs : Standing[h].pos + Len(s) > BLOCK_SIZE
<1>4. ~SyncAstray
  BY SyncExcused
<1>5. ASSUME NEW n \in Names, CreateAstray(n) PROVE Reason
  <2>1. FatsWithFree # {} /\ FreeCluster \div FAT_ENTRY_PER_BLK \notin Fats
    BY <1>5 DEF CreateAstray
  <2> QED BY <2>1, Constants DEF NewIsOwned
<1>6. ASSUME NEW h \in Handles, NEW s \in Bufs, WriteAstray(h, s) PROVE Reason
  <2>1. /\ hnd[h] # NoHandle
        /\ \/ hnd[h].pos >= BLOCK_SIZE \/ hnd[h].pos + Len(s) > BLOCK_SIZE
           \/ LoadsAstray(inode[hnd[h].slot].first)
    BY <1>6 DEF WriteAstray
  <2>2. /\ hnd[h].slot \in Slots /\ Inode = inode /\ inode[hnd[h].slot].name \in Names
        /\ Standing[h].name = inode[hnd[h].slot].name /\ Standing[h].pos = hnd[h].pos
        /\ Standing[h] # Shut
    BY <2>1, Opened
  <2>3. CASE LoadsAstray(inode[hnd[h].slot].first)
    <3>1. inode[hnd[h].slot].name \notin {n \in Names : Owned(n)}
      BY <2>2, <2>3, NotOwned
    <3> QED BY <2>2, <3>1
  <2> QED BY <2>1, <2>2, <2>3
<1>7. ASSUME NEW h \in Handles, NEW k \in Lens, ReadAstray(h, k) PROVE Reason
  <2> DEFINE i == hnd[h].slot
             q == hnd[h].pos
             z == inode[i].size
             m == Count(inode[i], q, k)
  <2>1. hnd[h] # NoHandle /\ (~(BlocksRead(q, m) \subseteq Ids) \/ LoadsAstray(inode[i].first))
    BY <1>7 DEF ReadAstray
  <2>2. /\ i \in Slots /\ Inode = inode /\ inode[i].name \in Names
        /\ q \in Nat /\ z \in Nat /\ z <= BLOCK_SIZE
        /\ Standing[h].name = inode[i].name /\ Standing[h].pos = q /\ Standing[h] # Shut
        /\ Len(Files(Inode)[Standing[h].name].text) = z
    BY <2>1, Opened
  <2>3. CASE q > z
    BY <2>2, <2>3
  <2>4. CASE LoadsAstray(inode[i].first)
    <3>1. inode[i].name \notin {n \in Names : Owned(n)}
      BY <2>2, <2>4, NotOwned
    <3> QED BY <2>2, <3>1
  <2>5. ASSUME ~(q > z) PROVE BlocksRead(q, m) \subseteq Ids
    <3>1. k \in Nat /\ z - q \in Nat /\ m = Min({k, z - q})
      <4>1. m = IF q > z THEN k ELSE Min({k, z - q})
        BY DEF Count
      <4> HIDE DEF m, z, q, i
      <4>2. q \in Nat /\ z \in Nat /\ k \in Nat
        BY <2>2, CallAssumption
      <4>3. z - q \in Nat
        BY <2>5, <4>2
      <4> QED BY <2>5, <4>1, <4>2, <4>3
    <3>2. m \in Nat /\ m <= z - q
      <4>1. {k, z - q} \in SUBSET Nat /\ {k, z - q} # {}
        BY <3>1
      <4>2. Min({k, z - q}) \in {k, z - q} /\ \A y \in {k, z - q} : Min({k, z - q}) <= y
        BY <4>1, MinIn
      <4> QED BY <3>1, <4>2
    <3> HIDE DEF m, z, q, i
    <3>3. ASSUME NEW x \in q .. (q + m - 1) PROVE x \div BLOCK_SIZE = 0
      <4>1. x \in Nat /\ x < BLOCK_SIZE /\ BLOCK_SIZE \in Nat \ {0}
        BY <2>2, <3>1, <3>2, Constants
      <4> QED BY <4>1
    <3> QED BY <3>3, Constants DEF BlocksRead
  <2> HIDE DEF q, z, m
  <2> QED BY <2>1, <2>3, <2>4, <2>5
<1> HIDE DEF Reason
<1>8. Reason
  BY <1>4, <1>5, <1>6, <1>7 DEF Astray
<1> QED BY <1>1, <1>3, <1>8 DEF Reason, Store!Derailed, Store!Closed, Standing, Shut

LEMMA ExcuseImplements ==
    ASSUME Lists, Phase, Located, Clean, Survives, [Next]_vars, Lists', Clean', Sound, ~Sound'
    PROVE  Store!Excuse
<1>1. ~stray /\ ~far /\ pc # "lost" /\ Sizes
  BY DEF Sound, Survives
<1>2. CASE \/ SyncStart \/ SyncDone \/ SyncStep \/ SyncRetry \/ PowerCut \/ UNCHANGED vars
           \/ \E n \in Names : CreateFails(n)
           \/ \E h \in Handles : \/ \E n \in Names : Open(h, n)
                                 \/ Close(h)
                                 \/ \E q \in Offsets : Seek(h, q)
  <2>1. stray' = stray /\ far' = far /\ pc' # "lost"
    <3>1. CASE SyncStart \/ SyncDone \/ PowerCut
      BY <3>1 DEF SyncStart, SyncDone, PowerCut
    <3>2. CASE SyncStep \/ SyncRetry \/ UNCHANGED vars
      BY <1>1, <3>2 DEF SyncStep, SyncRetry, vars
    <3>3. CASE \/ \E n \in Names : CreateFails(n)
               \/ \E h \in Handles : \/ \E n \in Names : Open(h, n)
                                     \/ Close(h)
                                     \/ \E q \in Offsets : Seek(h, q)
      BY <1>1, <3>3 DEF CreateFails, Open, Close, Seek, Returns
    <3> QED BY <1>2, <3>1, <3>2, <3>3
  <2> QED BY <1>1, <2>1 DEF Sound
<1>3. ASSUME NEW h \in Handles, NEW n \in Names, Create(h, n) PROVE Store!Excuse
  <2>1. Store!Shared(h, n)
    BY <1>1, <1>3, CreateExcused
  <2> QED BY <2>1 DEF Store!Excuse
<1>4. ASSUME NEW h \in Handles, NEW s \in Bufs, Write(h, s) PROVE Store!Excuse
  <2>1. stray'
    BY <1>1, <1>4 DEF Write, Returns, Sound
  <2>2. Store!Elsewhere(h, s)
    BY <1>1, <1>4, <2>1, WriteExcused
  <2> QED BY <2>2 DEF Store!Excuse
<1>5. ASSUME NEW h \in Handles, NEW k \in Lens, Read(h, k) PROVE Store!Excuse
  <2>1. stray'
    BY <1>1, <1>5 DEF Read, Sound
  <2>2. Store!Beyond(h, k)
    BY <1>1, <1>5, <2>1, ReadExcused
  <2> QED BY <2>2 DEF Store!Excuse
<1>6. CASE Astray
  BY <1>1, <1>6, DerailExcused DEF Store!Excuse
<1> QED BY <1>2, <1>3, <1>4, <1>5, <1>6 DEF Next, Astray

LEMMA NextImplements ==
    ASSUME Lists, Phase, Located, Clean, Survives, [Next]_vars, Lists', Clean', Survives'
    PROVE  [Store!Next]_(Store!vars)
<1>1. CASE ~Sound'
  <2>1. CASE Sound
    <3>1. Store!Excuse
      BY <1>1, <2>1, ExcuseImplements
    <3> QED BY <1>1, <2>1, <3>1 DEF Sound, Store!Next
  <2>2. CASE ~Sound
    BY <1>1, <2>2 DEF Sound, Store!Next
  <2> QED BY <2>1, <2>2
<1>2. CASE Sound'
  <2>1. Sound /\ Trusted /\ Sizes /\ SafeKept /\ Sizes' /\ ~stray'
    BY <1>2, SoundBack DEF Survives, Sound
  <2>2. ~stray /\ ~far /\ pc # "lost" /\ ~stray' /\ ~far' /\ pc' # "lost"
    BY <1>2, <2>1 DEF Sound
  <2>3. CASE \E h \in Handles, n \in Names : Open(h, n) \/ Create(h, n)
    <3>1. PICK h \in Handles, n \in Names : Open(h, n) \/ Create(h, n)
      BY <2>3
    <3>2. Store!Open(h, n)
      BY <2>1, <3>1, OpenImplements, CreateImplements
    <3> QED BY <2>2, <3>2 DEF Store!Next
  <2>4. CASE \E h \in Handles : Close(h)
    BY <2>2, <2>4, CloseImplements DEF Store!Next
  <2>5. CASE \E h \in Handles, q \in Offsets : Seek(h, q)
    BY <2>2, <2>5, SeekImplements DEF Store!Next
  <2>6. CASE \E h \in Handles, s \in Bufs : Write(h, s)
    BY <2>1, <2>2, <2>6, WriteImplements DEF Store!Next
  <2>7. CASE \E h \in Handles, k \in Lens : Read(h, k)
    BY <2>1, <2>2, <2>7, ReadImplements DEF Store!Next
  <2>8. CASE SyncStart \/ \E n \in Names : CreateFails(n)
    BY <2>2, <2>8, QuietImplements DEF Store!Next
  <2>9. CASE SyncDone
    BY <2>2, <2>9, SyncImplements DEF Store!Next
  <2>10. CASE PowerCut
    BY <2>1, <2>2, <2>10, PowerImplements DEF Store!Next
  <2>11. CASE SyncStep \/ SyncRetry
    BY <2>1, <2>11, StoreImplements
  <2>12. CASE UNCHANGED vars
    <3>1. inode' = inode /\ dir' = dir /\ card' = card /\ hnd' = hnd /\ got' = got /\ safe' = safe
          /\ stray' = stray /\ far' = far /\ pc' = pc
      BY <2>12 DEF vars, memory
    <3>2. Inode' = Inode
      BY <3>1 DEF Inode
    <3>3. Files(Inode)' = Files(Inode) /\ Standing' = Standing
      BY <3>1, <3>2, QuietFiles, Stays
    <3> QED BY <3>1, <3>3 DEF Store!vars, Standing, Shut
  <2>13. CASE Astray
    BY <2>2, <2>13, AstrayLost DEF Derails
  <2> QED BY <2>3, <2>4, <2>5, <2>6, <2>7, <2>8, <2>9, <2>10, <2>11, <2>12, <2>13 DEF Next, Astray
<1> QED BY <1>1, <1>2

(* fat32.c keeps the promise of DurableFiles on every card whose files     *)
(* have one cluster each: reads give what was written, and a file that did *)
(* not change since the last sync survives a loss of power.  The promise   *)
(* is for files of at most a block, with a data cluster of their own, to   *)
(* which programs append and within which they read; it ends only with one *)
(* of the calls DurableFiles!Excuse lists, be it that the kernel does not  *)
(* come back from it.                                                      *)
THEOREM FatImplementsDurable ==
    ASSUME \A c \in Cards : OneClusterEach(c)
    PROVE  Spec => Durable
<1>1. Init => Store!Init
  <2> SUFFICES ASSUME Init PROVE Store!Init
    OBVIOUS
  <2>1. Empty /\ safe = Files(Parsed(card.dir)) /\ got = <<>> /\ Sound
    BY DEF Init, Empty, Sound
  <2>2. safe = Files(Inode)
    BY <2>1, EmptyViews
  <2>3. Standing = [h \in Handles |-> Shut]
    BY <2>1 DEF Empty, Standing
  <2>4. (~stray /\ ~far /\ pc # "lost") = TRUE
    BY <2>1 DEF Sound
  <2> QED BY <2>1, <2>2, <2>3, <2>4 DEF Store!Init, Store!Closed, Standing, Shut
<1>2. Lists /\ Phase /\ Located /\ Clean /\ Survives /\ [Next]_vars /\ Lists' /\ Clean' /\ Survives'
        => [Store!Next]_(Store!vars)
  BY NextImplements
<1> QED BY <1>1, <1>2, LocatedHolds, PTL DEF Spec, Durable, Store!Spec
============================================================================
