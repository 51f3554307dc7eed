------------------------------ MODULE MCFat32 ------------------------------
(* Cards with five FAT blocks of six entries.  Cluster c, a file's first,  *)
(* is looked up in the FAT as block ClusterBegin + c - 2.                  *)
EXTENDS Fat32

MCBufs == {<<1>>, <<2>>, <<>>}

(* the FAT blocks in full have no free entry; cluster 3 is a file's        *)
Fat(full) ==
    [f \in Fats |-> [j \in 0 .. (FAT_ENTRY_PER_BLK - 1) |->
        IF f \in full \/ (f = 0 /\ j \in 0 .. 3) THEN END ELSE FREE]]
CardOf(full, size, first) ==
    [fat |-> Fat(full),
     dir |-> [i \in Slots |-> IF i = 1 THEN [name |-> "a", size |-> size, first |-> first]
                              ELSE NoEnt],
     data |-> [c \in Clusters |-> [k \in 1 .. BLOCK_SIZE |-> IF c = 3 THEN 1 ELSE Junk]]]

(* two free clusters in the first FAT block, and an empty file "a", which  *)
(* other systems give the cluster 0; the first FAT block full; the first   *)
(* two full; all full                                                      *)
MCCards == {CardOf({}, 1, 3), CardOf({}, 0, 0), CardOf({0}, 1, 3), CardOf({0, 1}, 1, 3),
            CardOf(Fats, 1, 3)}
FullCard == {CardOf({0}, 1, 3)}

ASSUME CardsOfOneCluster == \A c \in MCCards \cup FullCard : OneClusterEach(c)
=============================================================================
