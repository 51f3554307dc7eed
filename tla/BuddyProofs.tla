----------------------------- MODULE BuddyProofs -----------------------------
(***************************************************************************)
(* Proofs about module Buddy, for every number of orders, every set of     *)
(* reserved frames and whatever natural numbers reference_cnt holds at     *)
(* boot: type correctness, the disjointness of all blocks, the stability   *)
(* of granted blocks, that Buddy implements PageAllocator, and that the    *)
(* lists, their counts and the frame table agree (ListsExact).  Of a table *)
(* that starts zeroed: reference_cnt counts the owners (RefsExact), a      *)
(* double free and nothing else is caught (DoubleFreeCaught), no frame is  *)
(* lost (NoFrameLost) and coalescing is complete (AllocComplete).          *)
(***************************************************************************)
EXTENDS Buddy, FiniteSetTheorems, WellFoundedInduction, TLAPS

(***************************************************************************)
(* The inductive invariant.  A block is a run of Size[order[f]] frames     *)
(* headed by f: a granted one, a listed one, or the one the call in        *)
(* progress holds in its hands.                                            *)
(***************************************************************************)
At(L, o, f) == \E k \in DOMAIN L[o] : L[o][k] = f
NoRepeat(L) == \A o \in Orders : \A j, k \in DOMAIN L[o] : L[o][j] = L[o][k] => j = k

Busy == pc \in {"split", "merge"}
End(f) == f + Size[order[f]]
Block(f) == \/ Held(f)
            \/ \E o \in Orders : At(list, o, f)
            \/ Busy /\ f = cur

Aligned == \A f \in Frames : Block(f) => f % Size[order[f]] = 0
Disjoint == \A f, g \in Frames : Block(f) /\ Block(g) /\ f < g => End(f) <= g
ListedFree == \A o \in Orders, f \in Frames :
    At(list, o, f) => used[f] = "AVAL" /\ order[f] = o /\ ~(Busy /\ f = cur)
FreeListed == \A f \in Frames :
    used[f] = "AVAL" => \/ At(list, order[f], f)
                        \/ Busy /\ cur <= f /\ f < End(cur)
HeldUsed == \A f, g \in Frames : Held(f) /\ f <= g /\ g < End(f) => used[g] = "USED"
UsedOwned == \A g \in Frames :
    used[g] = "USED" => \/ g \in Reserved \cup leaked
                        \/ \E f \in Frames : Held(f) /\ f <= g /\ g < End(f)
CurFree == /\ Busy => ~Held(cur)
           /\ pc = "split" => target <= order[cur]
RefsBelow == pc # "hung" => \A f \in Frames : refs[f] <= refcnt[f]

Inv == /\ TypeOK
       /\ NoRepeat(list)
       /\ Aligned
       /\ Disjoint
       /\ ListedFree
       /\ FreeListed
       /\ HeldUsed
       /\ UsedOwned
       /\ CurFree
       /\ RefsBelow

(***************************************************************************)
(* Arithmetic of aligned blocks.                                           *)
(***************************************************************************)

(* A multiple of S has a quotient. *)
LEMMA Quotient ==
    ASSUME NEW S \in Nat \ {0}, NEW f \in Nat, f % S = 0
    PROVE  \E q \in Nat : f = q * S
<1>1. f = ((f \div S) * S) + (f % S)
  OBVIOUS
<1>2. f \div S \in Nat
  OBVIOUS
<1> QED BY <1>1, <1>2

(* ... and a product with S is a multiple of S. *)
LEMMA Multiple ==
    ASSUME NEW S \in Nat \ {0}, NEW q \in Nat
    PROVE  (q * S) % S = 0
OBVIOUS

(* Both halves of an aligned block are aligned (release_redundant_block).  *)
LEMMA Halves ==
    ASSUME NEW S \in Nat \ {0}, NEW f \in Nat, f % (2 * S) = 0
    PROVE  f % S = 0 /\ (f + S) % S = 0
<1>1. PICK q \in Nat : f = q * (2 * S)
  BY Quotient
<1>2. f = (2 * q) * S
  BY <1>1
<1>3. f + S = (2 * q + 1) * S
  BY <1>2
<1> QED BY <1>2, <1>3, Multiple

(* The lower neighbour of an upper half is aligned for the joined block.   *)
LEMMA LowerHalf ==
    ASSUME NEW S \in Nat \ {0}, NEW f \in Nat, f % S = 0, f % (2 * S) # 0
    PROVE  f >= S /\ (f - S) % (2 * S) = 0
<1>1. PICK q \in Nat : f = q * S
  BY Quotient
<1>2. (\E r \in Nat : q = 2 * r) \/ (\E r \in Nat : q = 2 * r + 1)
  <2>1. q \div 2 \in Nat /\ (q = 2 * (q \div 2) \/ q = 2 * (q \div 2) + 1)
    OBVIOUS
  <2> QED BY <2>1
<1>3. CASE \E r \in Nat : q = 2 * r
  <2>1. PICK r \in Nat : q = 2 * r
    BY <1>3
  <2>2. f = r * (2 * S)
    BY <1>1, <2>1
  <2> QED BY <2>2, Multiple
<1>4. CASE \E r \in Nat : q = 2 * r + 1
  <2>1. PICK r \in Nat : q = 2 * r + 1
    BY <1>4
  <2>2. f = r * (2 * S) + S
    BY <1>1, <2>1
  <2>3. f - S = r * (2 * S)
    BY <2>2
  <2>4. (f - S) % (2 * S) = 0
    BY <2>3, Multiple
  <2>5. r * (2 * S) >= 0
    OBVIOUS
  <2> QED BY <2>2, <2>4, <2>5
<1> QED BY <1>2, <1>3, <1>4

(* An aligned block that starts inside the pool ends inside it.            *)
LEMMA EndsInside ==
    ASSUME NEW S \in Nat \ {0}, NEW N \in Nat, NEW f \in Nat,
           f % S = 0, N % S = 0, f < N
    PROVE  f + S <= N
<1>1. PICK q \in Nat : f = q * S
  BY Quotient
<1>2. PICK n \in Nat : N = n * S
  BY Quotient
<1>3. q < n
  BY <1>1, <1>2
<1>4. n = q + 1 + (n - q - 1) /\ n - q - 1 \in Nat
  BY <1>3
<1>5. N = f + S + (n - q - 1) * S
  BY <1>1, <1>2, <1>4
<1>6. (n - q - 1) * S >= 0
  BY <1>4
<1> QED BY <1>5, <1>6

(* The constants, as the provers want them.                                *)
LEMMA Constants ==
    /\ MaxOrder \in Nat /\ 0 \in Orders /\ Orders \subseteq Nat
    /\ PageNum \in Nat \ {0} /\ Frames \subseteq Nat /\ 0 \in Frames
    /\ \A f \in Frames : f < PageNum
    /\ \A f \in Nat : f < PageNum => f \in Frames
    /\ \A o \in Orders : Size[o] \in Nat \ {0} /\ PageNum % Size[o] = 0
    /\ \A o \in Orders : o < MaxOrder => o + 1 \in Orders /\ Size[o + 1] = 2 * Size[o]
    /\ Size[0] = 1
BY OrderAssumption, SizeAssumption DEF Orders, Frames, PageNum

(* The buddy of an aligned block of order o < MAX_BUDDY_ORDER is in the    *)
(* pool, is the neighbour, and the lower of the two heads an aligned block *)
(* of order o + 1: merge_page never looks outside page_frame.              *)
LEMMA BuddyFacts ==
    ASSUME NEW f \in Frames, NEW o \in Orders, o < MaxOrder, f % Size[o] = 0
    PROVE  /\ BuddyOf(f, o) \in Frames
           /\ BuddyOf(f, o) = f + Size[o] \/ BuddyOf(f, o) = f - Size[o]
           /\ BuddyOf(f, o) > f => f % Size[o + 1] = 0
           /\ BuddyOf(f, o) <= f => BuddyOf(f, o) % Size[o + 1] = 0
<1> DEFINE S == Size[o]
<1>1. S \in Nat \ {0} /\ Size[o + 1] = 2 * S /\ o + 1 \in Orders /\ f \in Nat
      /\ f < PageNum /\ PageNum \in Nat
  BY Constants
<1>2. PageNum % (2 * S) = 0
  BY <1>1, Constants
<1> HIDE DEF S
<1>3. CASE f % (2 * S) = 0
  <2>1. BuddyOf(f, o) = f + S
    BY <1>3 DEF BuddyOf, S
  <2>2. f + 2 * S <= PageNum
    BY <1>1, <1>2, <1>3, EndsInside
  <2>3. f + S \in Frames
    BY <1>1, <2>2, Constants
  <2> QED BY <1>1, <1>3, <2>1, <2>3 DEF S
<1>4. CASE f % (2 * S) # 0
  <2>1. BuddyOf(f, o) = f - S
    BY <1>4 DEF BuddyOf, S
  <2>2. f >= S /\ (f - S) % (2 * S) = 0
    <3>1. f % S = 0
      BY DEF S
    <3> QED BY <1>1, <1>4, <3>1, LowerHalf
  <2>3. f - S \in Frames
    BY <1>1, <2>2, Constants
  <2> QED BY <1>1, <2>1, <2>2, <2>3 DEF S
<1> QED BY <1>3, <1>4

(***************************************************************************)
(* The lists.                                                              *)
(***************************************************************************)

(* What RemoveAt leaves of a sequence. *)
LEMMA RemoveAtFacts ==
    ASSUME NEW S, NEW s \in Seq(S), NEW k \in DOMAIN s
    PROVE  /\ RemoveAt(s, k) \in Seq(S)
           /\ Len(RemoveAt(s, k)) = Len(s) - 1
           /\ \A i \in 1 .. (Len(s) - 1) :
                RemoveAt(s, k)[i] = IF i < k THEN s[i] ELSE s[i + 1]
<1> DEFINE a == SubSeq(s, 1, k - 1)
           b == SubSeq(s, k + 1, Len(s))
<1>1. k \in 1 .. Len(s) /\ Len(s) \in Nat
  OBVIOUS
<1>2. a \in Seq(S) /\ Len(a) = k - 1 /\ \A i \in 1 .. (k - 1) : a[i] = s[i]
  BY <1>1
<1>3. b \in Seq(S) /\ Len(b) = Len(s) - k /\ \A i \in 1 .. (Len(s) - k) : b[i] = s[k + i]
  <2>1. CASE k = Len(s)
    BY <1>1, <2>1
  <2>2. CASE k < Len(s)
    BY <1>1, <2>2
  <2> QED BY <1>1, <2>1, <2>2
<1> HIDE DEF a, b
<1>4. RemoveAt(s, k) = a \o b
  BY DEF RemoveAt, a, b
<1> QED BY <1>1, <1>2, <1>3, <1>4

(* remove_pageframe takes that node off that list and nothing else. *)
LEMMA Unlink ==
    ASSUME NEW L \in [Orders -> Seq(Frames)], NoRepeat(L),
           NEW o \in Orders, NEW k \in DOMAIN L[o]
    PROVE  LET M == Removed(L, o, k) IN
           /\ M \in [Orders -> Seq(Frames)]
           /\ NoRepeat(M)
           /\ L[o][k] \in Frames
           /\ \A q \in Orders, f \in Frames :
                At(M, q, f) <=> At(L, q, f) /\ ~(q = o /\ f = L[o][k])
<1> DEFINE s == L[o]
           r == RemoveAt(s, k)
           M == Removed(L, o, k)
<1>1. s \in Seq(Frames) /\ k \in DOMAIN s
  OBVIOUS
<1>2. \A i, j \in DOMAIN s : s[i] = s[j] => i = j
  BY DEF NoRepeat
<1>3. /\ r \in Seq(Frames) /\ Len(r) = Len(s) - 1
      /\ \A i \in 1 .. (Len(s) - 1) : r[i] = IF i < k THEN s[i] ELSE s[i + 1]
  BY <1>1, RemoveAtFacts
<1>4. M = [q \in Orders |-> IF q = o THEN r ELSE L[q]]
  BY DEF Removed
<1> HIDE DEF s, r, M
<1>5. DOMAIN r = 1 .. (Len(s) - 1) /\ DOMAIN s = 1 .. Len(s) /\ Len(s) \in Nat
  BY <1>1, <1>3
<1>6. ASSUME NEW i \in DOMAIN r
      PROVE  \E j \in DOMAIN s : j # k /\ r[i] = s[j]
  <2>0. i \in 1 .. (Len(s) - 1) /\ k \in Int
    BY <1>1, <1>5
  <2>1. CASE i < k
    <3>1. i \in DOMAIN s /\ i # k /\ r[i] = s[i]
      BY <1>3, <1>5, <2>0, <2>1
    <3> QED BY <3>1
  <2>2. CASE i >= k
    <3>1. i + 1 \in DOMAIN s /\ i + 1 # k /\ r[i] = s[i + 1]
      BY <1>3, <1>5, <2>0, <2>2
    <3> QED BY <3>1
  <2> QED BY <2>0, <2>1, <2>2
<1>7. ASSUME NEW j \in DOMAIN s, j # k
      PROVE  \E i \in DOMAIN r : r[i] = s[j]
  <2>1. CASE j < k
    BY <1>1, <1>3, <1>5, <2>1
  <2>2. CASE j > k
    <3>1. j - 1 \in DOMAIN r
      BY <1>1, <1>5, <2>2
    <3>2. r[j - 1] = s[j]
      BY <1>1, <1>3, <1>5, <2>2, <3>1
    <3> QED BY <3>1, <3>2
  <2> QED BY <1>1, <1>5, <1>7, <2>1, <2>2
<1>8. ASSUME NEW i \in DOMAIN r, NEW j \in DOMAIN r, r[i] = r[j]
      PROVE  i = j
  <2>0. i \in Int /\ j \in Int /\ k \in Int
    BY <1>1, <1>5
  <2>1. CASE i < k /\ j < k
    BY <1>1, <1>2, <1>3, <1>5, <1>8, <2>1
  <2>2. CASE i < k /\ j >= k
    <3>1. s[i] = s[j + 1] /\ i \in DOMAIN s /\ j + 1 \in DOMAIN s
      BY <1>1, <1>3, <1>5, <1>8, <2>2
    <3>2. i = j + 1
      BY <1>2, <3>1
    <3> QED BY <2>0, <2>2, <3>2
  <2>3. CASE i >= k /\ j < k
    <3>1. s[i + 1] = s[j] /\ i + 1 \in DOMAIN s /\ j \in DOMAIN s
      BY <1>1, <1>3, <1>5, <1>8, <2>3
    <3>2. i + 1 = j
      BY <1>2, <3>1
    <3> QED BY <2>0, <2>3, <3>2
  <2>4. CASE i >= k /\ j >= k
    <3>1. s[i + 1] = s[j + 1] /\ i + 1 \in DOMAIN s /\ j + 1 \in DOMAIN s
      BY <1>1, <1>3, <1>5, <1>8, <2>4
    <3>2. i + 1 = j + 1
      BY <1>2, <3>1
    <3> QED BY <2>0, <3>2
  <2> QED BY <2>0, <2>1, <2>2, <2>3, <2>4
<1>9. M \in [Orders -> Seq(Frames)]
  BY <1>3, <1>4
<1>10. NoRepeat(M)
  BY <1>4, <1>8 DEF NoRepeat
<1>11. L[o][k] \in Frames
  BY <1>1 DEF s
<1>12. ASSUME NEW q \in Orders, NEW f \in Frames
       PROVE  At(M, q, f) <=> At(L, q, f) /\ ~(q = o /\ f = L[o][k])
  <2>1. CASE q # o
    BY <1>4, <2>1 DEF At
  <2>2. CASE q = o
    <3>1. M[q] = r /\ L[q] = s
      BY <1>4, <2>2 DEF s
    <3>2. (\E i \in DOMAIN r : r[i] = f) <=> (\E j \in DOMAIN s : s[j] = f) /\ f # s[k]
      BY <1>1, <1>2, <1>6, <1>7
    <3> QED BY <2>2, <3>1, <3>2 DEF At
  <2> QED BY <2>1, <2>2
<1> QED BY <1>9, <1>10, <1>11, <1>12 DEF M

(* insert_pageframe puts one node on one list. *)
LEMMA Link ==
    ASSUME NEW L \in [Orders -> Seq(Frames)], NoRepeat(L),
           NEW o \in Orders, NEW x \in Frames, ~At(L, o, x)
    PROVE  LET M == Inserted(L, o, x) IN
           /\ M \in [Orders -> Seq(Frames)]
           /\ NoRepeat(M)
           /\ \A q \in Orders, f \in Frames :
                At(M, q, f) <=> At(L, q, f) \/ (q = o /\ f = x)
<1> DEFINE s == L[o]
           r == Append(s, x)
           M == Inserted(L, o, x)
<1>1. s \in Seq(Frames)
  OBVIOUS
<1>2. /\ r \in Seq(Frames) /\ Len(r) = Len(s) + 1 /\ r[Len(s) + 1] = x
      /\ \A i \in 1 .. Len(s) : r[i] = s[i]
  BY <1>1
<1>3. M = [q \in Orders |-> IF q = o THEN r ELSE L[q]]
  BY DEF Inserted
<1>4. \A i, j \in DOMAIN s : s[i] = s[j] => i = j
  BY DEF NoRepeat
<1>5. \A i \in DOMAIN s : s[i] # x
  BY DEF At
<1> HIDE DEF s, r, M
<1>6. DOMAIN r = 1 .. (Len(s) + 1) /\ DOMAIN s = 1 .. Len(s) /\ Len(s) \in Nat
  BY <1>1, <1>2
<1>7. ASSUME NEW i \in DOMAIN r, NEW j \in DOMAIN r, r[i] = r[j]
      PROVE  i = j
  <2>1. CASE i \in DOMAIN s /\ j \in DOMAIN s
    BY <1>2, <1>4, <1>6, <1>7, <2>1
  <2>2. CASE i = Len(s) + 1 /\ j \in DOMAIN s
    BY <1>2, <1>5, <1>6, <1>7, <2>2
  <2>3. CASE i \in DOMAIN s /\ j = Len(s) + 1
    BY <1>2, <1>5, <1>6, <1>7, <2>3
  <2>4. CASE i = Len(s) + 1 /\ j = Len(s) + 1
    BY <2>4
  <2> QED BY <1>6, <2>1, <2>2, <2>3, <2>4
<1>8. M \in [Orders -> Seq(Frames)]
  BY <1>2, <1>3
<1>9. NoRepeat(M)
  BY <1>3, <1>7 DEF NoRepeat
<1>10. ASSUME NEW q \in Orders, NEW f \in Frames
       PROVE  At(M, q, f) <=> At(L, q, f) \/ (q = o /\ f = x)
  <2>1. CASE q # o
    BY <1>3, <2>1 DEF At
  <2>2. CASE q = o
    <3>1. M[q] = r /\ L[q] = s
      BY <1>3, <2>2 DEF s
    <3>2. (\E i \in DOMAIN r : r[i] = f) => (\E j \in DOMAIN s : s[j] = f) \/ f = x
      <4>1. \A i \in DOMAIN r : (i \in DOMAIN s /\ r[i] = s[i]) \/ r[i] = x
        BY <1>2, <1>6
      <4> QED BY <4>1
    <3>3. (\E j \in DOMAIN s : s[j] = f) => \E i \in DOMAIN r : r[i] = f
      <4>1. \A j \in DOMAIN s : j \in DOMAIN r /\ r[j] = s[j]
        BY <1>2, <1>6
      <4> QED BY <4>1
    <3>4. f = x => \E i \in DOMAIN r : r[i] = f
      <4>1. Len(s) + 1 \in DOMAIN r
        BY <1>6
      <4> QED BY <1>2, <4>1
    <3> QED BY <2>2, <3>1, <3>2, <3>3, <3>4 DEF At
  <2> QED BY <2>1, <2>2
<1> QED BY <1>8, <1>9, <1>10 DEF M

(***************************************************************************)
(* Each action keeps Inv.                                                  *)
(***************************************************************************)

(* A granted head is USED, so it is on no list. *)
LEMMA HeldNotListed ==
    ASSUME Inv, NEW o \in Orders, NEW f \in Frames, At(list, o, f)
    PROVE  ~Held(f)
<1>1. used[f] = "AVAL" /\ order[f] = o
  BY DEF Inv, ListedFree
<1>2. f < End(f) /\ f <= f
  BY <1>1, Constants DEF End
<1> QED BY <1>1, <1>2 DEF Inv, HeldUsed

(* A block lies inside the pool. *)
LEMMA BlockInside ==
    ASSUME Inv, NEW f \in Frames, Block(f)
    PROVE  End(f) \in Nat /\ f < End(f) /\ End(f) <= PageNum
<1>1. order[f] \in Orders
  BY DEF Inv, TypeOK
<1>2. f % Size[order[f]] = 0
  BY DEF Inv, Aligned
<1>3. f \in Nat /\ f < PageNum /\ PageNum \in Nat
      /\ Size[order[f]] \in Nat \ {0} /\ PageNum % Size[order[f]] = 0
  BY <1>1, Constants
<1> QED BY <1>2, <1>3, EndsInside DEF End

(* The entry of alloc_pages unlinks the head it found: the block goes from the
   list into flight. *)
LEMMA AllocPagesInv ==
    ASSUME Inv, NEW o \in Orders, AllocPages(o)
    PROVE  Inv'
<1>0. PICK i \in Orders :
        /\ o <= i
        /\ \E k \in DOMAIN list[i] :
             /\ used[list[i][k]] = "AVAL"
             /\ cur' = list[i][k]
             /\ list' = Removed(list, i, k)
        /\ pg_free' = [pg_free EXCEPT ![i] = @ - 1]
  <2>1. PICK i \in Orders :
          /\ FirstFit(o, i)
          /\ \E k \in DOMAIN list[i] :
               /\ used[list[i][k]] = "AVAL"
               /\ \A j \in 1 .. (k - 1) : used[list[i][j]] # "AVAL"
               /\ cur' = list[i][k]
               /\ list' = Removed(list, i, k)
          /\ pg_free' = [pg_free EXCEPT ![i] = @ - 1]
    BY DEF AllocPages
  <2>2. o <= i
    BY <2>1, Constants DEF FirstFit
  <2> QED BY <2>1, <2>2
<1>1. PICK k \in DOMAIN list[i] :
        /\ used[list[i][k]] = "AVAL"
        /\ cur' = list[i][k]
        /\ list' = Removed(list, i, k)
  BY <1>0
<1>2. /\ pc = "idle" /\ pc' = "split" /\ target' = o
      /\ used' = used /\ order' = order /\ refcnt' = refcnt /\ boot_i' = boot_i
      /\ refs' = refs /\ leaked' = leaked /\ misused' = misused
  BY DEF AllocPages, frame, ghost
<1> DEFINE h == list[i][k]
<1>3. /\ list' \in [Orders -> Seq(Frames)] /\ NoRepeat(list') /\ h \in Frames
      /\ \A q \in Orders, f \in Frames :
           At(list', q, f) <=> At(list, q, f) /\ ~(q = i /\ f = h)
  <2>1. list \in [Orders -> Seq(Frames)] /\ NoRepeat(list)
    BY DEF Inv, TypeOK
  <2> QED BY <1>1, <2>1, Unlink
<1>4. At(list, i, h)
  BY DEF At
<1> HIDE DEF h
<1>5. order[h] = i /\ ~Held(h) /\ cur' = h
  BY <1>1, <1>3, <1>4, HeldNotListed DEF Inv, ListedFree, h
<1>6. \A q \in Orders : At(list, q, h) => q = i
  BY <1>3, <1>5 DEF Inv, ListedFree
<1>7. ~Busy /\ Busy'
  BY <1>2 DEF Busy
<1>8. \A f \in Frames : Held(f)' <=> Held(f)
  BY <1>2 DEF Held
<1>9. \A f \in Frames : Block(f)' <=> Block(f)
  BY <1>3, <1>4, <1>5, <1>6, <1>7, <1>8 DEF Block
<1>10. TypeOK'
  <2>1. pg_free' \in [Orders -> Int]
    <3>1. pg_free \in [Orders -> Int]
      BY DEF Inv, TypeOK
    <3>2. pg_free' = [pg_free EXCEPT ![i] = @ - 1]
      BY <1>0
    <3> QED BY <3>1, <3>2
  <2>2. list' \in [Orders -> Seq(Frames)] /\ cur' \in Frames
    BY <1>3, <1>5
  <2>3. misused' \in BOOLEAN
    BY <1>2 DEF Inv, TypeOK
  <2>4. /\ used' \in [Frames -> Usage] /\ order' \in [Frames -> Orders]
        /\ refcnt' \in [Frames -> Int] /\ boot_i' \in 0 .. PageNum
        /\ refs' \in [Frames -> Nat] /\ leaked' \subseteq Frames
    BY <1>2 DEF Inv, TypeOK
  <2> QED BY <1>2, <2>1, <2>2, <2>3, <2>4 DEF TypeOK
<1>11. NoRepeat(list)'
  BY <1>3
<1>12. Aligned'
  BY <1>2, <1>9 DEF Inv, Aligned
<1>13. Disjoint'
  BY <1>2, <1>9 DEF Inv, Disjoint, End
<1>14. ListedFree'
  BY <1>2, <1>3, <1>5, <1>6 DEF Inv, ListedFree
<1>15. FreeListed'
  <2>1. ASSUME NEW f \in Frames, used[f] = "AVAL"
        PROVE  At(list', order[f], f) \/ (h <= f /\ f < End(h))
    <3>1. At(list, order[f], f) /\ order[f] \in Orders
      BY <1>7, <2>1 DEF Inv, FreeListed, TypeOK
    <3>2. CASE f = h
      BY <1>5, <3>2, Constants DEF End
    <3>3. CASE f # h
      BY <1>3, <3>1, <3>3
    <3> QED BY <3>2, <3>3
  <2> QED BY <1>2, <1>5, <1>7, <2>1 DEF FreeListed, End
<1>16. HeldUsed'
  BY <1>2, <1>8 DEF Inv, HeldUsed, End
<1>17. UsedOwned'
  BY <1>2, <1>8 DEF Inv, UsedOwned, End
<1>18. CurFree'
  BY <1>0, <1>2, <1>5 DEF CurFree, Held
<1>19. RefsBelow'
  BY <1>2 DEF Inv, RefsBelow
<1> QED
  BY <1>10, <1>11, <1>12, <1>13, <1>14, <1>15, <1>16, <1>17, <1>18, <1>19 DEF Inv

(* Two blocks do not overlap. *)
LEMMA BlocksDoNotOverlap ==
    ASSUME Inv, NEW f \in Frames, NEW g \in Frames, Block(f), Block(g), f # g
    PROVE  End(f) <= g \/ End(g) <= f
<1>1. f < g \/ g < f
  BY Constants
<1> QED BY <1>1 DEF Inv, Disjoint

(* One level of merge_page: the buddy is a free listed block of the same order,
   so the union is aligned, apart from all others and the new block in flight. *)
LEMMA MergeStepInv ==
    ASSUME Inv, MergeStep
    PROVE  Inv'
<1> DEFINE o == order[cur]
           b == BuddyOf(cur, o)
           low == IF b > cur THEN cur ELSE b
           S == Size[o]
<1>1. /\ TypeOK /\ pc = "merge" /\ Busy /\ cur \in Frames /\ o \in Orders
      /\ o < MaxOrder /\ used[b] = "AVAL" /\ order[b] = o
      /\ order' = [order EXCEPT ![low] = o + 1] /\ cur' = low
      /\ pg_free' = [pg_free EXCEPT ![o] = @ - 1]
      /\ used' = used /\ refcnt' = refcnt /\ pc' = pc /\ target' = target
      /\ boot_i' = boot_i /\ refs' = refs /\ leaked' = leaked /\ misused' = misused
  <2>1. TypeOK
    BY DEF Inv
  <2>2. cur \in Frames /\ o \in Orders
    BY <2>1 DEF TypeOK
  <2>3. /\ pc = "merge" /\ o < MaxOrder /\ used[b] = "AVAL" /\ order[b] = o
    BY DEF MergeStep, Mergeable
  <2>4. /\ order' = [order EXCEPT ![low] = o + 1] /\ cur' = low
        /\ used' = used /\ refcnt' = refcnt /\ pc' = pc /\ target' = target
        /\ boot_i' = boot_i /\ refs' = refs /\ leaked' = leaked /\ misused' = misused
    BY DEF MergeStep, Raised, ghost
  <2>5. pg_free' = [pg_free EXCEPT ![order[b]] = @ - 1]
    BY DEF MergeStep
  <2>6. pg_free' = [pg_free EXCEPT ![o] = @ - 1]
    BY <2>3, <2>5
  <2> QED BY <2>1, <2>2, <2>3, <2>4, <2>6 DEF Busy
<1>2. PICK k \in DOMAIN list[o] : list[o][k] = b /\ list' = Removed(list, o, k)
  <2>1. \E k \in DOMAIN list[order[b]] :
          list[order[b]][k] = b /\ list' = Removed(list, order[b], k)
    BY DEF MergeStep
  <2> QED BY <1>1, <2>1
<1>3. Block(cur) /\ cur % S = 0
  BY <1>1 DEF Block, Inv, Aligned
<1>4. /\ S \in Nat \ {0} /\ o + 1 \in Orders /\ Size[o + 1] = 2 * S
      /\ cur \in Nat
  BY <1>1, Constants
<1>5. /\ b \in Frames /\ b \in Nat /\ b # cur
      /\ (low = cur /\ b = cur + S) \/ (low = b /\ cur = b + S)
      /\ low \in Frames /\ low % (2 * S) = 0
  <2>1. /\ b \in Frames /\ (b = cur + S \/ b = cur - S)
        /\ b > cur => cur % Size[o + 1] = 0
        /\ b <= cur => b % Size[o + 1] = 0
    BY <1>1, <1>3, BuddyFacts
  <2>2. b \in Nat
    BY <2>1, Constants
  <2> HIDE DEF o, b, S
  <2> QED BY <1>1, <1>4, <2>1, <2>2
<1>6. /\ list' \in [Orders -> Seq(Frames)] /\ NoRepeat(list')
      /\ \A q \in Orders, f \in Frames :
           At(list', q, f) <=> At(list, q, f) /\ ~(q = o /\ f = b)
  <2>1. list \in [Orders -> Seq(Frames)] /\ NoRepeat(list)
    BY DEF Inv, TypeOK
  <2> QED BY <1>1, <1>2, <2>1, Unlink
<1>7. At(list, o, b)
  BY <1>2 DEF At
<1>8. Block(b) /\ ~Held(b) /\ ~Held(cur) /\ End(b) = b + S /\ End(cur) = cur + S
  BY <1>1, <1>5, <1>7, HeldNotListed DEF Block, End, Inv, CurFree
<1>9. \A q \in Orders : ~At(list, q, cur) /\ ~At(list', q, b)
  BY <1>1, <1>5, <1>6 DEF Inv, ListedFree
<1> HIDE DEF o, b, low, S
<1>10. Busy'
  BY <1>1 DEF Busy
<1>11. \A f \in Frames : Held(f)' <=> Held(f)
  BY <1>1 DEF Held
<1>12. \A f \in Frames : Block(f)' <=> f = low \/ (Block(f) /\ f # cur /\ f # b)
  BY <1>1, <1>5, <1>6, <1>8, <1>9, <1>10, <1>11 DEF Block
<1>13. /\ order' \in [Frames -> Orders] /\ order'[low] = o + 1
       /\ \A f \in Frames : f # low => order'[f] = order[f]
  BY <1>1, <1>4, <1>5 DEF TypeOK
<1>14. \A f \in Frames : End(f)' = IF f = low THEN f + 2 * S ELSE End(f)
  BY <1>4, <1>13 DEF End
<1>15. \A f \in Frames : Block(f) /\ f # cur /\ f # b => End(f) <= low \/ low + 2 * S <= f
  <2>1. ASSUME NEW f \in Frames, Block(f), f # cur, f # b
        PROVE  End(f) <= low \/ low + 2 * S <= f
    <3>1. (End(f) <= cur \/ cur + S <= f) /\ (End(f) <= b \/ b + S <= f)
      BY <1>1, <1>3, <1>5, <1>8, <2>1, BlocksDoNotOverlap
    <3>2. f < End(f) /\ End(f) \in Nat /\ f \in Nat
      BY <2>1, BlockInside, Constants
    <3> QED BY <1>4, <1>5, <3>1, <3>2
  <2> QED BY <2>1
<1>16. TypeOK'
  <2>1. pg_free' \in [Orders -> Int]
    <3>1. pg_free \in [Orders -> Int]
      BY <1>1 DEF TypeOK
    <3>2. o \in Orders /\ pg_free' = [pg_free EXCEPT ![o] = @ - 1]
      BY <1>1
    <3> QED BY <3>1, <3>2
  <2>2. misused' \in BOOLEAN
    BY <1>1 DEF TypeOK
  <2> QED BY <1>1, <1>5, <1>6, <1>13, <2>1, <2>2 DEF TypeOK
<1>17. NoRepeat(list)'
  BY <1>6
<1>18. Aligned'
  BY <1>4, <1>5, <1>12, <1>13 DEF Inv, Aligned
<1>19. Disjoint'
  <2>1. ASSUME NEW f \in Frames, NEW g \in Frames, Block(f)', Block(g)', f < g
        PROVE  End(f)' <= g
    <3>0. f \in Nat /\ g \in Nat
      BY Constants
    <3>1. CASE f = low
      <4>1. Block(g) /\ g # cur /\ g # b
        BY <1>12, <2>1, <3>0, <3>1
      <4>2. g < End(g) /\ End(g) \in Nat
        BY <4>1, BlockInside
      <4> QED BY <1>4, <1>14, <1>15, <2>1, <3>0, <3>1, <4>1, <4>2
    <3>2. CASE g = low
      <4>1. Block(f) /\ f # cur /\ f # b
        BY <1>12, <2>1, <3>0, <3>2
      <4> QED BY <1>4, <1>14, <1>15, <2>1, <3>0, <3>2, <4>1
    <3>3. CASE f # low /\ g # low
      BY <1>12, <1>14, <2>1, <3>3 DEF Inv, Disjoint
    <3> QED BY <3>1, <3>2, <3>3
  <2> QED BY <2>1 DEF Disjoint
<1>20. ListedFree'
  <2>1. ASSUME NEW q \in Orders, NEW f \in Frames, At(list', q, f)
        PROVE  used'[f] = "AVAL" /\ order'[f] = q /\ f # cur'
    <3>1. At(list, q, f) /\ f # b /\ f # cur
      BY <1>6, <1>9, <2>1
    <3> QED BY <1>1, <1>5, <1>13, <3>1 DEF Inv, ListedFree
  <2> QED BY <2>1 DEF ListedFree
<1>21. FreeListed'
  <2>1. ASSUME NEW f \in Frames, used[f] = "AVAL"
        PROVE  At(list', order'[f], f) \/ (low <= f /\ f < low + 2 * S)
    <3>1. At(list, order[f], f) \/ (cur <= f /\ f < cur + S)
      BY <1>1, <1>8, <2>1 DEF Inv, FreeListed
    <3>2. CASE cur <= f /\ f < cur + S
      BY <1>4, <1>5, <3>2, Constants
    <3>3. CASE f = b
      BY <1>4, <1>5, <3>3, Constants
    <3>4. CASE At(list, order[f], f) /\ f # b
      <4>1. f # low /\ order'[f] = order[f] /\ order[f] \in Orders
        BY <1>1, <1>5, <1>9, <1>13, <3>4 DEF TypeOK
      <4> QED BY <1>6, <3>4, <4>1
    <3> QED BY <3>1, <3>2, <3>3, <3>4
  <2>2. \A f \in Frames : f = low => End(f)' = low + 2 * S
    BY <1>14
  <2> QED BY <1>1, <1>5, <1>10, <2>1, <2>2 DEF FreeListed, End
<1>22. HeldUsed'
  BY <1>1, <1>5, <1>8, <1>11, <1>14 DEF Inv, HeldUsed
<1>23. UsedOwned'
  BY <1>1, <1>5, <1>8, <1>11, <1>14 DEF Inv, UsedOwned
<1>24. CurFree'
  BY <1>1, <1>5, <1>8, <1>10 DEF CurFree, Held
<1>25. RefsBelow'
  BY <1>1 DEF Inv, RefsBelow
<1> QED
  BY <1>16, <1>17, <1>18, <1>19, <1>20, <1>21, <1>22, <1>23, <1>24, <1>25 DEF Inv

(* One level of release_redundant_block: the upper half becomes a listed block,
   the lower one stays in flight. *)
LEMMA SplitStepInv ==
    ASSUME Inv, SplitStep
    PROVE  Inv'
<1> DEFINE o == order[cur] - 1
           s == cur + Size[o]
           S == Size[o]
<1>1. /\ TypeOK /\ pc = "split" /\ Busy /\ cur \in Frames /\ target \in Orders
      /\ order[cur] \in Orders /\ order[cur] > target
      /\ pc' = pc /\ cur' = cur /\ target' = target /\ refcnt' = refcnt
      /\ boot_i' = boot_i /\ refs' = refs /\ leaked' = leaked /\ misused' = misused
  <2>1. TypeOK
    BY DEF Inv
  <2>2. cur \in Frames /\ order[cur] \in Orders /\ target \in Orders
    BY <2>1 DEF TypeOK
  <2> QED BY <2>1, <2>2 DEF SplitStep, ghost, Busy
<1>2. /\ used' = [Fill(used, s + 1, S - 1, "F") EXCEPT ![s] = "AVAL"]
      /\ order' = [Fill(order, s, S, o) EXCEPT ![cur] = o]
      /\ list' = Inserted(list, o, s)
      /\ pg_free' = [pg_free EXCEPT ![o] = @ + 1]
  BY DEF SplitStep
<1>3. /\ o \in Orders /\ o + 1 = order[cur] /\ target <= o
      /\ S \in Nat \ {0} /\ Size[order[cur]] = 2 * S /\ cur \in Nat
  <2>1. o \in Orders /\ o + 1 = order[cur] /\ target <= o /\ o < MaxOrder
    BY <1>1, Constants DEF Orders
  <2>2. Size[o + 1] = 2 * S /\ S \in Nat \ {0}
    BY <2>1, Constants
  <2> HIDE DEF o, S
  <2> QED BY <1>1, <2>1, <2>2, Constants
<1>4. /\ Block(cur) /\ End(cur) = cur + 2 * S /\ End(cur) <= PageNum
      /\ ~Held(cur)
  BY <1>1, <1>3, BlockInside DEF Block, End, Inv, CurFree
<1>5. cur % S = 0 /\ s % S = 0
  <2>1. cur % (2 * S) = 0
    BY <1>1, <1>3, <1>4 DEF Inv, Aligned
  <2> HIDE DEF S
  <2>2. cur % S = 0 /\ (cur + S) % S = 0
    BY <1>3, <2>1, Halves
  <2> QED BY <2>2 DEF S
<1> HIDE DEF o, S
<1>6. s \in Frames /\ s \in Nat /\ s = cur + S
  <2>1. s = cur + S
    BY DEF S
  <2> HIDE DEF s
  <2> QED BY <1>3, <1>4, <2>1, Constants
<1> HIDE DEF s
<1>7. ~Block(s) /\ ~Held(s) /\ \A q \in Orders : ~At(list, q, s)
  <2>1. ~Block(s)
    BY <1>1, <1>3, <1>4, <1>6 DEF Inv, Disjoint
  <2> QED BY <2>1 DEF Block
<1>8. /\ list' \in [Orders -> Seq(Frames)] /\ NoRepeat(list')
      /\ \A q \in Orders, f \in Frames :
           At(list', q, f) <=> At(list, q, f) \/ (q = o /\ f = s)
  <2>1. list \in [Orders -> Seq(Frames)] /\ NoRepeat(list)
    BY DEF Inv, TypeOK
  <2> QED BY <1>2, <1>3, <1>6, <1>7, <2>1, Link
<1>9. /\ used' \in [Frames -> Usage]
      /\ \A f \in Frames :
           used'[f] = IF f = s THEN "AVAL"
                      ELSE IF s < f /\ f < s + S THEN "F" ELSE used[f]
  <2>1. used \in [Frames -> Usage]
    BY <1>1 DEF TypeOK
  <2> QED BY <1>2, <1>3, <1>6, <2>1, Constants DEF Fill, Usage
<1>10. /\ order' \in [Frames -> Orders]
       /\ \A f \in Frames :
            order'[f] = IF f = cur \/ (s <= f /\ f < s + S) THEN o ELSE order[f]
  <2>1. order \in [Frames -> Orders]
    BY <1>1 DEF TypeOK
  <2> QED BY <1>1, <1>2, <1>3, <1>6, <2>1, Constants DEF Fill
<1>11. \A f \in Frames : Held(f)' <=> Held(f)
  BY <1>1 DEF Held
<1>12. \A f \in Frames : Block(f)' <=> Block(f) \/ f = s
  BY <1>1, <1>3, <1>8, <1>11 DEF Block, Busy
<1>13. ASSUME NEW f \in Frames, Block(f), f # cur
       PROVE  /\ f \in Nat /\ f < End(f) /\ End(f) \in Nat
              /\ End(f) <= cur \/ cur + 2 * S <= f
              /\ order'[f] = order[f]
  <2>1. f \in Nat /\ f < End(f) /\ End(f) \in Nat
    BY <1>13, BlockInside, Constants
  <2>2. End(f) <= cur \/ cur + 2 * S <= f
    BY <1>1, <1>4, <1>13, BlocksDoNotOverlap
  <2> QED BY <1>3, <1>6, <1>10, <1>13, <2>1, <2>2
<1>14. \A f \in Frames : End(f)' = f + Size[order'[f]]
  BY DEF End
<1>15. order'[cur] = o /\ order'[s] = o
  BY <1>1, <1>3, <1>6, <1>10
<1>16. TypeOK'
  <2>1. pg_free' \in [Orders -> Int]
    <3>1. pg_free \in [Orders -> Int]
      BY <1>1 DEF TypeOK
    <3> QED BY <1>2, <1>3, <3>1
  <2>2. misused' \in BOOLEAN
    BY <1>1 DEF TypeOK
  <2> QED BY <1>1, <1>8, <1>9, <1>10, <2>1, <2>2 DEF TypeOK
<1>17. NoRepeat(list)'
  BY <1>8
<1>18. Aligned'
  <2>1. ASSUME NEW f \in Frames, Block(f)'
        PROVE  f % Size[order'[f]] = 0
    <3>1. CASE f = cur \/ f = s
      BY <1>5, <1>15, <3>1 DEF S, s
    <3>2. CASE f # cur /\ f # s
      BY <1>12, <1>13, <2>1, <3>2 DEF Inv, Aligned
    <3> QED BY <3>1, <3>2
  <2> QED BY <2>1 DEF Aligned
<1>19. Disjoint'
  <2>1. ASSUME NEW f \in Frames, NEW g \in Frames, Block(f)', Block(g)', f < g
        PROVE  f + Size[order'[f]] <= g
    <3>0. Size[o] = S
      BY DEF S
    <3>1. CASE f = cur
      BY <1>3, <1>6, <1>12, <1>13, <1>15, <2>1, <3>0, <3>1
    <3>2. CASE f = s
      BY <1>3, <1>6, <1>12, <1>13, <1>15, <2>1, <3>0, <3>2
    <3>3. CASE f # cur /\ f # s
      <4>1. Block(f) /\ order'[f] = order[f]
        BY <1>12, <1>13, <2>1, <3>3
      <4>2. CASE g = s
        BY <1>3, <1>6, <1>13, <2>1, <3>3, <4>1, <4>2 DEF End
      <4>3. CASE g # s
        BY <1>12, <2>1, <4>1, <4>3 DEF Inv, Disjoint, End
      <4> QED BY <4>2, <4>3
    <3> QED BY <3>1, <3>2, <3>3
  <2> QED BY <1>14, <2>1 DEF Disjoint
<1>20. ListedFree'
  <2>1. ASSUME NEW q \in Orders, NEW f \in Frames, At(list', q, f)
        PROVE  used'[f] = "AVAL" /\ order'[f] = q /\ f # cur
    <3>1. CASE At(list, q, f)
      <4>1. used[f] = "AVAL" /\ order[f] = q /\ f # cur /\ Block(f)
        BY <1>1, <3>1 DEF Inv, ListedFree, Block
      <4>2. ~(s < f /\ f < s + S)
        BY <1>3, <1>6, <1>13, <4>1
      <4> QED BY <1>9, <1>13, <4>1, <4>2
    <3>2. CASE ~At(list, q, f)
      <4>1. q = o /\ f = s
        BY <1>8, <2>1, <3>2
      <4> QED BY <1>3, <1>6, <1>9, <1>15, <4>1
    <3> QED BY <3>1, <3>2
  <2> QED BY <1>1, <2>1 DEF ListedFree
<1>21. FreeListed'
  <2>1. ASSUME NEW f \in Frames, used'[f] = "AVAL"
        PROVE  At(list', order'[f], f) \/ (cur <= f /\ f < cur + S)
    <3>1. CASE f = s
      BY <1>3, <1>6, <1>8, <1>15, <3>1
    <3>2. CASE f # s
      <4>1. used[f] = "AVAL" /\ ~(s <= f /\ f < s + S)
        BY <1>6, <1>9, <2>1, <3>2, Constants
      <4>2. At(list, order[f], f) \/ (cur <= f /\ f < cur + 2 * S)
        BY <1>1, <1>4, <4>1 DEF Inv, FreeListed
      <4>3. CASE At(list, order[f], f)
        <5>1. f # cur /\ Block(f) /\ order[f] \in Orders
          BY <1>1, <4>3 DEF Inv, ListedFree, Block, TypeOK
        <5>2. order'[f] = order[f]
          BY <1>13, <5>1
        <5> QED BY <1>8, <4>3, <5>1, <5>2
      <4>4. CASE cur <= f /\ f < cur + 2 * S
        BY <1>3, <1>6, <4>1, <4>4, Constants
      <4> QED BY <4>2, <4>3, <4>4
    <3> QED BY <3>1, <3>2
  <2>2. cur + S = cur + Size[order'[cur]]
    BY <1>15 DEF S
  <2> QED BY <1>1, <2>1, <2>2 DEF FreeListed, End, Busy
<1>22. HeldUsed'
  <2>1. ASSUME NEW f \in Frames, NEW g \in Frames, Held(f), f <= g, g < f + Size[order'[f]]
        PROVE  used'[g] = "USED"
    <3>1. Block(f) /\ f # cur
      BY <1>4, <2>1 DEF Block
    <3>2. g < End(f) /\ used[g] = "USED"
      BY <1>13, <2>1, <3>1 DEF Inv, HeldUsed, End
    <3>3. ~(s <= g /\ g < s + S)
      BY <1>3, <1>6, <1>13, <2>1, <3>1, <3>2, Constants
    <3> QED BY <1>3, <1>6, <1>9, <3>2, <3>3
  <2> QED BY <1>11, <1>14, <2>1 DEF HeldUsed
<1>23. UsedOwned'
  <2>1. ASSUME NEW g \in Frames, used'[g] = "USED", g \notin Reserved \cup leaked
        PROVE  \E f \in Frames : Held(f) /\ f <= g /\ g < f + Size[order'[f]]
    <3>1. used[g] = "USED"
      BY <1>9, <2>1
    <3>2. PICK f \in Frames : Held(f) /\ f <= g /\ g < End(f)
      BY <2>1, <3>1 DEF Inv, UsedOwned
    <3>3. order'[f] = order[f]
      BY <1>4, <1>13, <3>2 DEF Block
    <3> QED BY <3>2, <3>3 DEF End
  <2> QED BY <1>1, <1>11, <1>14, <2>1 DEF UsedOwned
<1>24. CurFree'
  BY <1>1, <1>3, <1>4, <1>15 DEF CurFree, Held
<1>25. RefsBelow'
  BY <1>1 DEF Inv, RefsBelow
<1> QED
  BY <1>16, <1>17, <1>18, <1>19, <1>20, <1>21, <1>22, <1>23, <1>24, <1>25 DEF Inv

(* The end of alloc_pages: the block in flight becomes a granted one. *)
LEMMA SplitDoneInv ==
    ASSUME Inv, SplitDone
    PROVE  Inv'
<1> DEFINE S == Size[target]
<1>1. /\ TypeOK /\ pc = "split" /\ Busy /\ cur \in Frames /\ target \in Orders
      /\ order[cur] = target
      /\ pc' = "idle" /\ cur' = 0 /\ target' = 0
      /\ list' = list /\ pg_free' = pg_free
      /\ boot_i' = boot_i /\ leaked' = leaked /\ misused' = misused
      /\ refs' = [refs EXCEPT ![cur] = 1]
      /\ refcnt' = [refcnt EXCEPT ![cur] = @ + 1]
  <2>1. TypeOK
    BY DEF Inv
  <2>2. cur \in Frames /\ target \in Orders
    BY <2>1 DEF TypeOK
  <2> QED BY <2>1, <2>2 DEF SplitDone, lists, Busy
<1>2. /\ used' = Fill(used, cur, S, "USED")
      /\ order' = Fill(order, cur, S, target)
  BY DEF SplitDone
<1>3. S \in Nat \ {0} /\ cur \in Nat /\ End(cur) = cur + S
  BY <1>1, Constants DEF End
<1>4. Block(cur) /\ ~Held(cur)
  BY <1>1 DEF Block, Inv, CurFree
<1> HIDE DEF S
<1>5. /\ used' \in [Frames -> Usage]
      /\ \A f \in Frames :
           used'[f] = IF cur <= f /\ f < cur + S THEN "USED" ELSE used[f]
  <2>1. used \in [Frames -> Usage]
    BY <1>1 DEF TypeOK
  <2> QED BY <1>2, <2>1 DEF Fill, Usage
<1>6. /\ order' \in [Frames -> Orders]
      /\ \A f \in Frames :
           order'[f] = IF cur <= f /\ f < cur + S THEN target ELSE order[f]
  <2>1. order \in [Frames -> Orders]
    BY <1>1 DEF TypeOK
  <2> QED BY <1>1, <1>2, <2>1 DEF Fill
<1>7. ~Busy'
  BY <1>1 DEF Busy
<1>8. /\ refs' \in [Frames -> Nat] /\ refs'[cur] = 1
      /\ \A f \in Frames : f # cur => refs'[f] = refs[f]
  BY <1>1 DEF TypeOK
<1>9. \A f \in Frames : Held(f)' <=> Held(f) \/ f = cur
  BY <1>4, <1>8 DEF Held
<1>10. \A f \in Frames : Block(f)' <=> Block(f)
  BY <1>1, <1>4, <1>7, <1>9 DEF Block
<1>11. ASSUME NEW f \in Frames, Block(f)
       PROVE  /\ order'[f] = order[f]
              /\ f # cur => /\ f \in Nat /\ f < End(f) /\ End(f) \in Nat
                            /\ End(f) <= cur \/ cur + S <= f
  <2>1. f \in Nat /\ f < End(f) /\ End(f) \in Nat
    BY <1>11, BlockInside, Constants
  <2>2. f # cur => End(f) <= cur \/ cur + S <= f
    BY <1>1, <1>3, <1>4, <1>11, BlocksDoNotOverlap
  <2> QED BY <1>1, <1>3, <1>6, <2>1, <2>2
<1>12. \A f \in Frames : Block(f) => End(f)' = End(f)
  BY <1>11 DEF End
<1>13. TypeOK'
  <2>1. refcnt' \in [Frames -> Int]
    BY <1>1 DEF TypeOK
  <2>2. misused' \in BOOLEAN
    BY <1>1 DEF TypeOK
  <2>3. list' \in [Orders -> Seq(Frames)] /\ pg_free' \in [Orders -> Int]
        /\ boot_i' \in 0 .. PageNum /\ leaked' \subseteq Frames
    BY <1>1 DEF TypeOK
  <2> QED BY <1>1, <1>5, <1>6, <1>8, <2>1, <2>2, <2>3, Constants DEF TypeOK
<1>14. NoRepeat(list)'
  BY <1>1 DEF Inv
<1>15. Aligned'
  BY <1>10, <1>11 DEF Inv, Aligned
<1>16. Disjoint'
  BY <1>10, <1>12 DEF Inv, Disjoint
<1>17. ListedFree'
  <2>1. ASSUME NEW q \in Orders, NEW f \in Frames, At(list, q, f)
        PROVE  used'[f] = "AVAL" /\ order'[f] = q
    <3>1. Block(f) /\ f # cur /\ used[f] = "AVAL" /\ order[f] = q
      BY <1>1, <2>1 DEF Inv, ListedFree, Block
    <3> QED BY <1>3, <1>5, <1>11, <3>1
  <2> QED BY <1>1, <1>7, <2>1 DEF ListedFree
<1>18. FreeListed'
  <2>1. ASSUME NEW f \in Frames, used'[f] = "AVAL"
        PROVE  At(list, order'[f], f)
    <3>1. used[f] = "AVAL" /\ ~(cur <= f /\ f < cur + S)
      BY <1>5, <2>1
    <3>2. At(list, order[f], f)
      BY <1>1, <1>3, <3>1 DEF Inv, FreeListed
    <3> QED BY <1>6, <3>1, <3>2
  <2> QED BY <1>1, <2>1 DEF FreeListed
<1>19. HeldUsed'
  <2>1. ASSUME NEW f \in Frames, NEW g \in Frames, Held(f) \/ f = cur, f <= g, g < End(f)
        PROVE  used'[g] = "USED"
    <3>1. CASE f = cur
      BY <1>3, <1>5, <2>1, <3>1
    <3>2. CASE f # cur
      BY <1>5, <2>1, <3>2 DEF Inv, HeldUsed
    <3> QED BY <3>1, <3>2
  <2> QED BY <1>4, <1>9, <1>12, <2>1 DEF HeldUsed, Block
<1>20. UsedOwned'
  <2>1. ASSUME NEW g \in Frames, used'[g] = "USED", g \notin Reserved \cup leaked
        PROVE  \E f \in Frames : (Held(f) \/ f = cur) /\ f <= g /\ g < End(f)
    <3>1. CASE cur <= g /\ g < cur + S
      BY <1>1, <1>3, <3>1
    <3>2. CASE ~(cur <= g /\ g < cur + S)
      BY <1>5, <2>1, <3>2 DEF Inv, UsedOwned
    <3> QED BY <3>1, <3>2
  <2>2. \A f \in Frames : Held(f) \/ f = cur => End(f)' = End(f)
    BY <1>4, <1>12 DEF Block
  <2> QED BY <1>1, <1>9, <2>1, <2>2 DEF UsedOwned
<1>21. CurFree'
  BY <1>1, <1>7 DEF CurFree
<1>22. RefsBelow'
  <2>1. \A f \in Frames : refs[f] <= refcnt[f] /\ refcnt[f] \in Int /\ refs[f] \in Nat
    BY <1>1 DEF Inv, RefsBelow, TypeOK
  <2>2. refs[cur] = 0
    BY <1>1, <1>4 DEF Held, TypeOK
  <2>3. refcnt \in [Frames -> Int]
    BY <1>1 DEF TypeOK
  <2>4. \A f \in Frames : refs'[f] <= refcnt'[f]
    BY <1>1, <1>8, <2>1, <2>2, <2>3
  <2> QED BY <2>4 DEF RefsBelow
<1> QED
  BY <1>13, <1>14, <1>15, <1>16, <1>17, <1>18, <1>19, <1>20, <1>21, <1>22 DEF Inv

(* The end of merge_page: the block in flight becomes a listed one. *)
LEMMA MergeDoneInv ==
    ASSUME Inv, MergeDone
    PROVE  Inv'
<1> DEFINE o == order[cur]
           S == Size[o]
<1>1. /\ TypeOK /\ pc = "merge" /\ Busy /\ cur \in Frames /\ o \in Orders
      /\ pc' \in {"boot", "idle"} /\ cur' = 0
      /\ refcnt' = refcnt /\ target' = target /\ boot_i' = boot_i
      /\ refs' = refs /\ leaked' = leaked /\ misused' = misused
  <2>1. TypeOK
    BY DEF Inv
  <2>2. cur \in Frames /\ o \in Orders
    BY <2>1 DEF TypeOK
  <2> QED BY <2>1, <2>2 DEF MergeDone, ghost, Busy
<1>2. /\ used' = [Fill(used, cur + 1, S - 1, "F") EXCEPT ![cur] = "AVAL"]
      /\ order' = Fill(order, cur, S, o)
      /\ list' = Inserted(list, o, cur)
      /\ pg_free' = [pg_free EXCEPT ![o] = @ + 1]
  BY DEF MergeDone
<1>3. S \in Nat \ {0} /\ cur \in Nat /\ End(cur) = cur + S
  BY <1>1, Constants DEF End
<1>4. Block(cur) /\ ~Held(cur) /\ \A q \in Orders : ~At(list, q, cur)
  BY <1>1 DEF Block, Inv, CurFree, ListedFree
<1>5. order[cur] = o
  OBVIOUS
<1> HIDE DEF o, S
<1>6. /\ list' \in [Orders -> Seq(Frames)] /\ NoRepeat(list')
      /\ \A q \in Orders, f \in Frames :
           At(list', q, f) <=> At(list, q, f) \/ (q = o /\ f = cur)
  <2>1. list \in [Orders -> Seq(Frames)] /\ NoRepeat(list)
    BY DEF Inv, TypeOK
  <2> QED BY <1>1, <1>2, <1>4, <2>1, Link
<1>7. /\ used' \in [Frames -> Usage]
      /\ \A f \in Frames :
           used'[f] = IF f = cur THEN "AVAL"
                      ELSE IF cur < f /\ f < cur + S THEN "F" ELSE used[f]
  <2>1. used \in [Frames -> Usage]
    BY <1>1 DEF TypeOK
  <2> QED BY <1>1, <1>2, <1>3, <2>1, Constants DEF Fill, Usage
<1>8. /\ order' \in [Frames -> Orders]
      /\ \A f \in Frames :
           order'[f] = IF cur <= f /\ f < cur + S THEN o ELSE order[f]
  <2>1. order \in [Frames -> Orders]
    BY <1>1 DEF TypeOK
  <2> QED BY <1>1, <1>2, <2>1 DEF Fill
<1>9. ~Busy'
  BY <1>1 DEF Busy
<1>10. \A f \in Frames : Held(f)' <=> Held(f)
  BY <1>1 DEF Held
<1>11. \A f \in Frames : Block(f)' <=> Block(f)
  BY <1>1, <1>4, <1>6, <1>9, <1>10 DEF Block
<1>12. ASSUME NEW f \in Frames, Block(f)
       PROVE  /\ order'[f] = order[f]
              /\ f # cur => /\ f \in Nat /\ f < End(f) /\ End(f) \in Nat
                            /\ End(f) <= cur \/ cur + S <= f
  <2>1. f \in Nat /\ f < End(f) /\ End(f) \in Nat
    BY <1>12, BlockInside, Constants
  <2>2. f # cur => End(f) <= cur \/ cur + S <= f
    BY <1>1, <1>3, <1>4, <1>12, BlocksDoNotOverlap
  <2> QED BY <1>1, <1>3, <1>5, <1>8, <2>1, <2>2
<1>13. \A f \in Frames : Block(f) => End(f)' = End(f)
  BY <1>12 DEF End
<1>14. TypeOK'
  <2>1. pg_free' \in [Orders -> Int]
    <3>1. pg_free \in [Orders -> Int]
      BY <1>1 DEF TypeOK
    <3> QED BY <1>1, <1>2, <3>1
  <2>2. misused' \in BOOLEAN
    BY <1>1 DEF TypeOK
  <2> QED BY <1>1, <1>6, <1>7, <1>8, <2>1, <2>2, Constants DEF TypeOK
<1>15. NoRepeat(list)'
  BY <1>6
<1>16. Aligned'
  BY <1>11, <1>12 DEF Inv, Aligned
<1>17. Disjoint'
  BY <1>11, <1>13 DEF Inv, Disjoint
<1>18. ListedFree'
  <2>1. ASSUME NEW q \in Orders, NEW f \in Frames, At(list', q, f)
        PROVE  used'[f] = "AVAL" /\ order'[f] = q
    <3>1. CASE At(list, q, f)
      <4>1. Block(f) /\ f # cur /\ used[f] = "AVAL" /\ order[f] = q
        BY <1>4, <3>1 DEF Inv, ListedFree, Block
      <4> QED BY <1>3, <1>7, <1>12, <4>1
    <3>2. CASE q = o /\ f = cur
      BY <1>3, <1>7, <1>8, <3>2
    <3> QED BY <1>6, <2>1, <3>1, <3>2
  <2> QED BY <1>9, <2>1 DEF ListedFree
<1>19. FreeListed'
  <2>1. ASSUME NEW f \in Frames, used'[f] = "AVAL"
        PROVE  At(list', order'[f], f)
    <3>1. CASE f = cur
      BY <1>1, <1>3, <1>6, <1>8, <3>1
    <3>2. CASE f # cur
      <4>1. used[f] = "AVAL" /\ ~(cur <= f /\ f < cur + S)
        BY <1>3, <1>7, <2>1, <3>2, Constants
      <4>2. At(list, order[f], f) /\ order[f] \in Orders
        BY <1>1, <1>3, <4>1 DEF Inv, FreeListed, TypeOK
      <4> QED BY <1>6, <1>8, <4>1, <4>2
    <3> QED BY <3>1, <3>2
  <2> QED BY <2>1 DEF FreeListed
<1>20. HeldUsed'
  <2>1. ASSUME NEW f \in Frames, NEW g \in Frames, Held(f), f <= g, g < End(f)
        PROVE  used'[g] = "USED"
    <3>1. Block(f) /\ f # cur /\ used[g] = "USED"
      BY <1>4, <2>1 DEF Inv, HeldUsed, Block
    <3>2. ~(cur <= g /\ g < cur + S)
      BY <1>3, <1>12, <2>1, <3>1, Constants
    <3> QED BY <1>3, <1>7, <3>1, <3>2, Constants
  <2> QED BY <1>10, <1>13, <2>1 DEF HeldUsed, Block
<1>21. UsedOwned'
  <2>1. ASSUME NEW g \in Frames, used'[g] = "USED", g \notin Reserved \cup leaked
        PROVE  \E f \in Frames : Held(f) /\ f <= g /\ g < End(f)
    BY <1>7, <2>1 DEF Inv, UsedOwned
  <2>2. \A f \in Frames : Held(f) => End(f)' = End(f)
    BY <1>13 DEF Block
  <2> QED BY <1>1, <1>10, <2>1, <2>2 DEF UsedOwned
<1>22. CurFree'
  BY <1>1, <1>9 DEF CurFree
<1>23. RefsBelow'
  BY <1>1 DEF Inv, RefsBelow
<1> QED
  BY <1>14, <1>15, <1>16, <1>17, <1>18, <1>19, <1>20, <1>21, <1>22, <1>23 DEF Inv

(***************************************************************************)
(* The steps that change neither the lists, nor the frames' fields, nor    *)
(* who holds which block.                                                  *)
(***************************************************************************)
LEMMA NothingMoves ==
    ASSUME Inv, TypeOK', RefsBelow', CurFree', ~Busy, ~Busy',
           used' = used, order' = order, list' = list, leaked' = leaked,
           \A f \in Frames : Held(f)' <=> Held(f)
    PROVE  Inv'
<1>1. \A f \in Frames : Block(f)' <=> Block(f)
  BY DEF Block
<1>2. NoRepeat(list)' /\ Aligned' /\ Disjoint'
  BY <1>1 DEF Inv, Aligned, Disjoint, End
<1>3. ListedFree' /\ FreeListed'
  BY DEF Inv, ListedFree, FreeListed
<1>4. HeldUsed' /\ UsedOwned'
  BY DEF Inv, HeldUsed, UsedOwned, End
<1> QED BY <1>2, <1>3, <1>4 DEF Inv

(* A block that free_pages goes on to merge was granted: a page of no      *)
(* granted block is not USED, so the double free stops before the lists.   *)
LEMMA FreedIsHeld ==
    ASSUME Inv, NEW p \in Frames, FreePages(p), used[p] = "USED"
    PROVE  Held(p)
<1>1. ASSUME ~Held(p) PROVE FALSE
  <2>1. p \notin HeldFrames \cup Reserved \cup leaked
    BY <1>1 DEF FreePages
  <2>2. PICK f \in Frames : Held(f) /\ f <= p /\ p < End(f)
    BY <2>1 DEF Inv, UsedOwned
  <2>3. order[f] \in Orders
    BY DEF Inv, TypeOK
  <2>4. f \in Nat /\ p \in Nat /\ Size[order[f]] \in Nat
    BY <2>3, Constants
  <2>5. p \in Span(f)
    BY <2>2, <2>4 DEF Span, End
  <2>6. p \in HeldFrames
    BY <2>2, <2>5 DEF HeldFrames
  <2> QED BY <2>1, <2>6
<1> QED BY <1>1

(* free_pages, in its three outcomes: an owner less, a block into flight, or the
   while(1) of a double free. *)
LEMMA FreePagesInv ==
    ASSUME Inv, NEW p \in Frames, FreePages(p)
    PROVE  Inv'
<1> DEFINE o == order[p]
           S == Size[o]
<1>1. /\ TypeOK /\ pc = "idle" /\ ~Busy /\ o \in Orders
      /\ Held(p) \/ p \notin HeldFrames \cup Reserved \cup leaked
      /\ refcnt' = [refcnt EXCEPT ![p] = @ - 1]
      /\ refs' = IF Held(p) THEN [refs EXCEPT ![p] = @ - 1] ELSE refs
      /\ list' = list /\ pg_free' = pg_free
      /\ target' = target /\ boot_i' = boot_i
  <2>1. TypeOK
    BY DEF Inv
  <2>2. o \in Orders
    BY <2>1 DEF TypeOK
  <2> QED BY <2>1, <2>2 DEF FreePages, lists, Busy
<1>2. misused' \in BOOLEAN
  BY DEF FreePages
<1>3. /\ \A f \in Frames : refs[f] <= refcnt[f] /\ refcnt[f] \in Int /\ refs[f] \in Nat
      /\ refcnt' \in [Frames -> Int] /\ refcnt'[p] = refcnt[p] - 1
      /\ \A f \in Frames : f # p => refcnt'[f] = refcnt[f]
  BY <1>1 DEF Inv, RefsBelow, TypeOK
<1>4. /\ refs' \in [Frames -> Nat]
      /\ \A f \in Frames : f # p => refs'[f] = refs[f]
      /\ refs'[p] = IF Held(p) THEN refs[p] - 1 ELSE 0
  <2>1. refs \in [Frames -> Nat] /\ (~Held(p) => refs[p] = 0)
    BY <1>1 DEF TypeOK, Held
  <2>2. CASE Held(p)
    BY <1>1, <2>1, <2>2 DEF Held
  <2>3. CASE ~Held(p)
    BY <1>1, <2>1, <2>3
  <2> QED BY <2>2, <2>3
<1>5. \A f \in Frames : refs'[f] <= refcnt'[f] \/ refcnt[p] <= 0
  BY <1>3, <1>4 DEF Held
<1>6. CASE Shared(p) /\ refs[p] # 1
  <2>1. /\ used' = used /\ order' = order /\ pc' = pc /\ cur' = cur
        /\ leaked' = leaked
    BY <1>6 DEF FreePages
  <2>2. \A f \in Frames : Held(f)' <=> Held(f)
    BY <1>3, <1>4, <1>6 DEF Held
  <2>3. TypeOK'
    BY <1>1, <1>2, <1>3, <1>4, <2>1 DEF TypeOK
  <2>4. RefsBelow'
    BY <1>3, <1>5, <1>6 DEF RefsBelow, Shared
  <2>5. CurFree' /\ ~Busy'
    BY <1>1, <2>1 DEF CurFree, Busy
  <2> QED BY <1>1, <2>1, <2>2, <2>3, <2>4, <2>5, NothingMoves
<1>7. CASE Shared(p) /\ refs[p] = 1
  <2>1. /\ used' = used /\ order' = order /\ pc' = pc /\ cur' = cur
        /\ leaked' = leaked \cup Span(p)
    BY <1>7 DEF FreePages
  <2>2. Held(p) /\ refs'[p] = 0
    BY <1>4, <1>7 DEF Held
  <2>3. \A f \in Frames : Held(f)' <=> Held(f) /\ f # p
    BY <1>4, <2>2 DEF Held
  <2>4. Span(p) \subseteq Frames /\ \A g \in Frames : g \in Span(p) <=> p <= g /\ g < End(p)
    <3>1. Block(p)
      BY <2>2 DEF Block
    <3>2. p \in Nat /\ S \in Nat /\ End(p) = p + S /\ End(p) <= PageNum /\ PageNum \in Nat
      BY <1>1, <3>1, BlockInside, Constants DEF End
    <3>3. Span(p) = p .. (p + S - 1)
      BY DEF Span
    <3> HIDE DEF S
    <3> QED BY <3>2, <3>3, Constants
  <2>5. ~Busy'
    BY <1>1, <2>1 DEF Busy
  <2>6. \A f \in Frames : Block(f)' => Block(f)
    BY <1>1, <2>3, <2>5 DEF Block
  <2>7. TypeOK'
    <3>1. leaked' \subseteq Frames
      BY <1>1, <2>1, <2>4 DEF TypeOK
    <3> QED BY <1>1, <1>2, <1>3, <1>4, <2>1, <3>1 DEF TypeOK
  <2>8. NoRepeat(list)' /\ Aligned' /\ Disjoint'
    BY <1>1, <2>1, <2>6 DEF Inv, Aligned, Disjoint, End
  <2>9. ListedFree' /\ FreeListed'
    BY <1>1, <2>1, <2>5 DEF Inv, ListedFree, FreeListed
  <2>10. HeldUsed'
    BY <2>1, <2>3 DEF Inv, HeldUsed, End
  <2>11. UsedOwned'
    <3>1. ASSUME NEW g \in Frames, used[g] = "USED"
          PROVE  \/ g \in Reserved \cup leaked'
                 \/ \E f \in Frames : Held(f)' /\ f <= g /\ g < End(f)
      BY <2>1, <2>3, <2>4, <3>1 DEF Inv, UsedOwned
    <3> QED BY <2>1, <3>1 DEF UsedOwned, End
  <2>12. CurFree'
    BY <1>1, <2>1 DEF CurFree, Busy
  <2>13. RefsBelow'
    BY <1>3, <1>5, <1>7 DEF RefsBelow, Shared
  <2> QED BY <2>7, <2>8, <2>9, <2>10, <2>11, <2>12, <2>13 DEF Inv
<1>8. CASE ~Shared(p) /\ used[p] # "USED"
  <2>1. /\ used' = used /\ order' = order /\ pc' = "hung" /\ cur' = cur
        /\ leaked' = leaked
    BY <1>8 DEF FreePages
  <2>2. ~Held(p)
    <3>1. p \in Nat /\ S \in Nat \ {0} /\ End(p) = p + S
      BY <1>1, Constants DEF End
    <3>2. p <= p /\ p < End(p)
      BY <3>1
    <3> QED BY <1>8, <3>2 DEF Inv, HeldUsed
  <2>3. \A f \in Frames : Held(f)' <=> Held(f)
    BY <1>1, <2>2 DEF Held
  <2>4. TypeOK'
    BY <1>1, <1>2, <1>3, <1>4, <2>1 DEF TypeOK
  <2>5. RefsBelow' /\ CurFree' /\ ~Busy'
    BY <2>1 DEF RefsBelow, CurFree, Busy
  <2> QED BY <1>1, <2>1, <2>3, <2>4, <2>5, NothingMoves
<1>9. CASE ~Shared(p) /\ used[p] = "USED"
  <2>1. /\ pc' = "merge" /\ cur' = p /\ leaked' = leaked
        /\ used' = [Fill(used, p + 1, S - 1, "F") EXCEPT ![p] = "AVAL"]
        /\ order' = Fill(order, p, S, o)
    BY <1>9 DEF FreePages, Shared
  <2>2. S \in Nat \ {0} /\ p \in Nat /\ End(p) = p + S
    BY <1>1, Constants DEF End
  <2>3. Held(p)
    BY <1>9, FreedIsHeld
  <2>4. refs[p] = 1 /\ refs'[p] = 0 /\ refcnt[p] = 1
    BY <1>3, <1>4, <1>9, <2>3 DEF Held, Shared
  <2>5. \A f \in Frames : Held(f)' <=> Held(f) /\ f # p
    BY <1>4, <2>3, <2>4 DEF Held
  <2>6. Block(p) /\ \A q \in Orders : ~At(list, q, p)
    BY <2>3, HeldNotListed DEF Block
  <2>7. order[p] = o
    OBVIOUS
  <2> HIDE DEF o, S
  <2>8. /\ used' \in [Frames -> Usage]
        /\ \A f \in Frames :
             used'[f] = IF f = p THEN "AVAL"
                        ELSE IF p < f /\ f < p + S THEN "F" ELSE used[f]
    <3>1. used \in [Frames -> Usage]
      BY <1>1 DEF TypeOK
    <3> QED BY <2>1, <2>2, <3>1, Constants DEF Fill, Usage
  <2>9. /\ order' \in [Frames -> Orders]
        /\ \A f \in Frames :
             order'[f] = IF p <= f /\ f < p + S THEN o ELSE order[f]
    <3>1. order \in [Frames -> Orders]
      BY <1>1 DEF TypeOK
    <3> QED BY <1>1, <2>1, <3>1 DEF Fill
  <2>10. Busy'
    BY <2>1 DEF Busy
  <2>11. \A f \in Frames : Block(f)' <=> Block(f)
    BY <1>1, <2>1, <2>5, <2>6, <2>10 DEF Block
  <2>12. ASSUME NEW f \in Frames, Block(f)
         PROVE  /\ order'[f] = order[f]
                /\ f # p => /\ f \in Nat /\ f < End(f) /\ End(f) \in Nat
                            /\ End(f) <= p \/ p + S <= f
    <3>1. f \in Nat /\ f < End(f) /\ End(f) \in Nat
      BY <2>12, BlockInside, Constants
    <3>2. f # p => End(f) <= p \/ p + S <= f
      BY <2>2, <2>6, <2>12, BlocksDoNotOverlap
    <3> QED BY <2>2, <2>7, <2>9, <3>1, <3>2
  <2>13. \A f \in Frames : Block(f) => End(f)' = End(f)
    BY <2>12 DEF End
  <2>14. TypeOK'
    <3>1. list' \in [Orders -> Seq(Frames)] /\ pg_free' \in [Orders -> Int]
          /\ boot_i' \in 0 .. PageNum /\ leaked' \subseteq Frames /\ target' \in Orders
      BY <1>1, <2>1 DEF TypeOK
    <3> QED BY <1>2, <1>3, <1>4, <2>1, <2>8, <2>9, <3>1 DEF TypeOK
  <2>15. NoRepeat(list)'
    BY <1>1 DEF Inv
  <2>16. Aligned'
    BY <2>11, <2>12 DEF Inv, Aligned
  <2>17. Disjoint'
    BY <2>11, <2>13 DEF Inv, Disjoint
  <2>18. ListedFree'
    <3>1. ASSUME NEW q \in Orders, NEW f \in Frames, At(list, q, f)
          PROVE  used'[f] = "AVAL" /\ order'[f] = q /\ f # p
      <4>1. Block(f) /\ f # p /\ used[f] = "AVAL" /\ order[f] = q
        BY <2>6, <3>1 DEF Inv, ListedFree, Block
      <4> QED BY <2>2, <2>8, <2>12, <4>1
    <3> QED BY <1>1, <2>1, <3>1 DEF ListedFree
  <2>19. FreeListed'
    <3>1. ASSUME NEW f \in Frames, used'[f] = "AVAL", ~(p <= f /\ f < p + S)
          PROVE  At(list, order'[f], f)
      BY <1>1, <2>2, <2>8, <2>9, <3>1 DEF Inv, FreeListed
    <3>2. p + Size[order'[p]] = p + S
      BY <2>6, <2>7, <2>12 DEF S
    <3> QED BY <1>1, <2>1, <2>10, <3>1, <3>2 DEF FreeListed, End
  <2>20. HeldUsed'
    <3>1. ASSUME NEW f \in Frames, NEW g \in Frames, Held(f), f # p, f <= g, g < End(f)
          PROVE  used'[g] = "USED"
      <4>0. Block(f)
        BY <3>1 DEF Block
      <4>1. used[g] = "USED"
        BY <3>1 DEF Inv, HeldUsed
      <4>2. ~(p <= g /\ g < p + S)
        BY <2>2, <2>12, <3>1, <4>0, Constants
      <4> QED BY <2>2, <2>8, <4>1, <4>2, Constants
    <3>2. \A f \in Frames : Held(f) => End(f)' = End(f)
      BY <2>13 DEF Block
    <3> QED BY <2>5, <3>1, <3>2 DEF HeldUsed
  <2>21. UsedOwned'
    <3>1. ASSUME NEW g \in Frames, used'[g] = "USED", g \notin Reserved \cup leaked
          PROVE  \E f \in Frames : Held(f) /\ f # p /\ f <= g /\ g < End(f)
      <4>1. used[g] = "USED" /\ ~(p <= g /\ g < p + S)
        BY <2>2, <2>8, <3>1, Constants
      <4> QED BY <2>2, <3>1, <4>1 DEF Inv, UsedOwned
    <3>2. \A f \in Frames : Held(f) => End(f)' = End(f)
      BY <2>13 DEF Block
    <3> QED BY <2>1, <2>5, <3>1, <3>2 DEF UsedOwned
  <2>22. CurFree'
    BY <2>1, <2>4 DEF CurFree, Held
  <2>23. RefsBelow'
    BY <1>3, <1>4, <2>4 DEF RefsBelow
  <2> QED
    BY <2>14, <2>15, <2>16, <2>17, <2>18, <2>19, <2>20, <2>21, <2>22, <2>23 DEF Inv
<1> QED BY <1>6, <1>7, <1>8, <1>9

(* buddy_init takes a single free frame off list 0 and merges it. *)
LEMMA BootMergeInv ==
    ASSUME Inv, BootMerge
    PROVE  Inv'
<1>1. /\ TypeOK /\ pc = "boot" /\ ~Busy /\ boot_i \in Frames
      /\ order[boot_i] = 0 /\ used[boot_i] = "AVAL"
      /\ pg_free' = [pg_free EXCEPT ![0] = @ - 1]
      /\ pc' = "merge" /\ cur' = boot_i /\ boot_i' = boot_i + 1
      /\ used' = used /\ order' = order /\ refcnt' = refcnt /\ target' = target
      /\ refs' = refs /\ leaked' = leaked /\ misused' = misused
  <2>1. TypeOK
    BY DEF Inv
  <2>2. boot_i \in Frames
    BY <2>1, Constants DEF TypeOK, BootMerge
  <2> QED BY <2>1, <2>2 DEF BootMerge, frame, ghost, Busy
<1>2. PICK k \in DOMAIN list[0] : list[0][k] = boot_i /\ list' = Removed(list, 0, k)
  BY DEF BootMerge
<1>3. PICK h \in Frames : h = boot_i
  BY <1>1
<1>4. /\ list' \in [Orders -> Seq(Frames)] /\ NoRepeat(list')
      /\ \A q \in Orders, f \in Frames :
           At(list', q, f) <=> At(list, q, f) /\ ~(q = 0 /\ f = h)
  <2>1. list \in [Orders -> Seq(Frames)] /\ NoRepeat(list) /\ 0 \in Orders
    BY Constants DEF Inv, TypeOK
  <2> QED BY <1>2, <1>3, <2>1, Unlink
<1>5. At(list, 0, h) /\ 0 \in Orders
  BY <1>2, <1>3, Constants DEF At
<1>6. order[h] = 0 /\ ~Held(h) /\ cur' = h /\ \A q \in Orders : At(list, q, h) => q = 0
  BY <1>1, <1>3, <1>5, HeldNotListed DEF Inv, ListedFree
<1>7. Busy'
  BY <1>1 DEF Busy
<1>8. \A f \in Frames : Held(f)' <=> Held(f)
  BY <1>1 DEF Held
<1>9. \A f \in Frames : Block(f)' <=> Block(f)
  BY <1>1, <1>4, <1>5, <1>6, <1>7, <1>8 DEF Block
<1>10. TypeOK'
  <2>1. pg_free' \in [Orders -> Int]
    <3>1. pg_free \in [Orders -> Int]
      BY <1>1 DEF TypeOK
    <3> QED BY <1>1, <1>5, <3>1
  <2>2. boot_i' \in 0 .. PageNum
    BY <1>1, Constants
  <2>3. misused' \in BOOLEAN
    BY <1>1 DEF TypeOK
  <2> QED BY <1>1, <1>4, <2>1, <2>2, <2>3 DEF TypeOK
<1>11. NoRepeat(list)'
  BY <1>4
<1>12. Aligned' /\ Disjoint'
  BY <1>1, <1>9 DEF Inv, Aligned, Disjoint, End
<1>13. ListedFree'
  BY <1>1, <1>4, <1>5, <1>6 DEF Inv, ListedFree
<1>14. FreeListed'
  <2>1. ASSUME NEW f \in Frames, used[f] = "AVAL"
        PROVE  At(list', order[f], f) \/ (h <= f /\ f < End(h))
    <3>1. At(list, order[f], f) /\ order[f] \in Orders
      BY <1>1, <2>1 DEF Inv, FreeListed, TypeOK
    <3>2. CASE f = h
      <4>1. h \in Nat /\ End(h) = h + 1
        BY <1>6, Constants DEF End
      <4> QED BY <3>2, <4>1
    <3>3. CASE f # h
      BY <1>4, <3>1, <3>3
    <3> QED BY <3>2, <3>3
  <2> QED BY <1>1, <1>6, <1>7, <2>1 DEF FreeListed, End
<1>15. HeldUsed' /\ UsedOwned'
  BY <1>1, <1>8 DEF Inv, HeldUsed, UsedOwned, End
<1>16. CurFree'
  BY <1>1, <1>6 DEF CurFree, Held
<1>17. RefsBelow'
  BY <1>1 DEF Inv, RefsBelow
<1> QED BY <1>10, <1>11, <1>12, <1>13, <1>14, <1>15, <1>16, <1>17 DEF Inv

(* mem_reserve takes a frame off list 0 for good. *)
LEMMA MemReserveInv ==
    ASSUME Inv, NEW r \in Reserved, MemReserve(r)
    PROVE  Inv'
<1> DEFINE o == order[r]
<1>1. /\ TypeOK /\ pc = "boot" /\ ~Busy /\ r \in Frames /\ o \in Orders
      /\ used' = [used EXCEPT ![r] = "USED"]
      /\ pg_free' = [pg_free EXCEPT ![o] = @ - 1]
      /\ order' = order /\ refcnt' = refcnt /\ pc' = pc /\ cur' = cur
      /\ target' = target /\ boot_i' = boot_i
      /\ refs' = refs /\ leaked' = leaked /\ misused' = misused
  <2>1. TypeOK
    BY DEF Inv
  <2>2. r \in Frames
    BY PoolAssumption
  <2>3. o \in Orders
    BY <2>1, <2>2 DEF TypeOK
  <2> QED BY <2>1, <2>2, <2>3 DEF MemReserve, ghost, Busy
<1>2. PICK k \in DOMAIN list[o] : list[o][k] = r /\ list' = Removed(list, o, k)
  BY DEF MemReserve
<1> HIDE DEF o
<1>3. /\ list' \in [Orders -> Seq(Frames)] /\ NoRepeat(list')
      /\ \A q \in Orders, f \in Frames :
           At(list', q, f) <=> At(list, q, f) /\ ~(q = o /\ f = r)
  <2>1. list \in [Orders -> Seq(Frames)] /\ NoRepeat(list)
    BY DEF Inv, TypeOK
  <2> QED BY <1>1, <1>2, <2>1, Unlink
<1>4. At(list, o, r)
  BY <1>2 DEF At
<1>5. /\ ~Held(r) /\ used[r] = "AVAL"
      /\ \A q \in Orders : At(list, q, r) => q = o
  BY <1>1, <1>4, HeldNotListed DEF Inv, ListedFree
<1>6. /\ used' \in [Frames -> Usage]
      /\ \A f \in Frames : used'[f] = IF f = r THEN "USED" ELSE used[f]
  BY <1>1 DEF TypeOK, Usage
<1>7. ~Busy'
  BY <1>1 DEF Busy
<1>8. \A f \in Frames : Held(f)' <=> Held(f)
  BY <1>1 DEF Held
<1>9. \A f \in Frames : Block(f)' => Block(f)
  BY <1>1, <1>3, <1>7, <1>8 DEF Block
<1>10. TypeOK'
  <2>1. pg_free' \in [Orders -> Int]
    <3>1. pg_free \in [Orders -> Int]
      BY <1>1 DEF TypeOK
    <3> QED BY <1>1, <3>1
  <2>2. misused' \in BOOLEAN
    BY <1>1 DEF TypeOK
  <2> QED BY <1>1, <1>3, <1>6, <2>1, <2>2 DEF TypeOK
<1>11. NoRepeat(list)'
  BY <1>3
<1>12. Aligned' /\ Disjoint'
  BY <1>1, <1>9 DEF Inv, Aligned, Disjoint, End
<1>13. ListedFree'
  BY <1>1, <1>3, <1>5, <1>6, <1>7 DEF Inv, ListedFree
<1>14. FreeListed'
  BY <1>1, <1>3, <1>6 DEF Inv, FreeListed, TypeOK
<1>15. HeldUsed'
  BY <1>1, <1>6, <1>8 DEF Inv, HeldUsed, End
<1>16. UsedOwned'
  BY <1>1, <1>6, <1>8 DEF Inv, UsedOwned, End
<1>17. CurFree'
  BY <1>1, <1>7 DEF CurFree
<1>18. RefsBelow'
  BY <1>1 DEF Inv, RefsBelow
<1> QED
  BY <1>10, <1>11, <1>12, <1>13, <1>14, <1>15, <1>16, <1>17, <1>18 DEF Inv

(* buddy_init passes a frame that is in a larger block or reserved. *)
LEMMA BootSkipInv == ASSUME Inv, BootSkip PROVE Inv'
<1>1. /\ TypeOK /\ pc = "boot" /\ pc' = pc /\ boot_i < PageNum /\ boot_i' = boot_i + 1
      /\ list' = list /\ pg_free' = pg_free /\ cur' = cur /\ target' = target
      /\ used' = used /\ order' = order /\ refcnt' = refcnt
      /\ refs' = refs /\ leaked' = leaked /\ misused' = misused
  BY DEF Inv, BootSkip, frame, lists, ghost
<1>2. TypeOK'
  <2>1. boot_i' \in 0 .. PageNum
    BY <1>1, Constants DEF TypeOK
  <2>2. misused' \in BOOLEAN
    BY <1>1 DEF TypeOK
  <2> QED BY <1>1, <2>1, <2>2 DEF TypeOK
<1>3. ~Busy /\ ~Busy' /\ CurFree' /\ RefsBelow' /\ \A f \in Frames : Held(f)' <=> Held(f)
  BY <1>1 DEF Inv, Busy, CurFree, RefsBelow, Held
<1> QED BY <1>1, <1>2, <1>3, NothingMoves

(* The end of buddy_init. *)
LEMMA BootDoneInv == ASSUME Inv, BootDone PROVE Inv'
<1>1. /\ TypeOK /\ pc = "boot" /\ pc' = "idle" /\ boot_i' = boot_i
      /\ list' = list /\ pg_free' = pg_free /\ cur' = cur /\ target' = target
      /\ used' = used /\ order' = order /\ refcnt' = refcnt
      /\ refs' = refs /\ leaked' = leaked /\ misused' = misused
  BY DEF Inv, BootDone, frame, lists, ghost
<1>2. TypeOK'
  <2>1. misused' \in BOOLEAN
    BY <1>1 DEF TypeOK
  <2> QED BY <1>1, <2>1 DEF TypeOK
<1>3. ~Busy /\ ~Busy' /\ CurFree' /\ RefsBelow' /\ \A f \in Frames : Held(f)' <=> Held(f)
  BY <1>1 DEF Inv, Busy, CurFree, RefsBelow, Held
<1> QED BY <1>1, <1>2, <1>3, NothingMoves

(* The two steps that only move a reference. *)
LEMMA ShareInv == ASSUME Inv, NEW p \in Frames, Share(p) \/ Unshare(p) PROVE Inv'
<1>1. /\ TypeOK /\ pc = "idle" /\ pc' = pc /\ boot_i' = boot_i
      /\ list' = list /\ pg_free' = pg_free /\ cur' = cur /\ target' = target
      /\ used' = used /\ order' = order /\ leaked' = leaked /\ misused' = misused
      /\ \/ /\ refs[p] > 0
            /\ refs' = [refs EXCEPT ![p] = @ + 1]
            /\ refcnt' = [refcnt EXCEPT ![p] = @ + 1]
         \/ /\ refs[p] > 1
            /\ refs' = [refs EXCEPT ![p] = @ - 1]
            /\ refcnt' = [refcnt EXCEPT ![p] = @ - 1]
  BY DEF Inv, Share, Unshare, lists, Held
<1>2. refs \in [Frames -> Nat] /\ refcnt \in [Frames -> Int]
  BY <1>1 DEF TypeOK
<1>3. /\ refs' \in [Frames -> Nat] /\ refcnt' \in [Frames -> Int]
      /\ \A f \in Frames : Held(f)' <=> Held(f)
      /\ \A f \in Frames : refs[f] <= refcnt[f] => refs'[f] <= refcnt'[f]
  BY <1>1, <1>2 DEF Held
<1>4. TypeOK'
  <2>1. misused' \in BOOLEAN
    BY <1>1 DEF TypeOK
  <2> QED BY <1>1, <1>3, <2>1 DEF TypeOK
<1>5. RefsBelow'
  BY <1>1, <1>3 DEF Inv, RefsBelow
<1>6. ~Busy /\ ~Busy' /\ CurFree'
  BY <1>1 DEF Busy, CurFree
<1> QED BY <1>1, <1>3, <1>4, <1>5, <1>6, NothingMoves

(* A step that changes nothing. *)
LEMMA StutterInv == ASSUME Inv, UNCHANGED vars PROVE Inv'
<1>1. /\ used' = used /\ order' = order /\ refcnt' = refcnt /\ list' = list
      /\ pg_free' = pg_free /\ pc' = pc /\ cur' = cur /\ target' = target
      /\ boot_i' = boot_i /\ refs' = refs /\ leaked' = leaked /\ misused' = misused
  BY DEF vars
<1>2. TypeOK'
  <2>1. misused' \in BOOLEAN
    BY <1>1 DEF Inv, TypeOK
  <2> QED BY <1>1, <2>1 DEF Inv, TypeOK
<1>3. NoRepeat(list)' /\ Aligned' /\ Disjoint' /\ ListedFree' /\ FreeListed'
  BY <1>1 DEF Inv, Aligned, Disjoint, ListedFree, FreeListed, Block, Held, Busy, End
<1>4. HeldUsed' /\ UsedOwned' /\ CurFree' /\ RefsBelow'
  BY <1>1 DEF Inv, HeldUsed, UsedOwned, CurFree, RefsBelow, Held, Busy, End
<1> QED BY <1>2, <1>3, <1>4 DEF Inv

(***************************************************************************)
(* The invariant of every behaviour.                                       *)
(***************************************************************************)

(* reference_cnt is a signed int that no code initialises.  With a natural *)
(* number in it a block is at worst kept too long; a negative one lets     *)
(* free_pages take a page that fork shared from its other owner.           *)
NoneNegative == InitRefs \subseteq Nat

(* buddy_init starts from PAGE_NUM single frames on list 0, nothing held.  *)
LEMMA InitInv == ASSUME NoneNegative, Init PROVE Inv
<1>1. /\ used = [f \in Frames |-> "AVAL"] /\ order = [f \in Frames |-> 0]
      /\ refcnt \in [Frames -> InitRefs] /\ refs = [f \in Frames |-> 0]
      /\ list = [o \in Orders |-> IF o = 0 THEN [k \in 1 .. PageNum |-> k - 1] ELSE <<>>]
      /\ pg_free = [o \in Orders |-> IF o = 0 THEN PageNum ELSE 0]
      /\ pc = "boot" /\ cur = 0 /\ target = 0 /\ boot_i = 0
      /\ leaked = {} /\ misused = FALSE
  BY DEF Init
<1>2. /\ \A f \in Frames : f \in Nat /\ f < PageNum /\ used[f] = "AVAL"
                           /\ order[f] = 0 /\ refs[f] = 0 /\ ~Held(f)
      /\ ~Busy
  BY <1>1, Constants DEF Held, Busy
<1>3. /\ list[0] = [k \in 1 .. PageNum |-> k - 1] /\ list[0] \in Seq(Frames)
      /\ DOMAIN list[0] = 1 .. PageNum
  <2>1. list[0] = [k \in 1 .. PageNum |-> k - 1]
    BY <1>1, Constants
  <2>2. \A k \in 1 .. PageNum : k - 1 \in Frames
    BY Constants
  <2> QED BY <2>1, <2>2, Constants
<1>4. \A o \in Orders : o # 0 => list[o] = <<>>
  BY <1>1
<1>5. list \in [Orders -> Seq(Frames)]
  <2>1. <<>> \in Seq(Frames)
    OBVIOUS
  <2>2. \A o \in Orders : list[o] \in Seq(Frames)
    BY <1>3, <1>4, <2>1, Zenon
  <2>3. list = [o \in Orders |-> list[o]]
    BY <1>1, Zenon
  <2> QED BY <2>2, <2>3, Zenon
<1>6. \A o \in Orders, f \in Frames : At(list, o, f) <=> o = 0
  <2>1. \A f \in Frames : f + 1 \in 1 .. PageNum /\ (f + 1) - 1 = f
    BY <1>2, Constants
  <2>2. \A f \in Frames : At(list, 0, f)
    BY <1>3, <2>1 DEF At
  <2>3. ASSUME NEW o \in Orders, NEW f \in Frames, At(list, o, f)
        PROVE  o = 0
    BY <1>4, <2>3 DEF At
  <2> QED BY <2>2, <2>3
<1>7. NoRepeat(list)
  <2>1. ASSUME NEW o \in Orders, NEW j \in DOMAIN list[o], NEW k \in DOMAIN list[o],
               list[o][j] = list[o][k]
        PROVE  j = k
    <3>1. o = 0
      BY <1>4
    <3>2. j \in 1 .. PageNum /\ k \in 1 .. PageNum /\ j - 1 = k - 1
      BY <1>3, <2>1, <3>1
    <3> QED BY <3>2, Constants
  <2> QED BY <2>1 DEF NoRepeat
<1>8. TypeOK
  <2>1. /\ used \in [Frames -> Usage] /\ order \in [Frames -> Orders]
        /\ refs \in [Frames -> Nat]
    BY <1>1, Constants DEF Usage
  <2>2. refcnt \in [Frames -> Int]
    <3>1. InitRefs \subseteq Int
      BY PoolAssumption
    <3> QED BY <1>1, <3>1, Zenon
  <2>3. pg_free \in [Orders -> Int]
    BY <1>1, Constants
  <2>4. cur \in Frames /\ target \in Orders /\ boot_i \in 0 .. PageNum
    BY <1>1, Constants
  <2> QED BY <1>1, <1>5, <2>1, <2>2, <2>3, <2>4 DEF TypeOK
<1>9. Aligned /\ Disjoint
  <2>1. \A f \in Frames : f % Size[order[f]] = 0 /\ End(f) = f + 1
    BY <1>2, Constants DEF End
  <2>2. \A f, g \in Frames : f < g => f + 1 <= g
    BY <1>2
  <2> QED BY <2>1, <2>2 DEF Aligned, Disjoint
<1>10. ListedFree /\ FreeListed
  BY <1>2, <1>6, Constants DEF ListedFree, FreeListed
<1>11. HeldUsed /\ UsedOwned /\ CurFree
  BY <1>1, <1>2 DEF HeldUsed, UsedOwned, CurFree
<1>12. RefsBelow
  <2>1. \A f \in Frames : refcnt[f] \in Nat
    BY <1>1 DEF NoneNegative
  <2> QED BY <1>2, <2>1 DEF RefsBelow
<1> QED BY <1>5, <1>7, <1>8, <1>9, <1>10, <1>11, <1>12 DEF Inv

(* Every step keeps it. *)
LEMMA NextInv == ASSUME Inv, [Next]_vars PROVE Inv'
<1>1. CASE UNCHANGED vars
  BY <1>1, StutterInv
<1>2. CASE Boot
  BY <1>2, BootSkipInv, BootMergeInv, BootDoneInv, MemReserveInv, PoolAssumption DEF Boot
<1>3. CASE SplitStep
  BY <1>3, SplitStepInv
<1>4. CASE SplitDone
  BY <1>4, SplitDoneInv
<1>5. CASE MergeStep
  BY <1>5, MergeStepInv
<1>6. CASE MergeDone
  BY <1>6, MergeDoneInv
<1>7. CASE \E o \in Orders : AllocPages(o)
  BY <1>7, AllocPagesInv
<1>8. CASE \E p \in Frames : FreePages(p)
  BY <1>8, FreePagesInv
<1>9. CASE \E p \in Frames : Share(p) \/ Unshare(p)
  BY <1>9, ShareInv
<1>10. CASE Hung
  BY <1>10, StutterInv DEF Hung
<1> QED BY <1>1, <1>2, <1>3, <1>4, <1>5, <1>6, <1>7, <1>8, <1>9, <1>10
        DEF Next, KernelStep, Call

(* The inductive invariant holds in every reachable state of the allocator *)
(* (all of mm.c's alloc_pages, free_pages, merge_page, buddy_init), as     *)
(* long as no reference_cnt came up negative.                              *)
THEOREM InvHolds == ASSUME NoneNegative PROVE Spec => []Inv
<1>1. Init => Inv
  BY InitInv
<1>2. Inv /\ [Next]_vars => Inv'
  BY NextInv
<1> QED BY <1>1, <1>2, PTL DEF Spec

(* Type correctness: in particular every index the allocator computes      *)
(* (a buddy, a half, the orders of a split or merge) is inside its array.  *)
THEOREM TypeCorrect == ASSUME NoneNegative PROVE Spec => []TypeOK
<1>1. Inv => TypeOK
  BY DEF Inv
<1> QED BY <1>1, InvHolds, PTL

(* No two blocks share a frame, granted, listed or in flight, even after a *)
(* caller's double free, as long as no reference_cnt came up negative.     *)
THEOREM BlocksAreApart == ASSUME NoneNegative PROVE Spec => []BlocksApart
<1>1. ASSUME Inv PROVE BlocksApart
  <2>1. \A f \in Frames : Held(f) \/ Listed(f) => Block(f)
    BY DEF Block, Listed, At
  <2>2. \A f \in Frames : /\ End(f) \in Nat /\ f \in Nat
                          /\ Span(f) = f .. (End(f) - 1)
    <3>1. ASSUME NEW f \in Frames
          PROVE  order[f] \in Orders /\ f \in Nat /\ Size[order[f]] \in Nat
      <4>1. order[f] \in Orders
        BY <1>1 DEF Inv, TypeOK
      <4> QED BY <4>1, Constants
    <3> QED BY <3>1 DEF End, Span
  <2>3. ASSUME NEW f \in Frames, NEW g \in Frames, Block(f), Block(g), f # g
        PROVE  Span(f) \cap Span(g) = {}
    <3>1. End(f) <= g \/ End(g) <= f
      BY <1>1, <2>3, BlocksDoNotOverlap
    <3> QED BY <2>2, <3>1
  <2>4. \A f \in Frames : ~(Held(f) /\ Listed(f))
    BY <1>1, HeldNotListed DEF Listed, At
  <2>5. ASSUME NEW f \in Frames, Held(f) \/ Listed(f)
        PROVE  Span(f) \cap InFlight = {}
    <3>1. CASE ~Busy
      BY <3>1 DEF Busy, InFlight
    <3>2. CASE Busy
      <4>1. cur \in Frames /\ Block(cur) /\ InFlight = Span(cur)
        BY <1>1, <3>2 DEF Busy, InFlight, Block, Inv, TypeOK
      <4>2. f # cur
        BY <1>1, <2>5, <3>2 DEF Inv, CurFree, ListedFree, Listed, At
      <4> QED BY <2>1, <2>3, <2>5, <4>1, <4>2
    <3> QED BY <3>1, <3>2
  <2> QED BY <2>1, <2>3, <2>4, <2>5 DEF BlocksApart
<1>2. Inv => BlocksApart
  BY <1>1
<1> QED BY <1>2, InvHolds, PTL

(***************************************************************************)
(* What a step may do to a granted block.                                  *)
(***************************************************************************)

(* A write to the frames of a block that is not granted (or is no longer)  *)
(* leaves the order of the granted blocks alone.                           *)
LEMMA OthersKeepOrder ==
    ASSUME Inv, NEW b \in Frames, Block(b), NEW f \in Frames, Held(f), f # b,
           NEW s \in Frames, b <= s, NEW S \in Nat, s + S <= End(b), NEW v
    PROVE  Fill(order, s, S, v)[f] = order[f]
<1>1. Block(f)
  BY DEF Block
<1>2. End(f) <= b \/ End(b) <= f
  BY <1>1, BlocksDoNotOverlap
<1>3. f \in Nat /\ b \in Nat /\ s \in Nat /\ f < End(f) /\ End(f) \in Nat /\ End(b) \in Nat
  BY <1>1, BlockInside, Constants
<1>4. ~(s <= f /\ f < s + S)
  BY <1>2, <1>3
<1> QED BY <1>4 DEF Fill

(* A granted block keeps its order as long as it is granted.               *)
LEMMA HeldOrder ==
    ASSUME Inv, [Next]_vars, NEW f \in Frames, Held(f), refs'[f] > 0
    PROVE  order'[f] = order[f]
<1>0. TypeOK /\ cur \in Frames /\ cur \in Nat /\ order[cur] \in Orders
      /\ order \in [Frames -> Orders]
      /\ Size[order[cur]] \in Nat \ {0} /\ target \in Orders
  <2>1. TypeOK
    BY DEF Inv
  <2>2. cur \in Frames /\ order[cur] \in Orders /\ target \in Orders
        /\ order \in [Frames -> Orders]
    BY <2>1 DEF TypeOK
  <2> QED BY <2>1, <2>2, Constants
<1>1. Busy => Block(cur) /\ f # cur /\ End(cur) = cur + Size[order[cur]]
  BY DEF Block, Inv, CurFree, End
<1>2. CASE SplitStep
  <2> DEFINE o == order[cur] - 1
             s == cur + Size[o]
  <2>1. /\ Busy /\ order[cur] > target
        /\ order' = [Fill(order, s, Size[o], o) EXCEPT ![cur] = o]
    BY <1>2 DEF SplitStep, Busy
  <2>2. o \in Orders /\ o + 1 = order[cur] /\ o < MaxOrder
    BY <1>0, <2>1, Constants DEF Orders
  <2>3. Size[o] \in Nat \ {0} /\ Size[order[cur]] = 2 * Size[o]
    BY <2>2, Constants
  <2>4. End(cur) <= PageNum
    BY <1>0, <1>1, <2>1, BlockInside
  <2> HIDE DEF o
  <2>5. s \in Frames /\ cur <= s /\ s + Size[o] <= End(cur)
    BY <1>0, <1>1, <2>1, <2>3, <2>4, Constants
  <2> HIDE DEF s
  <2>6. Fill(order, s, Size[o], o)[f] = order[f]
    BY <1>0, <1>1, <2>1, <2>3, <2>5, OthersKeepOrder
  <2> QED BY <1>1, <2>1, <2>6 DEF Fill
<1>3. CASE SplitDone
  <2>1. Busy /\ order[cur] = target /\ order' = Fill(order, cur, Size[target], target)
    BY <1>3 DEF SplitDone, Busy
  <2>2. Fill(order, cur, Size[target], target)[f] = order[f]
    BY <1>0, <1>1, <2>1, OthersKeepOrder
  <2> QED BY <2>1, <2>2
<1>4. CASE MergeStep
  <2> DEFINE o == order[cur]
             b == BuddyOf(cur, o)
             low == IF b > cur THEN cur ELSE b
  <2>1. /\ Busy /\ order' = Raised(low, o)
        /\ \E k \in DOMAIN list[o] : list[o][k] = b
        /\ Mergeable(cur, o)
    <3>1. /\ pc = "merge" /\ order' = Raised(low, o) /\ Mergeable(cur, o)
          /\ \E k \in DOMAIN list[order[b]] : list[order[b]][k] = b
      BY <1>4 DEF MergeStep
    <3>2. order[b] = o
      BY <3>1 DEF Mergeable
    <3> QED BY <3>1, <3>2 DEF Busy
  <2>2. b \in Frames
    <3>1. o < MaxOrder /\ cur % Size[o] = 0
      BY <1>0, <1>1, <2>1 DEF Mergeable, Inv, Aligned
    <3> QED BY <1>0, <3>1, BuddyFacts
  <2>3. At(list, o, b)
    BY <2>1 DEF At
  <2>4. ~Held(b)
    BY <1>0, <2>2, <2>3, HeldNotListed
  <2>5. f # low
    BY <1>1, <2>1, <2>4
  <2> QED BY <2>1, <2>5 DEF Raised
<1>5. CASE MergeDone
  <2>1. Busy /\ order' = Fill(order, cur, Size[order[cur]], order[cur])
    BY <1>5 DEF MergeDone, Busy
  <2>2. Fill(order, cur, Size[order[cur]], order[cur])[f] = order[f]
    BY <1>0, <1>1, <2>1, OthersKeepOrder
  <2> QED BY <2>1, <2>2
<1>6. ASSUME NEW p \in Frames, FreePages(p)
      PROVE  order'[f] = order[f]
  <2>1. \/ order' = order
        \/ /\ used[p] = "USED"
           /\ order' = Fill(order, p, Size[order[p]], order[p])
    BY <1>6 DEF FreePages
  <2>2. CASE order' = order
    BY <2>2
  <2>3. CASE /\ used[p] = "USED"
             /\ order' = Fill(order, p, Size[order[p]], order[p])
    <3>1. Held(p) /\ Block(p)
      BY <1>6, <2>3, FreedIsHeld DEF Block
    <3>2. order[p] \in Orders
      BY <1>0 DEF TypeOK
    <3>3. p \in Nat /\ Size[order[p]] \in Nat /\ End(p) = p + Size[order[p]]
      BY <3>2, Constants DEF End
    <3>4. CASE f = p
      BY <2>3, <3>4 DEF Fill
    <3>5. CASE f # p
      <4>1. Fill(order, p, Size[order[p]], order[p])[f] = order[f]
        BY <3>1, <3>3, <3>5, OthersKeepOrder
      <4> QED BY <2>3, <4>1
    <3> QED BY <3>4, <3>5
  <2> QED BY <2>1, <2>2, <2>3
<1>7. CASE Boot
  BY <1>7 DEF Boot, MemReserve, BootSkip, BootMerge, BootDone, frame
<1>8. ASSUME NEW p \in Frames, Share(p) \/ Unshare(p)
      PROVE  order'[f] = order[f]
  BY <1>8 DEF Share, Unshare
<1>9. ASSUME NEW o \in Orders, AllocPages(o)
      PROVE  order'[f] = order[f]
  BY <1>9 DEF AllocPages, frame
<1>10. CASE Hung \/ UNCHANGED vars
  BY <1>10 DEF Hung, vars
<1> QED BY <1>2, <1>3, <1>4, <1>5, <1>6, <1>7, <1>8, <1>9, <1>10
        DEF Next, KernelStep, Call

(* While a block stays granted, no step changes its order or takes one of  *)
(* its frames out of USED: the caller's memory is the caller's, as long as *)
(* no reference_cnt came up negative.                                      *)
THEOREM HeldStay == ASSUME NoneNegative PROVE Spec => HeldStable
<1>1. ASSUME Inv, Inv', [Next]_vars, NEW f \in Frames, Held(f), refs'[f] > 0
      PROVE  order'[f] = order[f] /\ \A g \in Span(f) : used'[g] = "USED"
  <2>1. order'[f] = order[f]
    BY <1>1, HeldOrder
  <2>2. f \in Nat /\ End(f) \in Nat /\ End(f) <= PageNum /\ PageNum \in Nat
    BY <1>1, BlockInside, Constants DEF Block
  <2>3. order[f] \in Orders
    BY <1>1 DEF Inv, TypeOK
  <2>4. Size[order[f]] \in Nat
    BY <2>3, Constants
  <2>5. \A g \in Span(f) : g \in Frames /\ f <= g /\ g < f + Size[order[f]]
    BY <2>2, <2>4, Constants DEF Span, End
  <2>6. \A g \in Frames : f <= g /\ g < f + Size[order'[f]] => used'[g] = "USED"
    BY <1>1 DEF Inv, HeldUsed, Held, End
  <2> QED BY <2>1, <2>5, <2>6
<1>2. Inv /\ Inv' /\ [Next]_vars =>
        [\A f \in Frames :
           Held(f) /\ refs'[f] > 0 =>
              /\ order'[f] = order[f]
              /\ \A g \in Span(f) : used'[g] = "USED"]_vars
  BY <1>1
<1> QED BY <1>2, InvHolds, PTL DEF Spec, HeldStable

(***************************************************************************)
(* Buddy implements PageAllocator.                                         *)
(***************************************************************************)
AbsOrd == [f \in Frames |-> IF Held(f) THEN order[f] ELSE 0]

(* A step that leaves the owners alone is a stuttering step.               *)
LEMMA Stutters ==
    ASSUME Inv, [Next]_vars, refs' = refs
    PROVE  UNCHANGED Pages!avars
<1>1. \A f \in Frames : Held(f) => order'[f] = order[f]
  BY HeldOrder DEF Held
<1>2. \A f \in Frames : Held(f)' <=> Held(f)
  BY DEF Held
<1>3. AbsOrd' = AbsOrd
  BY <1>1, <1>2 DEF AbsOrd
<1> QED BY <1>3 DEF Pages!avars, AbsOrd

(* One owner more. *)
LEMMA SharesOne ==
    ASSUME Inv, [Next]_vars, NEW p \in Frames, Held(p),
           refs' = [refs EXCEPT ![p] = @ + 1]
    PROVE  Pages!Share(p)
<1>1. refs \in [Frames -> Nat]
  BY DEF Inv, TypeOK
<1>2. \A f \in Frames : Held(f)' <=> Held(f)
  BY <1>1 DEF Held
<1>3. \A f \in Frames : Held(f) => order'[f] = order[f]
  BY <1>2, HeldOrder DEF Held
<1>4. AbsOrd' = AbsOrd
  BY <1>2, <1>3 DEF AbsOrd
<1> QED BY <1>4 DEF Pages!Share, Pages!Granted, Held, AbsOrd

(* One owner less, and when it was the last the block is given up.         *)
LEMMA DropsOne ==
    ASSUME Inv, [Next]_vars, NEW p \in Frames, Held(p),
           refs' = [refs EXCEPT ![p] = @ - 1]
    PROVE  Pages!Drop(p)
<1>1. refs \in [Frames -> Nat]
  BY DEF Inv, TypeOK
<1>2. \A f \in Frames : Held(f)' <=> Held(f) /\ ~(f = p /\ refs[p] = 1)
  BY <1>1 DEF Held
<1>3. \A f \in Frames : Held(f)' => order'[f] = order[f]
  BY <1>2, HeldOrder DEF Held
<1>4. AbsOrd' = [AbsOrd EXCEPT ![p] = IF refs[p] = 1 THEN 0 ELSE @]
  BY <1>2, <1>3 DEF AbsOrd
<1> QED BY <1>4 DEF Pages!Drop, Pages!Granted, Held, AbsOrd

(* The end of a split grants the block.                                    *)
LEMMA GrantsOne ==
    ASSUME Inv, SplitDone
    PROVE  \E f \in Frames, o \in Orders : Pages!Alloc(f, o)
<1>1. /\ pc = "split" /\ Busy /\ order[cur] = target
      /\ order' = Fill(order, cur, Size[target], target)
      /\ refs' = [refs EXCEPT ![cur] = 1]
  BY DEF SplitDone, Busy
<1>2. TypeOK /\ cur \in Frames /\ target \in Orders /\ refs \in [Frames -> Nat]
      /\ order \in [Frames -> Orders]
  BY DEF Inv, TypeOK
<1>3. cur \in Nat /\ Size[target] \in Nat \ {0} /\ PageNum \in Nat
  BY <1>2, Constants
<1>4. Block(cur) /\ ~Held(cur) /\ End(cur) = cur + Size[target] /\ End(cur) <= PageNum
  BY <1>1, <1>2, BlockInside DEF Block, Inv, CurFree, End
<1>5. cur % Size[target] = 0
  BY <1>1, <1>2, <1>4 DEF Inv, Aligned
<1>6. Pages!Span(cur, target) \subseteq Frames
  BY <1>3, <1>4, Constants DEF Pages!Span
<1>7. ASSUME NEW f \in Frames, Held(f)
      PROVE  Pages!Span(cur, target) \cap Pages!Span(f, AbsOrd[f]) = {}
  <2>1. AbsOrd[f] = order[f] /\ f \in Nat /\ Block(f) /\ f # cur
    BY <1>4, <1>7, Constants DEF AbsOrd, Block
  <2>2. order[f] \in Orders /\ Size[order[f]] \in Nat
    BY <1>2, Constants
  <2>3. End(f) <= cur \/ End(cur) <= f
    BY <1>2, <1>4, <2>1, BlocksDoNotOverlap
  <2>4. End(f) = f + Size[order[f]]
    BY DEF End
  <2> QED BY <1>3, <1>4, <2>1, <2>2, <2>3, <2>4 DEF Pages!Span
<1>8. \A f \in Frames : Held(f)' <=> Held(f) \/ f = cur
  BY <1>1, <1>2 DEF Held
<1>9. order'[cur] = target /\ \A f \in Frames : Held(f) => order'[f] = order[f]
  <2>1. SplitDone => Next
    BY DEF Next, KernelStep
  <2>2. \A f \in Frames : Held(f) => order'[f] = order[f]
    BY <1>8, <2>1, HeldOrder DEF Held
  <2>3. order'[cur] = target
    BY <1>1, <1>2, <1>3 DEF Fill
  <2> QED BY <2>2, <2>3
<1>10. AbsOrd' = [AbsOrd EXCEPT ![cur] = target]
  BY <1>4, <1>8, <1>9 DEF AbsOrd
<1>11. \A g \in Pages!Granted : Pages!Span(cur, target) \cap Pages!Span(g, AbsOrd[g]) = {}
  BY <1>7 DEF Pages!Granted, Held
<1>12. PICK f \in Frames, o \in Orders : f = cur /\ o = target
  BY <1>2
<1>13. Pages!Alloc(f, o)
  BY <1>1, <1>5, <1>6, <1>10, <1>11, <1>12 DEF Pages!Alloc, Pages!Room, AbsOrd
<1> QED BY <1>13

(* Every behaviour of the buddy allocator is one of PageAllocator, as long *)
(* as no reference_cnt came up negative.                                   *)
THEOREM BuddyImplements == ASSUME NoneNegative PROVE Spec => Implements
<1>1. Init => Pages!Init
  <2>1. Init => \A f \in Frames : ~Held(f)
    BY DEF Init, Held
  <2> QED BY <2>1 DEF Init, Pages!Init
<1>2. ASSUME Inv, [Next]_vars
      PROVE  [Pages!Next]_Pages!avars
  <2>1. CASE refs' = refs
    BY <1>2, <2>1, Stutters
  <2>2. CASE SplitDone
    BY <1>2, <2>2, GrantsOne DEF Pages!Next
  <2>3. ASSUME NEW p \in Frames, Held(p), refs' = [refs EXCEPT ![p] = @ + 1]
        PROVE  Pages!Next
    BY <1>2, <2>3, SharesOne DEF Pages!Next
  <2>4. ASSUME NEW p \in Frames, Held(p), refs' = [refs EXCEPT ![p] = @ - 1]
        PROVE  Pages!Next
    BY <1>2, <2>4, DropsOne DEF Pages!Next
  <2>5. \/ refs' = refs \/ SplitDone
        \/ \E p \in Frames : Held(p) /\ refs' = [refs EXCEPT ![p] = @ + 1]
        \/ \E p \in Frames : Held(p) /\ refs' = [refs EXCEPT ![p] = @ - 1]
    <3>1. CASE KernelStep \/ Hung \/ UNCHANGED vars
      BY <3>1 DEF KernelStep, Boot, BootSkip, BootMerge, BootDone, MemReserve,
                  SplitStep, MergeStep, MergeDone, Hung, vars, ghost
    <3>2. ASSUME NEW o \in Orders, AllocPages(o) PROVE refs' = refs
      BY <3>2 DEF AllocPages, ghost
    <3>3. ASSUME NEW p \in Frames, FreePages(p)
          PROVE  refs' = refs \/ (Held(p) /\ refs' = [refs EXCEPT ![p] = @ - 1])
      BY <3>3 DEF FreePages
    <3>4. ASSUME NEW p \in Frames, Share(p)
          PROVE  Held(p) /\ refs' = [refs EXCEPT ![p] = @ + 1]
      BY <3>4 DEF Share
    <3>5. ASSUME NEW p \in Frames, Unshare(p)
          PROVE  Held(p) /\ refs' = [refs EXCEPT ![p] = @ - 1]
      <4>1. refs[p] \in Nat /\ refs[p] > 1
        BY <1>2, <3>5 DEF Inv, TypeOK, Unshare
      <4> QED BY <3>5, <4>1 DEF Unshare, Held
    <3> QED BY <1>2, <3>1, <3>2, <3>3, <3>4, <3>5 DEF Next, Call
  <2> QED BY <2>1, <2>2, <2>3, <2>4, <2>5
<1>3. Inv /\ [Next]_vars => [Pages!Next]_Pages!avars
  BY <1>2
<1> QED BY <1>1, <1>3, InvHolds, PTL DEF Spec, Implements, Pages!Spec

(***************************************************************************)
(* The lists and their counts.                                             *)
(***************************************************************************)
Counted == \A o \in Orders : pg_free[o] = Len(list[o])

(* Unlinking and linking a node move the length as they move pg_free.      *)
LEMMA UnlinkedLength ==
    ASSUME NEW L \in [Orders -> Seq(Frames)], NEW o \in Orders, NEW k \in DOMAIN L[o]
    PROVE  \A q \in Orders :
             Len(Removed(L, o, k)[q]) = IF q = o THEN Len(L[o]) - 1 ELSE Len(L[q])
<1> DEFINE s == L[o]
           r == RemoveAt(s, k)
<1>1. s \in Seq(Frames) /\ k \in DOMAIN s
  OBVIOUS
<1>2. Len(r) = Len(s) - 1
  BY <1>1, RemoveAtFacts
<1>3. Removed(L, o, k) = [q \in Orders |-> IF q = o THEN r ELSE L[q]]
  BY DEF Removed
<1> HIDE DEF r
<1> QED BY <1>2, <1>3

LEMMA LinkedLength ==
    ASSUME NEW L \in [Orders -> Seq(Frames)], NEW o \in Orders, NEW x \in Frames
    PROVE  \A q \in Orders :
             Len(Inserted(L, o, x)[q]) = IF q = o THEN Len(L[o]) + 1 ELSE Len(L[q])
<1>1. L[o] \in Seq(Frames)
  OBVIOUS
<1>2. Len(Append(L[o], x)) = Len(L[o]) + 1
  BY <1>1
<1> QED BY <1>2 DEF Inserted

LEMMA UnlinkCounted ==
    ASSUME Inv, Counted, NEW o \in Orders, NEW k \in DOMAIN list[o],
           list' = Removed(list, o, k), pg_free' = [pg_free EXCEPT ![o] = @ - 1]
    PROVE  Counted'
<1>1. list \in [Orders -> Seq(Frames)] /\ pg_free \in [Orders -> Int]
  BY DEF Inv, TypeOK
<1>2. \A q \in Orders :
        Len(list'[q]) = IF q = o THEN Len(list[o]) - 1 ELSE Len(list[q])
  BY <1>1, UnlinkedLength
<1> QED BY <1>1, <1>2 DEF Counted

LEMMA LinkCounted ==
    ASSUME Inv, Counted, NEW o \in Orders, NEW x \in Frames,
           list' = Inserted(list, o, x), pg_free' = [pg_free EXCEPT ![o] = @ + 1]
    PROVE  Counted'
<1>1. list \in [Orders -> Seq(Frames)] /\ pg_free \in [Orders -> Int]
  BY DEF Inv, TypeOK
<1>2. \A q \in Orders :
        Len(list'[q]) = IF q = o THEN Len(list[o]) + 1 ELSE Len(list[q])
  BY <1>1, LinkedLength
<1> QED BY <1>1, <1>2 DEF Counted

LEMMA CountedInit == ASSUME Init PROVE Counted
<1>1. PageNum \in Nat
  BY Constants
<1>2. Len(<<>>) = 0 /\ Len([k \in 1 .. PageNum |-> k - 1]) = PageNum
  BY <1>1
<1> QED BY <1>2 DEF Init, Counted

LEMMA CountedNext == ASSUME Inv, Inv', [Next]_vars, Counted PROVE Counted'
<1>0. /\ cur \in Frames /\ order \in [Frames -> Orders] /\ 0 \in Orders
      /\ Reserved \subseteq Frames
  BY Constants, PoolAssumption DEF Inv, TypeOK
<1>1. CASE lists' = lists
  BY <1>1 DEF lists, Counted
<1>2. ASSUME NEW r \in Reserved, MemReserve(r) PROVE Counted'
  <2>1. order[r] \in Orders
    BY <1>0
  <2>2. PICK k \in DOMAIN list[order[r]] : list' = Removed(list, order[r], k)
    BY <1>2 DEF MemReserve
  <2>3. pg_free' = [pg_free EXCEPT ![order[r]] = @ - 1]
    BY <1>2 DEF MemReserve
  <2> QED BY <2>1, <2>2, <2>3, UnlinkCounted
<1>3. CASE BootMerge
  <2>1. PICK k \in DOMAIN list[0] : list' = Removed(list, 0, k)
    BY <1>3 DEF BootMerge
  <2>2. pg_free' = [pg_free EXCEPT ![0] = @ - 1]
    BY <1>3 DEF BootMerge
  <2> QED BY <1>0, <2>1, <2>2, UnlinkCounted
<1>4. ASSUME NEW o \in Orders, AllocPages(o) PROVE Counted'
  <2>1. PICK i \in Orders : /\ \E k \in DOMAIN list[i] : list' = Removed(list, i, k)
                            /\ pg_free' = [pg_free EXCEPT ![i] = @ - 1]
    BY <1>4 DEF AllocPages
  <2> QED BY <2>1, UnlinkCounted
<1>5. CASE SplitStep
  <2> DEFINE o == order[cur] - 1
             s == cur + Size[o]
  <2>1. /\ list' = Inserted(list, o, s) /\ pg_free' = [pg_free EXCEPT ![o] = @ + 1]
        /\ order[cur] > target
    BY <1>5 DEF SplitStep
  <2>2. o \in Orders
    BY <1>0, <2>1, Constants DEF Inv, TypeOK, Orders
  <2>3. s \in Frames
    <3>1. pc = "split" /\ Block(cur)
      BY <1>0, <1>5 DEF SplitStep, Block, Busy
    <3>2. /\ o + 1 \in Orders /\ o + 1 = order[cur] /\ o < MaxOrder
          /\ End(cur) <= PageNum /\ End(cur) = cur + Size[order[cur]]
      BY <1>0, <2>2, <3>1, BlockInside, Constants DEF End, Orders
    <3>3. Size[o + 1] = 2 * Size[o] /\ Size[o] \in Nat \ {0} /\ cur \in Nat
      BY <1>0, <2>2, <3>2, Constants
    <3> HIDE DEF o
    <3> QED BY <3>2, <3>3, Constants
  <2> QED BY <2>1, <2>2, <2>3, LinkCounted
<1>6. CASE MergeStep
  <2> DEFINE q == order[BuddyOf(cur, order[cur])]
  <2>1. PICK k \in DOMAIN list[q] : list' = Removed(list, q, k)
    BY <1>6 DEF MergeStep
  <2>2. pg_free' = [pg_free EXCEPT ![q] = @ - 1]
    BY <1>6 DEF MergeStep
  <2>3. q \in Orders
    BY <1>0, <1>6 DEF MergeStep, Mergeable
  <2> QED BY <2>1, <2>2, <2>3, UnlinkCounted
<1>7. CASE MergeDone
  <2>1. /\ list' = Inserted(list, order[cur], cur)
        /\ pg_free' = [pg_free EXCEPT ![order[cur]] = @ + 1]
    BY <1>7 DEF MergeDone
  <2> QED BY <1>0, <2>1, LinkCounted
<1>8. BootSkip \/ BootDone \/ SplitDone \/ Hung \/ UNCHANGED vars => lists' = lists
  BY DEF BootSkip, BootDone, SplitDone, Hung, vars, lists
<1>9. \A p \in Frames : FreePages(p) \/ Share(p) \/ Unshare(p) => lists' = lists
  BY DEF FreePages, Share, Unshare, lists
<1> QED BY <1>1, <1>2, <1>3, <1>4, <1>5, <1>6, <1>7, <1>8, <1>9
        DEF Next, KernelStep, Boot, Call

(* What merge_page and get_pageframe take from a frame's two fields is what the
   lists hold: a frame is on one list, once, when its fields say so, and pg_free
   is each list's length, as long as no reference_cnt came up negative. *)
THEOREM ListsAreExact == ASSUME NoneNegative PROVE Spec => []ListsExact
<1>1. Init => Counted
  BY CountedInit
<1>2. Inv /\ Inv' /\ [Next]_vars /\ Counted => Counted'
  BY CountedNext
<1>3. ASSUME Inv, Counted PROVE ListsExact
  <2> SUFFICES ASSUME NEW o \in Orders, NEW f \in Frames
               PROVE  Cardinality({k \in DOMAIN list[o] : list[o][k] = f}) =
                        IF used[f] = "AVAL" /\ order[f] = o /\ f \notin InFlight
                          THEN 1 ELSE 0
    BY <1>3 DEF ListsExact, Counted
  <2> DEFINE nodes == {k \in DOMAIN list[o] : list[o][k] = f}
  <2>1. ASSUME At(list, o, f)
        PROVE  Cardinality(nodes) = 1
    <3>1. PICK k \in DOMAIN list[o] : list[o][k] = f
      BY <2>1 DEF At
    <3>2. nodes = {k}
      BY <1>3, <3>1 DEF Inv, NoRepeat
    <3> QED BY <3>2, FS_Singleton
  <2>2. ASSUME ~At(list, o, f)
        PROVE  Cardinality(nodes) = 0
    <3>1. nodes = {}
      BY <2>2 DEF At
    <3> QED BY <3>1, FS_EmptySet
  <2>3. Busy => /\ cur \in Frames /\ Block(cur) /\ InFlight = cur .. (End(cur) - 1)
                /\ cur \in Nat /\ End(cur) \in Nat
    <3>1. cur \in Frames /\ order[cur] \in Orders
      BY <1>3 DEF Inv, TypeOK
    <3>2. Busy => Block(cur)
      BY <3>1 DEF Block
    <3>3. Busy => End(cur) \in Nat /\ cur \in Nat
      BY <1>3, <3>1, <3>2, BlockInside, Constants
    <3>4. Busy => InFlight = Span(cur)
      BY DEF Busy, InFlight
    <3>5. Span(cur) = cur .. (End(cur) - 1)
      <4>1. cur \in Nat /\ Size[order[cur]] \in Nat
        BY <3>1, Constants
      <4> QED BY <4>1 DEF Span, End
    <3> QED BY <3>1, <3>2, <3>3, <3>4, <3>5
  <2>4. ~Busy => InFlight = {}
    BY DEF Busy, InFlight
  <2>5. At(list, o, f) => used[f] = "AVAL" /\ order[f] = o /\ f \notin InFlight
    <3>1. ASSUME At(list, o, f), Busy PROVE f \notin InFlight
      <4>1. Block(f) /\ f # cur
        BY <1>3, <3>1 DEF Block, Inv, ListedFree
      <4>2. End(f) <= cur \/ End(cur) <= f
        BY <1>3, <2>3, <3>1, <4>1, BlocksDoNotOverlap
      <4>3. f < End(f) /\ End(f) \in Nat /\ f \in Nat
        BY <1>3, <4>1, BlockInside, Constants
      <4> QED BY <2>3, <3>1, <4>2, <4>3
    <3> QED BY <1>3, <2>4, <3>1 DEF Inv, ListedFree
  <2>6. used[f] = "AVAL" /\ order[f] = o /\ f \notin InFlight => At(list, o, f)
    <3>1. f \in Nat
      BY Constants
    <3> QED BY <1>3, <2>3, <3>1 DEF Inv, FreeListed
  <2> QED BY <2>1, <2>2, <2>5, <2>6
<1>4. Inv /\ Counted => ListsExact
  BY <1>3
<1> QED BY <1>1, <1>2, <1>4, InvHolds, PTL DEF Spec

(***************************************************************************)
(* The counts of a table that starts zeroed.                               *)
(***************************************************************************)
Exact == RefsExact /\ DoubleFreeCaught /\ leaked = {}

(* A page that no granted block contains is not USED, so its free hangs.   *)
LEMMA StrayFreeHangs ==
    ASSUME Inv, leaked = {}, NEW p \in Frames, FreePages(p), refcnt[p] = refs[p], ~Held(p)
    PROVE  pc' = "hung"
<1>1. refs[p] = 0
  BY DEF Held, Inv, TypeOK
<1>2. ~Shared(p)
  BY <1>1 DEF Shared
<1>3. used[p] # "USED"
  BY FreedIsHeld
<1> QED BY <1>2, <1>3 DEF FreePages

LEMMA ExactFree ==
    ASSUME Inv, Exact, NEW p \in Frames, FreePages(p)
    PROVE  Exact'
<1>1. /\ pc = "idle" /\ refcnt = refs /\ ~misused /\ leaked = {}
      /\ refs \in [Frames -> Nat]
  BY DEF FreePages, Exact, RefsExact, DoubleFreeCaught, Inv, TypeOK
<1>2. CASE Held(p)
  <2>1. refs' = [refs EXCEPT ![p] = @ - 1] /\ refcnt' = [refcnt EXCEPT ![p] = @ - 1]
        /\ misused' = FALSE
    BY <1>1, <1>2 DEF FreePages
  <2>2. ~(Shared(p) /\ refs[p] = 1)
    BY <1>1 DEF Shared
  <2>3. leaked' = {}
    BY <1>1, <2>2 DEF FreePages
  <2>4. used[p] = "USED"
    <3>1. p <= p /\ p < End(p)
      BY <1>2, BlockInside, Constants DEF Block
    <3> QED BY <1>2, <3>1 DEF Inv, HeldUsed
  <2>5. pc' # "hung"
    BY <1>1, <2>4 DEF FreePages
  <2> QED BY <1>1, <2>1, <2>3, <2>5 DEF Exact, RefsExact, DoubleFreeCaught
<1>3. CASE ~Held(p)
  <2>1. pc' = "hung"
    BY <1>1, <1>3, StrayFreeHangs
  <2>2. misused'
    BY <1>3 DEF FreePages
  <2>3. refs[p] # 1
    BY <1>1, <1>3 DEF Held
  <2>4. leaked' = {}
    BY <1>1, <2>3 DEF FreePages
  <2> QED BY <2>1, <2>2, <2>4 DEF Exact, RefsExact, DoubleFreeCaught
<1> QED BY <1>2, <1>3

LEMMA ExactNext == ASSUME Inv, [Next]_vars, Exact PROVE Exact'
<1>0. refs \in [Frames -> Nat] /\ refcnt \in [Frames -> Int] /\ cur \in Frames
  BY DEF Inv, TypeOK
<1>1. ASSUME refcnt' = refcnt, ghost' = ghost, pc # "hung", pc' # "hung"
      PROVE  Exact'
  BY <1>1 DEF Exact, RefsExact, DoubleFreeCaught, ghost
<1>2. CASE Boot
  <2>1. refcnt' = refcnt /\ ghost' = ghost /\ pc # "hung" /\ pc' # "hung"
    BY <1>2 DEF Boot, BootSkip, BootMerge, BootDone, MemReserve, frame, ghost
  <2> QED BY <1>1, <2>1
<1>3. CASE SplitStep \/ MergeStep \/ MergeDone
  <2>1. refcnt' = refcnt /\ ghost' = ghost /\ pc # "hung" /\ pc' # "hung"
    BY <1>3 DEF SplitStep, MergeStep, MergeDone, frame, ghost
  <2> QED BY <1>1, <2>1
<1>4. ASSUME NEW o \in Orders, AllocPages(o) PROVE Exact'
  <2>1. refcnt' = refcnt /\ ghost' = ghost /\ pc # "hung" /\ pc' # "hung"
    BY <1>4 DEF AllocPages, frame, ghost
  <2> QED BY <1>1, <2>1
<1>5. CASE SplitDone
  <2>1. /\ pc = "split" /\ pc' = "idle" /\ leaked' = leaked /\ misused' = misused
        /\ refs' = [refs EXCEPT ![cur] = 1] /\ refcnt' = [refcnt EXCEPT ![cur] = @ + 1]
    BY <1>5 DEF SplitDone
  <2>2. refs[cur] = 0
    BY <1>0, <2>1 DEF Inv, CurFree, Busy, Held
  <2>3. refcnt = refs
    BY <2>1 DEF Exact, RefsExact
  <2>4. refcnt' = refs'
    BY <1>0, <2>1, <2>2, <2>3
  <2> QED BY <2>1, <2>4 DEF Exact, RefsExact, DoubleFreeCaught
<1>6. ASSUME NEW p \in Frames, FreePages(p) PROVE Exact'
  BY <1>6, ExactFree
<1>7. ASSUME NEW p \in Frames, Share(p) \/ Unshare(p) PROVE Exact'
  <2>1. pc = "idle" /\ pc' = pc /\ leaked' = leaked /\ misused' = misused
    BY <1>7 DEF Share, Unshare
  <2>2. refcnt = refs
    BY <2>1 DEF Exact, RefsExact
  <2>3. refcnt' = refs'
    BY <1>7, <2>2 DEF Share, Unshare
  <2> QED BY <2>1, <2>3 DEF Exact, RefsExact, DoubleFreeCaught
<1>8. CASE Hung \/ UNCHANGED vars
  BY <1>8 DEF Hung, vars, Exact, RefsExact, DoubleFreeCaught
<1> QED BY <1>2, <1>3, <1>4, <1>5, <1>6, <1>7, <1>8 DEF Next, KernelStep, Call

LEMMA ExactInit == ASSUME InitRefs = {0}, Init PROVE Exact
<1>1. refcnt = [f \in Frames |-> 0]
  BY DEF Init
<1> QED BY <1>1 DEF Init, Exact, RefsExact, DoubleFreeCaught

LEMMA ZeroedTable == ASSUME InitRefs = {0} PROVE NoneNegative
BY DEF NoneNegative

THEOREM ExactHolds == ASSUME InitRefs = {0} PROVE Spec => []Exact
<1>1. Init => Exact
  BY ExactInit
<1>2. Inv /\ [Next]_vars /\ Exact => Exact'
  BY ExactNext
<1> QED BY <1>1, <1>2, InvHolds, ZeroedTable, PTL DEF Spec

(* Of a table that starts zeroed, reference_cnt is the number of owners:   *)
(* fork's sharing, copy-on-write's un-sharing and the early return of      *)
(* free_pages keep it so, and no block leaks.                              *)
THEOREM RefsAreExact == ASSUME InitRefs = {0} PROVE Spec => []RefsExact
<1>1. Exact => RefsExact
  BY DEF Exact
<1> QED BY <1>1, ExactHolds, PTL

(* free_pages hangs with "Double free occured!!!" when, and only when, a   *)
(* caller has freed a page of no granted block.                            *)
THEOREM DoubleFreesAreCaught == ASSUME InitRefs = {0} PROVE Spec => []DoubleFreeCaught
<1>1. Exact => DoubleFreeCaught
  BY DEF Exact
<1> QED BY <1>1, ExactHolds, PTL

(***************************************************************************)
(* No frame is lost.                                                       *)
(***************************************************************************)
Covered(g) == \E f \in Frames : Block(f) /\ f <= g /\ g < End(f)
Cover == \A g \in Frames : g \in Reserved \cup leaked \/ Covered(g)

(* mem_reserve runs before the first merge, when every block is one frame. *)
Fresh == boot_i = 0 => pc = "boot" /\ \A f \in Frames : order[f] = 0

LEMMA FreshNext == ASSUME Inv, Fresh, [Next]_vars PROVE Fresh'
<1>1. boot_i \in Nat
  BY Constants DEF Inv, TypeOK
<1>2. CASE boot_i' = boot_i /\ order' = order /\ pc' = pc
  BY <1>2 DEF Fresh
<1>3. CASE boot_i' = boot_i /\ (pc # "boot" \/ boot_i > 0)
  BY <1>1, <1>3 DEF Fresh
<1>4. CASE boot_i' = boot_i + 1
  BY <1>1, <1>4 DEF Fresh
<1>5. PageNum > 0
  BY Constants
<1> QED
  BY <1>1, <1>2, <1>3, <1>4, <1>5
  DEF Next, KernelStep, Boot, Call, Hung, vars, MemReserve, BootSkip, BootMerge,
      BootDone, SplitStep, SplitDone, MergeStep, MergeDone, AllocPages, FreePages,
      Share, Unshare, frame, lists, ghost

(* A write inside one block leaves the order of every other block alone.   *)
LEMMA OtherBlocksKeepOrder ==
    ASSUME Inv, NEW b \in Frames, Block(b), NEW f \in Frames, Block(f), f # b,
           NEW s \in Frames, b <= s, NEW S \in Nat, s + S <= End(b), NEW v
    PROVE  Fill(order, s, S, v)[f] = order[f]
<1>1. End(f) <= b \/ End(b) <= f
  BY BlocksDoNotOverlap
<1>2. f \in Nat /\ b \in Nat /\ s \in Nat /\ f < End(f) /\ End(f) \in Nat /\ End(b) \in Nat
  BY BlockInside, Constants
<1>3. ~(s <= f /\ f < s + S)
  BY <1>1, <1>2
<1> QED BY <1>3 DEF Fill

(* If each block stays, or its frames move to others or are given up, all  *)
(* stays covered.                                                          *)
LEMMA CoverMoves ==
    ASSUME Inv, Cover, leaked \subseteq leaked',
           \A f \in Frames : Block(f) =>
              \/ Block(f)' /\ order'[f] = order[f]
              \/ \A g \in Frames : f <= g /\ g < End(f) =>
                    g \in Reserved \cup leaked' \/ Covered(g)'
    PROVE  Cover'
<1> SUFFICES ASSUME NEW g \in Frames
             PROVE  g \in Reserved \cup leaked' \/ Covered(g)'
  BY DEF Cover
<1>1. CASE g \in Reserved \cup leaked
  BY <1>1
<1>2. CASE Covered(g)
  <2>1. PICK f \in Frames : Block(f) /\ f <= g /\ g < End(f)
    BY <1>2 DEF Covered
  <2>2. CASE Block(f)' /\ order'[f] = order[f]
    <3>1. g < End(f)'
      BY <2>1, <2>2 DEF End
    <3> QED BY <2>1, <2>2, <3>1 DEF Covered
  <2> QED BY <2>1, <2>2
<1> QED BY <1>1, <1>2 DEF Cover

(* The entry of alloc_pages and of the boot merge: a listed block goes into
   flight, all others stay. *)
LEMMA CoverUnlink ==
    ASSUME Inv, Cover, ~Busy, NEW o \in Orders, NEW k \in DOMAIN list[o],
           cur' = list[o][k], list' = Removed(list, o, k),
           order' = order, refs' = refs, leaked' = leaked, Busy'
    PROVE  Cover'
<1>1. /\ list \in [Orders -> Seq(Frames)] /\ NoRepeat(list)
  BY DEF Inv, TypeOK
<1>2. \A q \in Orders, f \in Frames :
        At(list', q, f) <=> At(list, q, f) /\ ~(q = o /\ f = cur')
  BY <1>1, Unlink
<1>3. \A f \in Frames : Block(f) => Block(f)' /\ order'[f] = order[f]
  BY <1>2 DEF Block, Held
<1> QED BY <1>3, CoverMoves

LEMMA SplitStepCovers == ASSUME Inv, Cover, SplitStep PROVE Cover'
<1> DEFINE o == order[cur] - 1
           S == Size[o]
<1>1. /\ Busy /\ Busy' /\ cur' = cur /\ refs' = refs /\ leaked' = leaked
      /\ order' = [Fill(order, cur + S, S, o) EXCEPT ![cur] = o]
      /\ list' = Inserted(list, o, cur + S)
  BY DEF SplitStep, Busy, ghost
<1>2. /\ cur \in Frames /\ order[cur] \in Orders /\ target \in Orders
      /\ order \in [Frames -> Orders]
      /\ list \in [Orders -> Seq(Frames)] /\ NoRepeat(list)
  BY DEF Inv, TypeOK
<1>3. /\ o \in Orders /\ S \in Nat \ {0} /\ Size[order[cur]] = 2 * S /\ cur \in Nat
  <2>0. order[cur] > target
    BY DEF SplitStep
  <2>1. o \in Orders /\ o + 1 = order[cur] /\ o < MaxOrder
    BY <1>2, <2>0, OrderAssumption DEF Orders
  <2>2. Size[o + 1] = 2 * S /\ S \in Nat \ {0}
    BY <2>1, Constants
  <2> HIDE DEF o, S
  <2> QED BY <1>2, <2>1, <2>2, Constants
<1>4. Block(cur) /\ End(cur) = cur + 2 * S /\ End(cur) <= PageNum /\ ~Held(cur)
  BY <1>1, <1>2, <1>3, BlockInside DEF Block, End, Inv, CurFree
<1> HIDE DEF o, S
<1>5. PICK q \in Orders, T \in Nat : q = o /\ T = S /\ T = Size[q]
  BY <1>3 DEF S
<1>6. PICK c \in Frames, s \in Frames : c = cur /\ s = cur + T
  <2>1. cur + T \in Frames
    BY <1>3, <1>4, <1>5, Constants
  <2> QED BY <1>2, <2>1
<1>7. c \in Nat /\ s \in Nat /\ T > 0 /\ s = c + T /\ End(c) = s + T
  BY <1>3, <1>4, <1>5, <1>6, Constants
<1>8. ~Block(s)
  BY <1>4, <1>6, <1>7 DEF Inv, Disjoint
<1>9. \A r \in Orders, f \in Frames :
        At(list', r, f) <=> At(list, r, f) \/ (r = q /\ f = s)
  <2>1. ~At(list, q, s)
    BY <1>8 DEF Block
  <2>2. list' = Inserted(list, q, s)
    BY <1>1, <1>5, <1>6
  <2> QED BY <1>2, <2>1, <2>2, Link
<1>10. order' = [Fill(order, s, T, q) EXCEPT ![c] = q]
  BY <1>1, <1>5, <1>6
<1>11. order'[c] = q /\ order'[s] = q
  BY <1>7, <1>10 DEF Fill
<1>12. Block(c)' /\ Block(s)' /\ End(c)' = s /\ End(s)' = s + T
  <2>1. Block(c)' /\ Block(s)'
    BY <1>1, <1>6, <1>9 DEF Block
  <2> QED BY <1>5, <1>7, <1>11, <2>1 DEF End
<1>13. \A g \in Frames : c <= g /\ g < End(c) => Covered(g)'
  <2> SUFFICES ASSUME NEW g \in Frames, c <= g, g < End(c)
               PROVE  Covered(g)'
    OBVIOUS
  <2>1. g \in Nat /\ g < s + T
    BY <1>7, Constants
  <2>2. CASE g < s
    BY <1>12, <2>2 DEF Covered
  <2>3. CASE s <= g
    BY <1>12, <2>1, <2>3 DEF Covered
  <2> QED BY <1>7, <2>1, <2>2, <2>3
<1>14. ASSUME NEW f \in Frames, Block(f), f # c
       PROVE  Block(f)' /\ order'[f] = order[f]
  <2>1. Fill(order, s, T, q)[f] = order[f]
    BY <1>4, <1>6, <1>7, <1>14, OtherBlocksKeepOrder
  <2>2. order'[f] = order[f]
    BY <1>10, <1>14, <2>1 DEF Fill
  <2>3. Block(f)'
    BY <1>1, <1>6, <1>9, <1>14 DEF Block, Held
  <2> QED BY <2>2, <2>3
<1> QED BY <1>1, <1>13, <1>14, CoverMoves

LEMMA DoneCovers == ASSUME Inv, Cover, SplitDone \/ MergeDone PROVE Cover'
<1>1. /\ Busy /\ cur \in Frames /\ order[cur] \in Orders /\ leaked' = leaked
      /\ order' = Fill(order, cur, Size[order[cur]], order[cur])
      /\ order \in [Frames -> Orders] /\ refs \in [Frames -> Nat]
      /\ list \in [Orders -> Seq(Frames)] /\ NoRepeat(list)
  BY DEF SplitDone, MergeDone, ghost, Busy, Inv, TypeOK
<1>2. Block(cur) /\ End(cur) = cur + Size[order[cur]]
      /\ cur \in Nat /\ Size[order[cur]] \in Nat \ {0}
  BY <1>1, Constants DEF Block, End
<1>3. PICK c \in Frames, q \in Orders : c = cur /\ q = order[cur]
  BY <1>1
<1>4. order'[c] = order[c]
  BY <1>1, <1>2, <1>3 DEF Fill
<1>5. Block(c)' /\ \A f \in Frames : f # c /\ Block(f) => Block(f)'
  <2>1. CASE SplitDone
    <3>1. list' = list /\ refs' = [refs EXCEPT ![c] = 1]
      BY <1>3, <2>1 DEF SplitDone, lists
    <3>2. refs'[c] = 1 /\ \A f \in Frames : f # c => refs'[f] = refs[f]
      BY <1>1, <3>1
    <3> QED BY <1>3, <3>1, <3>2 DEF Block, Held
  <2>2. CASE MergeDone
    <3>1. list' = Inserted(list, q, c) /\ refs' = refs
      BY <1>3, <2>2 DEF MergeDone, ghost
    <3>2. ~At(list, q, c)
      BY <1>1, <1>3 DEF Inv, ListedFree
    <3>3. \A r \in Orders, f \in Frames :
            At(list', r, f) <=> At(list, r, f) \/ (r = q /\ f = c)
      BY <1>1, <3>1, <3>2, Link
    <3> QED BY <1>3, <3>1, <3>3 DEF Block, Held
  <2> QED BY <2>1, <2>2
<1>6. ASSUME NEW f \in Frames, Block(f)
      PROVE  Block(f)' /\ order'[f] = order[f]
  <2>1. CASE f = c
    BY <1>4, <1>5, <2>1
  <2>2. CASE f # c
    <3>1. Size[q] \in Nat /\ Block(c) /\ c <= c /\ c + Size[q] <= End(c)
      BY <1>2, <1>3
    <3>2. Fill(order, c, Size[q], q)[f] = order[f]
      BY <1>6, <2>2, <3>1, OtherBlocksKeepOrder
    <3> QED BY <1>1, <1>3, <1>5, <1>6, <2>2, <3>2
  <2> QED BY <2>1, <2>2
<1> QED BY <1>1, <1>6, CoverMoves

LEMMA MergeStepCovers == ASSUME Inv, Cover, MergeStep PROVE Cover'
<1> DEFINE o == order[cur]
           bd == BuddyOf(cur, o)
           lower == IF bd > cur THEN cur ELSE bd
           S == Size[o]
<1>1. /\ Busy /\ Busy' /\ o < MaxOrder /\ order[bd] = o
      /\ order' = [order EXCEPT ![lower] = o + 1] /\ cur' = lower
      /\ refs' = refs /\ leaked' = leaked
  BY DEF MergeStep, Mergeable, Raised, Busy, ghost
<1>2. /\ cur \in Frames /\ o \in Orders /\ order \in [Frames -> Orders]
      /\ list \in [Orders -> Seq(Frames)] /\ NoRepeat(list)
  BY DEF Inv, TypeOK
<1>3. PICK k \in DOMAIN list[o] : list[o][k] = bd /\ list' = Removed(list, o, k)
  <2>1. \E k \in DOMAIN list[order[bd]] :
          list[order[bd]][k] = bd /\ list' = Removed(list, order[bd], k)
    BY DEF MergeStep
  <2> QED BY <1>1, <2>1
<1>4. Block(cur) /\ cur % S = 0
  BY <1>1, <1>2 DEF Block, Inv, Aligned
<1>5. S \in Nat \ {0} /\ Size[o + 1] = 2 * S /\ cur \in Nat
  BY <1>1, <1>2, Constants
<1>6. bd \in Frames /\ (bd = cur + S \/ bd = cur - S)
  BY <1>1, <1>2, <1>4, BuddyFacts
<1>7. lower \in Frames
  BY <1>2, <1>6
<1>8. \A r \in Orders, f \in Frames :
        At(list', r, f) <=> At(list, r, f) /\ ~(r = o /\ f = bd)
  BY <1>2, <1>3, Unlink
<1>9. PICK c \in Frames, b \in Frames, low \in Frames, q \in Orders, T \in Nat :
        c = cur /\ b = bd /\ low = lower /\ q = o /\ T = S
  BY <1>2, <1>5, <1>6, <1>7
<1>10. End(c) = c + T /\ End(b) = b + T
  BY <1>1, <1>9 DEF End
<1>11. /\ c \in Nat /\ b \in Nat /\ T > 0
       /\ (low = c /\ b = c + T) \/ (low = b /\ c = b + T)
  <2>1. c \in Nat /\ b \in Nat /\ T > 0
    BY <1>5, <1>9, Constants
  <2>2. (b = c + T \/ b = c - T) /\ low = IF b > c THEN c ELSE b
    BY <1>6, <1>9
  <2> QED BY <2>1, <2>2
<1> HIDE DEF o, bd, lower, S
<1>12. Block(low)' /\ order'[low] = q + 1 /\ End(low)' = low + 2 * T
  <2>1. Block(low)' /\ order'[low] = q + 1
    BY <1>1, <1>2, <1>9 DEF Block
  <2> QED BY <1>5, <1>9, <2>1 DEF End
<1>13. \A f \in {c, b} : \A g \in Frames : f <= g /\ g < End(f) => Covered(g)'
  <2> SUFFICES ASSUME NEW f \in {c, b}, NEW g \in Frames, f <= g, g < End(f)
               PROVE  Covered(g)'
    OBVIOUS
  <2>1. g \in Nat
    BY Constants
  <2>2. low <= g /\ g < low + 2 * T
    BY <1>10, <1>11, <2>1
  <2> QED BY <1>12, <2>2 DEF Covered
<1>14. ASSUME NEW f \in Frames, Block(f), f # c, f # b
       PROVE  Block(f)' /\ order'[f] = order[f]
  <2>1. f # low
    BY <1>11, <1>14
  <2>2. order'[f] = order[f]
    BY <1>1, <1>2, <1>9, <2>1
  <2>3. Block(f)'
    BY <1>1, <1>8, <1>9, <1>14 DEF Block, Held
  <2> QED BY <2>2, <2>3
<1> QED BY <1>1, <1>13, <1>14, CoverMoves

LEMMA FreePagesCovers ==
    ASSUME Inv, Cover, NEW p \in Frames, FreePages(p)
    PROVE  Cover'
<1>1. /\ ~Busy /\ list' = list /\ leaked \subseteq leaked'
      /\ order \in [Frames -> Orders] /\ refs \in [Frames -> Nat]
      /\ refs' = IF Held(p) THEN [refs EXCEPT ![p] = @ - 1] ELSE refs
  BY DEF FreePages, lists, Busy, Inv, TypeOK
<1>2. /\ \A f \in Frames : f # p => refs'[f] = refs[f]
      /\ Held(p) => refs'[p] = refs[p] - 1 /\ refs[p] \in Nat
  BY <1>1
<1>3. \A f \in Frames : Block(f) /\ (f # p \/ ~Held(p)) => Block(f)'
  BY <1>1, <1>2 DEF Block, Held
<1>4. CASE order' = order /\ (~Held(p) \/ refs[p] # 1)
  <2>1. Held(p) => Block(p)'
    BY <1>2, <1>4 DEF Block, Held
  <2> QED BY <1>1, <1>3, <1>4, <2>1, CoverMoves
<1>5. CASE Shared(p) /\ Held(p) /\ refs[p] = 1
  <2>1. order' = order /\ leaked' = leaked \cup Span(p)
    BY <1>5 DEF FreePages
  <2>2. \A g \in Frames : p <= g /\ g < End(p) => g \in leaked'
    <3>1. p \in Nat /\ Size[order[p]] \in Nat /\ Frames \subseteq Nat
      BY <1>1, Constants
    <3> QED BY <2>1, <3>1 DEF Span, End
  <2> QED BY <1>1, <1>3, <2>1, <2>2, CoverMoves
<1>6. CASE ~Shared(p) /\ used[p] = "USED"
  <2>1. Held(p) /\ Block(p)
    BY <1>6, FreedIsHeld DEF Block
  <2>2. /\ cur' = p /\ pc' = "merge"
        /\ order' = Fill(order, p, Size[order[p]], order[p])
    BY <1>6 DEF FreePages
  <2>3. p \in Nat /\ Size[order[p]] \in Nat \ {0}
        /\ p <= p /\ p + Size[order[p]] <= End(p)
    <3>1. p \in Nat /\ Size[order[p]] \in Nat \ {0}
      BY <1>1, Constants
    <3> QED BY <3>1 DEF End
  <2>4. Block(p)' /\ order'[p] = order[p]
    BY <2>2, <2>3 DEF Block, Busy, Fill
  <2>5. ASSUME NEW f \in Frames, Block(f), f # p
        PROVE  Block(f)' /\ order'[f] = order[f]
    <3>1. Fill(order, p, Size[order[p]], order[p])[f] = order[f]
      BY <2>1, <2>3, <2>5, OtherBlocksKeepOrder
    <3> QED BY <1>3, <2>2, <2>5, <3>1
  <2> QED BY <1>1, <2>4, <2>5, CoverMoves
<1>7. CASE ~Shared(p) /\ used[p] # "USED"
  <2>1. ~Held(p)
    <3>1. Held(p) => p <= p /\ p < End(p)
      BY BlockInside, Constants DEF Block
    <3> QED BY <1>7, <3>1 DEF Inv, HeldUsed
  <2>2. order' = order
    BY <1>7 DEF FreePages
  <2> QED BY <1>4, <2>1, <2>2
<1>8. Shared(p) => order' = order
  BY DEF FreePages
<1> QED BY <1>4, <1>5, <1>6, <1>7, <1>8

LEMMA MemReserveCovers ==
    ASSUME Inv, Cover, Fresh, NEW r \in Reserved, MemReserve(r)
    PROVE  Cover'
<1>1. /\ boot_i = 0 /\ order' = order /\ refs' = refs /\ leaked' = leaked
      /\ pc = "boot" /\ pc' = pc /\ r \in Frames
  BY PoolAssumption DEF MemReserve, ghost
<1>2. order[r] = 0
  BY <1>1 DEF Fresh
<1>3. PICK k \in DOMAIN list[0] : list[0][k] = r /\ list' = Removed(list, 0, k)
  BY <1>2 DEF MemReserve
<1>4. \A q \in Orders, f \in Frames :
        At(list', q, f) <=> At(list, q, f) /\ ~(q = 0 /\ f = r)
  <2>1. list \in [Orders -> Seq(Frames)] /\ NoRepeat(list)
    BY DEF Inv, TypeOK
  <2> QED BY <1>3, <2>1, Unlink, Constants
<1>5. \A f \in Frames : Block(f) /\ f # r => Block(f)'
  BY <1>1, <1>4 DEF Block, Held, Busy
<1>6. \A g \in Frames : r <= g /\ g < End(r) => g \in Reserved
  <2>1. End(r) = r + 1 /\ r \in Nat /\ Frames \subseteq Nat
    BY <1>1, <1>2, Constants DEF End
  <2>2. \A g \in Frames : r <= g /\ g < End(r) => g = r
    BY <2>1
  <2> QED BY <2>2
<1> QED BY <1>1, <1>5, <1>6, CoverMoves

LEMMA CoverInit == ASSUME Init PROVE Cover /\ Fresh
<1>1. Fresh
  BY DEF Init, Fresh
<1>2. ASSUME NEW g \in Frames PROVE Covered(g)
  <2>1. g \in Nat /\ g + 1 \in 1 .. PageNum /\ 0 \in Orders /\ Size[0] = 1
    BY Constants
  <2>2. list[0] = [k \in 1 .. PageNum |-> k - 1] /\ order[g] = 0
    BY <2>1 DEF Init
  <2>3. g + 1 \in DOMAIN list[0] /\ list[0][g + 1] = g
    BY <2>1, <2>2
  <2>4. Block(g)
    BY <2>1, <2>3 DEF Block, At
  <2>5. g <= g /\ g < End(g)
    BY <2>1, <2>2 DEF End
  <2> QED BY <2>4, <2>5 DEF Covered
<1> QED BY <1>1, <1>2 DEF Cover

LEMMA CoverNext == ASSUME Inv, [Next]_vars, Cover, Fresh PROVE Cover'
<1>1. ASSUME order' = order, list' = list, pc' = pc \/ (~Busy /\ ~Busy'), cur' = cur,
             leaked' = leaked, \A f \in Frames : Held(f) => Held(f)'
      PROVE  Cover'
  <2>1. \A f \in Frames : Block(f) => Block(f)'
    BY <1>1 DEF Block, Busy
  <2> QED BY <1>1, <2>1, CoverMoves
<1>2. CASE BootSkip \/ BootDone \/ Hung \/ UNCHANGED vars
  BY <1>1, <1>2 DEF BootSkip, BootDone, Hung, vars, frame, lists, ghost, Busy, Held
<1>3. ASSUME NEW r \in Reserved, MemReserve(r) PROVE Cover'
  BY <1>3, MemReserveCovers
<1>4. CASE BootMerge
  <2>1. PICK k \in DOMAIN list[0] : list[0][k] = boot_i /\ list' = Removed(list, 0, k)
    BY <1>4 DEF BootMerge
  <2>2. /\ cur' = list[0][k] /\ order' = order /\ refs' = refs /\ leaked' = leaked
        /\ ~Busy /\ Busy'
    BY <1>4, <2>1 DEF BootMerge, frame, ghost, Busy
  <2> QED BY <2>1, <2>2, CoverUnlink, Constants
<1>5. ASSUME NEW o \in Orders, AllocPages(o) PROVE Cover'
  <2>1. PICK i \in Orders : \E k \in DOMAIN list[i] :
                               cur' = list[i][k] /\ list' = Removed(list, i, k)
    BY <1>5 DEF AllocPages
  <2>2. PICK k \in DOMAIN list[i] : cur' = list[i][k] /\ list' = Removed(list, i, k)
    BY <2>1
  <2>3. order' = order /\ refs' = refs /\ leaked' = leaked /\ ~Busy /\ Busy'
    BY <1>5 DEF AllocPages, frame, ghost, Busy
  <2> QED BY <2>2, <2>3, CoverUnlink
<1>6. CASE SplitStep
  BY <1>6, SplitStepCovers
<1>7. CASE SplitDone \/ MergeDone
  BY <1>7, DoneCovers
<1>8. CASE MergeStep
  BY <1>8, MergeStepCovers
<1>9. ASSUME NEW p \in Frames, FreePages(p) PROVE Cover'
  BY <1>9, FreePagesCovers
<1>10. ASSUME NEW p \in Frames, Share(p) \/ Unshare(p) PROVE Cover'
  <2>1. /\ order' = order /\ list' = list /\ pc' = pc /\ cur' = cur /\ leaked' = leaked
        /\ \A f \in Frames : Held(f) => Held(f)'
    <3>1. refs \in [Frames -> Nat]
      BY DEF Inv, TypeOK
    <3> QED BY <1>10, <3>1 DEF Share, Unshare, lists, Held
  <2> QED BY <1>1, <2>1
<1> QED BY <1>2, <1>3, <1>4, <1>5, <1>6, <1>7, <1>8, <1>9, <1>10
        DEF Next, KernelStep, Boot, Call

(* Splits, merges and the boot lose no frame: a frame outside the block in *)
(* flight is reserved or belongs to a listed or a granted block.           *)
THEOREM FramesAreKept == ASSUME InitRefs = {0} PROVE Spec => []NoFrameLost
<1>1. Init => Cover /\ Fresh
  BY CoverInit
<1>2. Inv /\ [Next]_vars /\ Cover /\ Fresh => Cover' /\ Fresh'
  BY CoverNext, FreshNext
<1>3. ASSUME Inv, Exact, Cover PROVE NoFrameLost
  <2> SUFFICES ASSUME NEW g \in Frames, g \notin Reserved
               PROVE  \/ g \in InFlight \cup HeldFrames
                      \/ \E h \in Frames : Listed(h) /\ g \in Span(h)
    BY DEF NoFrameLost
  <2>1. PICK f \in Frames : Block(f) /\ f <= g /\ g < End(f)
    BY <1>3 DEF Exact, Cover, Covered
  <2>2. g \in Span(f)
    <3>1. order[f] \in Orders
      BY <1>3 DEF Inv, TypeOK
    <3>2. f \in Nat /\ g \in Nat /\ Size[order[f]] \in Nat
      BY <3>1, Constants
    <3> QED BY <2>1, <3>2 DEF Span, End
  <2>3. CASE Held(f)
    BY <2>2, <2>3 DEF HeldFrames
  <2>4. CASE \E o \in Orders : At(list, o, f)
    BY <2>2, <2>4 DEF At, Listed
  <2>5. CASE Busy /\ f = cur
    BY <2>2, <2>5 DEF Busy, InFlight
  <2> QED BY <2>1, <2>3, <2>4, <2>5 DEF Block
<1>4. Inv /\ Exact /\ Cover => NoFrameLost
  BY <1>3
<1> QED BY <1>1, <1>2, <1>4, InvHolds, ZeroedTable, ExactHolds, PTL DEF Spec

(***************************************************************************)
(* Coalescing is complete.                                                 *)
(***************************************************************************)

(* No two buddies are both listed, but for single frames that the loop of  *)
(* buddy_init has not come to yet.                                         *)
Twins(f, g, o) == o < MaxOrder /\ f % (2 * Size[o]) = 0 /\ g = f + Size[o]
Coalesced == \A o \in Orders, f, g \in Frames :
    Twins(f, g, o) /\ At(list, o, f) /\ At(list, o, g) => o = 0 /\ boot_i <= f
BootOver == pc \in {"idle", "split", "hung"} => boot_i = PageNum

(* Two multiples of S less than S apart are in order. *)
LEMMA MultiplesApart ==
    ASSUME NEW S \in Nat \ {0}, NEW a \in Nat, NEW b \in Nat,
           a % S = 0, b % S = 0, b < a + S
    PROVE  b <= a
<1>1. PICK q \in Nat : a = q * S
  BY Quotient
<1>2. PICK r \in Nat : b = r * S
  BY Quotient
<1>3. ASSUME r > q PROVE FALSE
  <2>1. r = q + 1 + (r - q - 1) /\ r - q - 1 \in Nat
    BY <1>3
  <2>2. b = a + S + (r - q - 1) * S
    BY <1>1, <1>2, <2>1
  <2>3. (r - q - 1) * S >= 0
    BY <2>1
  <2> QED BY <2>2, <2>3
<1>4. CASE r <= q
  <2>1. q = r + (q - r) /\ q - r \in Nat
    BY <1>4
  <2>2. a = b + (q - r) * S
    BY <1>1, <1>2, <2>1
  <2>3. (q - r) * S >= 0
    BY <2>1
  <2> QED BY <2>2, <2>3
<1> QED BY <1>3, <1>4

LEMMA TwinsAreBuddies ==
    ASSUME NEW o \in Orders, NEW f \in Frames, NEW g \in Frames, Twins(f, g, o)
    PROVE  BuddyOf(f, o) = g /\ BuddyOf(g, o) = f /\ g % (2 * Size[o]) # 0
<1> DEFINE S == Size[o]
<1>1. S \in Nat \ {0} /\ f \in Nat /\ g = f + S /\ f % (2 * S) = 0
  BY Constants DEF Twins
<1> HIDE DEF S
<1>2. g % (2 * S) # 0
  <2>1. g % (2 * S) = 0 => g <= f
    BY <1>1, MultiplesApart
  <2> QED BY <1>1, <2>1
<1> QED BY <1>1, <1>2 DEF BuddyOf, S

(* Fewer listed blocks, fewer twins.                                       *)
LEMMA CoalescedLess ==
    ASSUME Coalesced, boot_i' = boot_i,
           \A o \in Orders, f \in Frames : At(list', o, f) => At(list, o, f)
    PROVE  Coalesced'
BY DEF Coalesced, Twins

LEMMA UnlinkLess ==
    ASSUME Inv, NEW o \in Orders, NEW k \in DOMAIN list[o], list' = Removed(list, o, k)
    PROVE  /\ \A q \in Orders, f \in Frames : At(list', q, f) => At(list, q, f)
           /\ ~At(list', o, list[o][k])
<1>1. list \in [Orders -> Seq(Frames)] /\ NoRepeat(list)
  BY DEF Inv, TypeOK
<1> QED BY <1>1, Unlink

(* A block is linked only where its buddy is not listed.                   *)
LEMMA CoalescedLink ==
    ASSUME Inv, Coalesced, boot_i' = boot_i, NEW o \in Orders, NEW x \in Frames,
           list' = Inserted(list, o, x), ~At(list, o, x),
           \A f \in Frames : o < MaxOrder /\ f = BuddyOf(x, o) => ~At(list, o, f)
    PROVE  Coalesced'
<1>1. \A q \in Orders, f \in Frames :
        At(list', q, f) <=> At(list, q, f) \/ (q = o /\ f = x)
  <2>1. list \in [Orders -> Seq(Frames)] /\ NoRepeat(list)
    BY DEF Inv, TypeOK
  <2> QED BY <2>1, Link
<1> SUFFICES ASSUME NEW q \in Orders, NEW f \in Frames, NEW g \in Frames,
                    Twins(f, g, q), At(list', q, f), At(list', q, g)
             PROVE  q = 0 /\ boot_i' <= f
  BY DEF Coalesced, Twins
<1>2. BuddyOf(f, q) = g /\ BuddyOf(g, q) = f /\ q < MaxOrder /\ f # g
  <2>1. BuddyOf(f, q) = g /\ BuddyOf(g, q) = f /\ q < MaxOrder /\ g = f + Size[q]
    BY TwinsAreBuddies DEF Twins
  <2> QED BY <2>1, Constants
<1>3. At(list, q, f) /\ At(list, q, g)
  BY <1>1, <1>2
<1> QED BY <1>3 DEF Coalesced

LEMMA CoalescedNext ==
    ASSUME Inv, Inv', [Next]_vars, Coalesced, BootOver
    PROVE  Coalesced' /\ BootOver'
<1>0. /\ cur \in Frames /\ order[cur] \in Orders /\ order \in [Frames -> Orders]
      /\ target \in Orders /\ boot_i \in 0 .. PageNum /\ PageNum \in Nat /\ 0 \in Orders
      /\ Reserved \subseteq Frames
  BY Constants, PoolAssumption DEF Inv, TypeOK
<1>1. BootOver'
  BY <1>0
  DEF BootOver, Next, KernelStep, Boot, Call, Hung, vars, MemReserve, BootSkip, BootMerge,
      BootDone, SplitStep, SplitDone, MergeStep, MergeDone, AllocPages, FreePages,
      Share, Unshare
<1>2. CASE list' = list /\ boot_i' = boot_i
  BY <1>1, <1>2, CoalescedLess
<1>3. CASE BootSkip
  <2>1. list' = list /\ boot_i' = boot_i + 1 /\ (order[boot_i] # 0 \/ used[boot_i] # "AVAL")
    BY <1>3 DEF BootSkip, lists
  <2>2. \A f \in Frames : f = boot_i => ~At(list, 0, f)
    BY <1>0, <2>1 DEF Inv, ListedFree
  <2>3. Frames \subseteq Nat
    BY Constants
  <2> QED BY <1>0, <1>1, <2>1, <2>2, <2>3 DEF Coalesced, Twins
<1>4. CASE BootMerge
  <2>1. PICK k \in DOMAIN list[0] : list[0][k] = boot_i /\ list' = Removed(list, 0, k)
    BY <1>4 DEF BootMerge
  <2>2. boot_i' = boot_i + 1
    BY <1>4 DEF BootMerge
  <2>3. /\ \A q \in Orders, f \in Frames : At(list', q, f) => At(list, q, f)
        /\ \A f \in Frames : f = boot_i => ~At(list', 0, f)
    BY <1>0, <2>1, UnlinkLess
  <2>4. Frames \subseteq Nat
    BY Constants
  <2> QED BY <1>0, <1>1, <2>2, <2>3, <2>4 DEF Coalesced, Twins
<1>5. ASSUME NEW o \in Orders, NEW k \in DOMAIN list[o], list' = Removed(list, o, k),
             boot_i' = boot_i
      PROVE  Coalesced'
  BY <1>5, UnlinkLess, CoalescedLess
<1>6. ASSUME NEW r \in Reserved, MemReserve(r) PROVE Coalesced'
  <2>1. order[r] \in Orders /\ boot_i' = boot_i
        /\ \E k \in DOMAIN list[order[r]] : list' = Removed(list, order[r], k)
    BY <1>0, <1>6 DEF MemReserve
  <2> QED BY <1>5, <2>1
<1>7. ASSUME NEW o \in Orders, AllocPages(o) PROVE Coalesced'
  <2>1. /\ \E i \in Orders : \E k \in DOMAIN list[i] : list' = Removed(list, i, k)
        /\ boot_i' = boot_i
    BY <1>7 DEF AllocPages
  <2> QED BY <1>5, <2>1
<1>8. CASE MergeStep
  <2> DEFINE q == order[BuddyOf(cur, order[cur])]
  <2>1. /\ q = order[cur] /\ boot_i' = boot_i
        /\ \E k \in DOMAIN list[q] : list' = Removed(list, q, k)
    BY <1>8 DEF MergeStep, Mergeable
  <2> QED BY <1>0, <1>1, <1>5, <2>1
<1>9. CASE MergeDone
  <2>1. /\ Busy /\ boot_i' = boot_i /\ ~Mergeable(cur, order[cur])
        /\ list' = Inserted(list, order[cur], cur)
    BY <1>9 DEF MergeDone, Busy
  <2>2. ~At(list, order[cur], cur)
    BY <1>0, <2>1 DEF Inv, ListedFree
  <2>3. \A f \in Frames : order[cur] < MaxOrder /\ f = BuddyOf(cur, order[cur])
                          => ~At(list, order[cur], f)
    BY <1>0, <2>1 DEF Mergeable, Inv, ListedFree
  <2> QED BY <1>0, <1>1, <2>1, <2>2, <2>3, CoalescedLink
<1>10. CASE SplitStep
  <2> DEFINE o == order[cur] - 1
             S == Size[o]
  <2>0. order[cur] > target
    BY <1>10 DEF SplitStep
  <2>1. /\ Busy /\ boot_i' = boot_i /\ list' = Inserted(list, o, cur + S)
    BY <1>10 DEF SplitStep, Busy
  <2>2. o \in Orders /\ o + 1 = order[cur] /\ o < MaxOrder
    BY <1>0, <2>0, OrderAssumption DEF Orders
  <2>3. Size[o + 1] = 2 * S /\ S \in Nat \ {0} /\ cur \in Nat
    BY <1>0, <2>2, Constants
  <2>4. Block(cur) /\ End(cur) = cur + 2 * S /\ End(cur) <= PageNum /\ cur % (2 * S) = 0
    <3>1. Block(cur)
      BY <1>0, <2>1 DEF Block
    <3>2. End(cur) <= PageNum /\ cur % Size[order[cur]] = 0
      BY <1>0, <3>1, BlockInside DEF Inv, Aligned
    <3> HIDE DEF o, S
    <3> QED BY <2>2, <2>3, <3>1, <3>2 DEF End
  <2> HIDE DEF o, S
  <2>5. PICK q \in Orders, s \in Frames : q = o /\ s = cur + S
    <3>1. cur + S \in Frames
      BY <1>0, <2>3, <2>4, Constants
    <3> QED BY <2>2, <3>1
  <2>6. ~At(list, q, s)
    <3>1. ~Block(s)
      <4>1. cur < s /\ ~(End(cur) <= s)
        BY <1>0, <2>3, <2>4, <2>5
      <4> QED BY <1>0, <2>4, <4>1 DEF Inv, Disjoint
    <3> QED BY <3>1 DEF Block
  <2>7. BuddyOf(s, q) = cur
    <3>1. Twins(cur, s, q)
      BY <2>2, <2>4, <2>5 DEF Twins, S
    <3> QED BY <1>0, <3>1, TwinsAreBuddies
  <2>8. ~At(list, q, cur)
    BY <1>0, <2>1 DEF Inv, ListedFree
  <2> QED BY <1>1, <2>1, <2>5, <2>6, <2>7, <2>8, CoalescedLink
<1>11. BootDone \/ SplitDone \/ Hung \/ UNCHANGED vars => list' = list /\ boot_i' = boot_i
  BY DEF BootDone, SplitDone, Hung, vars, lists
<1>12. \A p \in Frames : FreePages(p) \/ Share(p) \/ Unshare(p)
                         => list' = list /\ boot_i' = boot_i
  BY DEF FreePages, Share, Unshare, lists
<1> QED BY <1>1, <1>2, <1>3, <1>4, <1>6, <1>7, <1>8, <1>9, <1>10, <1>11, <1>12
        DEF Next, KernelStep, Boot, Call

Less == {ss \in Nat \X Nat : ss[1] < ss[2]}

LEMMA LeastNumber ==
    ASSUME NEW S \in SUBSET Nat, S # {}
    PROVE  \E m \in S : \A n \in S : m <= n
<1>1. IsWellFoundedOn(Less, Nat)
  BY NatLessThanWellFounded DEF OpToRel, Less
<1>2. PICK m \in S : \A n \in S : <<n, m>> \notin Less
  BY <1>1, WFMin
<1>3. \A n \in S : ~(n < m)
  BY <1>2 DEF Less
<1> QED BY <1>3

(* A listed block of order at least k meets every aligned run of Size[k]   *)
(* frames that are neither granted nor reserved.  Else there is a least k  *)
(* without one; both halves of its run meet a block of order k - 1, and    *)
(* these are the halves themselves, two buddies that were never merged.    *)
RunFree(f, k) == \A g \in Frames :
    f <= g /\ g < f + Size[k] => g \notin HeldFrames \cup Reserved
Served(f, k) == \E i \in Orders, h \in Frames :
    i >= k /\ At(list, i, h) /\ h < f + Size[k] /\ f < h + Size[i]
AllServed(k) == \A f \in Frames : f % Size[k] = 0 /\ RunFree(f, k) => Served(f, k)

LEMMA SingleServed ==
    ASSUME Inv, Cover, leaked = {}, ~Busy
    PROVE  AllServed(0)
<1> SUFFICES ASSUME NEW f \in Frames, RunFree(f, 0) PROVE Served(f, 0)
  BY DEF AllServed
<1>1. f \in Nat /\ Size[0] = 1 /\ 0 \in Orders
  BY Constants
<1>2. f \notin HeldFrames \cup Reserved
  BY <1>1 DEF RunFree
<1>3. PICK h \in Frames : Block(h) /\ h <= f /\ f < End(h)
  BY <1>2 DEF Cover, Covered
<1>4. order[h] \in Orders /\ h \in Nat /\ Size[order[h]] \in Nat
  <2>1. order[h] \in Orders
    BY DEF Inv, TypeOK
  <2> QED BY <2>1, Constants
<1>5. ~Held(h)
  <2>1. f \in Span(h)
    BY <1>1, <1>3, <1>4 DEF Span, End
  <2> QED BY <1>2, <2>1 DEF HeldFrames
<1>6. PICK i \in Orders : At(list, i, h)
  BY <1>3, <1>5 DEF Block
<1>7. i = order[h] /\ i >= 0
  BY <1>6, Constants DEF Inv, ListedFree
<1>8. h < f + Size[0] /\ f < h + Size[i]
  BY <1>1, <1>3, <1>4, <1>7 DEF End
<1> QED BY <1>6, <1>7, <1>8 DEF Served

(* A listed block of the size of an aligned run it meets is that run.      *)
LEMMA MeetsIsEqual ==
    ASSUME Inv, NEW k \in Orders, NEW f \in Frames, f % Size[k] = 0,
           NEW h \in Frames, At(list, k, h), h < f + Size[k], f < h + Size[k]
    PROVE  h = f
<1>1. h % Size[k] = 0
  <2>1. order[h] = k
    BY DEF Inv, ListedFree
  <2> QED BY <2>1 DEF Inv, Aligned, Block
<1>2. f \in Nat /\ h \in Nat /\ Size[k] \in Nat \ {0}
  BY Constants
<1>3. h <= f /\ f <= h
  BY <1>1, <1>2, MultiplesApart
<1> QED BY <1>2, <1>3

LEMMA LargerServed ==
    ASSUME Inv, Coalesced, boot_i = PageNum, NEW j \in Orders, j < MaxOrder, AllServed(j)
    PROVE  AllServed(j + 1)
<1> DEFINE S == Size[j]
<1>1. /\ j \in Nat /\ j + 1 \in Orders /\ Size[j + 1] = 2 * S /\ S \in Nat \ {0}
      /\ PageNum % Size[j + 1] = 0 /\ PageNum \in Nat
  BY Constants
<1> SUFFICES ASSUME NEW f \in Frames, f % Size[j + 1] = 0, RunFree(f, j + 1)
             PROVE  Served(f, j + 1)
  BY DEF AllServed
<1>2. f \in Nat /\ f < PageNum /\ \A x \in Frames : x \in Nat
  BY Constants
<1> HIDE DEF S
<1>3. f % S = 0 /\ (f + S) % S = 0
  BY <1>1, <1>2, Halves
<1>4. PICK g \in Frames : g = f + S
  <2>1. f + 2 * S <= PageNum
    <3>1. f % (2 * S) = 0 /\ PageNum % (2 * S) = 0 /\ 2 * S \in Nat \ {0}
      BY <1>1
    <3> QED BY <1>1, <1>2, <3>1, EndsInside
  <2>2. f + S \in Nat /\ f + S < PageNum
    BY <1>1, <1>2, <2>1
  <2> QED BY <2>2, Constants
<1>5. RunFree(f, j) /\ RunFree(g, j)
  BY <1>1, <1>2, <1>4 DEF RunFree, S
<1>6. PICK i1 \in Orders, h1 \in Frames :
        i1 >= j /\ At(list, i1, h1) /\ h1 < f + S /\ f < h1 + Size[i1]
  <2>1. Served(f, j)
    BY <1>3, <1>5 DEF AllServed, S
  <2> QED BY <2>1 DEF Served, S
<1>7. PICK i2 \in Orders, h2 \in Frames :
        i2 >= j /\ At(list, i2, h2) /\ h2 < g + S /\ g < h2 + Size[i2]
  <2>1. Served(g, j)
    BY <1>3, <1>4, <1>5 DEF AllServed, S
  <2> QED BY <2>1 DEF Served, S
<1>8. i1 \in Nat /\ i2 \in Nat /\ Size[i1] \in Nat /\ Size[i2] \in Nat
  BY Constants
<1>9. CASE i1 >= j + 1
  <2>1. h1 < f + Size[j + 1]
    BY <1>1, <1>2, <1>6
  <2> QED BY <1>6, <1>9, <2>1 DEF Served
<1>10. CASE i2 >= j + 1
  <2>1. h2 < f + Size[j + 1] /\ f < h2 + Size[i2]
    BY <1>1, <1>2, <1>4, <1>7, <1>8
  <2> QED BY <1>7, <1>10, <2>1 DEF Served
<1>11. CASE i1 = j /\ i2 = j
  <2>1. h1 = f
    BY <1>3, <1>6, <1>11, MeetsIsEqual DEF S
  <2>2. h2 = g
    BY <1>3, <1>4, <1>7, <1>11, MeetsIsEqual DEF S
  <2>3. Twins(f, g, j)
    BY <1>1, <1>4 DEF Twins, S
  <2>4. boot_i <= f
    BY <1>6, <1>7, <1>11, <2>1, <2>2, <2>3 DEF Coalesced
  <2> QED BY <1>1, <1>2, <2>4
<1> QED BY <1>1, <1>6, <1>7, <1>8, <1>9, <1>10, <1>11

LEMMA EveryRunServed ==
    ASSUME Inv, Cover, Coalesced, leaked = {}, ~Busy, boot_i = PageNum
    PROVE  \A k \in Orders : AllServed(k)
<1> DEFINE Bad == {k \in Orders : ~AllServed(k)}
<1>1. ASSUME Bad # {} PROVE FALSE
  <2>1. Bad \in SUBSET Nat
    BY Constants
  <2>2. PICK m \in Bad : \A n \in Bad : m <= n
    BY <1>1, <2>1, LeastNumber
  <2>3. m \in Orders /\ ~AllServed(m) /\ m \in Nat
    BY <2>1, <2>2
  <2>4. m # 0
    BY <2>3, SingleServed
  <2>5. m - 1 \in Orders /\ m - 1 < MaxOrder
    BY <2>3, <2>4, OrderAssumption DEF Orders
  <2>6. m - 1 \notin Bad
    BY <2>2, <2>3
  <2>7. AllServed(m - 1)
    BY <2>5, <2>6
  <2>8. AllServed((m - 1) + 1)
    BY <2>5, <2>7, LargerServed
  <2>9. (m - 1) + 1 = m
    BY <2>3
  <2> QED BY <2>3, <2>8, <2>9
<1> QED BY <1>1

(* alloc_pages finds a non-empty list when one of a sufficient order is.   *)
LEMMA FitFound ==
    ASSUME Inv, Counted, NEW o \in Orders, NEW i \in Orders, i >= o,
           NEW h \in Frames, At(list, i, h)
    PROVE  \E q \in Orders : FirstFit(o, q)
<1> DEFINE Fits == {q \in Orders : q >= o /\ pg_free[q] > 0}
<1>1. Orders \subseteq Nat /\ pg_free \in [Orders -> Int]
  BY Constants DEF Inv, TypeOK
<1>2. i \in Fits
  <2>1. list[i] \in Seq(Frames) /\ DOMAIN list[i] # {}
    BY DEF Inv, TypeOK, At
  <2>2. Len(list[i]) > 0
    BY <2>1
  <2> QED BY <2>2 DEF Counted
<1>3. PICK m \in Fits : \A n \in Fits : m <= n
  <2>1. Fits \in SUBSET Nat
    BY <1>1
  <2> HIDE DEF Fits
  <2> QED BY <1>2, <2>1, LeastNumber
<1>4. m \in Orders /\ m \in o .. MaxOrder /\ pg_free[m] > 0
  BY <1>1, <1>3, OrderAssumption DEF Orders
<1>5. ASSUME NEW j \in o .. (m - 1) PROVE pg_free[j] <= 0
  <2>1. j \in Orders /\ j >= o /\ j < m
    BY <1>1, <1>4, OrderAssumption DEF Orders
  <2>2. j \notin Fits
    BY <1>1, <1>3, <1>4, <2>1
  <2> QED BY <1>1, <2>1, <2>2
<1> QED BY <1>4, <1>5 DEF FirstFit

(* Coalescing is complete: if an aligned run of 2^o frames is neither      *)
(* granted nor reserved, alloc_pages(o) succeeds, whatever the history of  *)
(* splits and merges: merge_page never leaves two free buddies apart.      *)
THEOREM AllocIsComplete == ASSUME InitRefs = {0} PROVE Spec => []AllocComplete
<1>1. Init => Cover /\ Fresh /\ Counted /\ Coalesced /\ BootOver
  <2>1. ASSUME Init PROVE Coalesced /\ BootOver
    <3>1. \A o \in Orders, f \in Frames : At(list, o, f) => o = 0
      BY <2>1 DEF Init, At
    <3>2. boot_i = 0 /\ pc = "boot" /\ Frames \subseteq Nat
      BY <2>1, Constants DEF Init
    <3> QED BY <3>1, <3>2 DEF Coalesced, BootOver
  <2> QED BY <2>1, CoverInit, CountedInit
<1>2. Inv /\ Inv' /\ [Next]_vars /\ Cover /\ Fresh /\ Counted /\ Coalesced /\ BootOver
        => Cover' /\ Fresh' /\ Counted' /\ Coalesced' /\ BootOver'
  BY CoverNext, FreshNext, CountedNext, CoalescedNext
<1>3. ASSUME Inv, Exact, Cover, Counted, Coalesced, BootOver
      PROVE  AllocComplete
  <2> SUFFICES ASSUME pc = "idle", NEW o \in Orders, NEW f \in Frames, f % Size[o] = 0,
                      (f .. (f + Size[o] - 1)) \cap (HeldFrames \cup Reserved) = {}
               PROVE  \E i \in Orders : FirstFit(o, i)
    BY DEF AllocComplete
  <2>1. RunFree(f, o)
    <3>1. f \in Nat /\ Size[o] \in Nat /\ Frames \subseteq Nat
      BY Constants
    <3>2. \A g \in Frames : f <= g /\ g < f + Size[o] => g \in f .. (f + Size[o] - 1)
      BY <3>1
    <3> QED BY <3>2 DEF RunFree
  <2>2. ~Busy /\ boot_i = PageNum /\ leaked = {}
    BY <1>3 DEF Busy, BootOver, Exact
  <2>3. Served(f, o)
    BY <1>3, <2>1, <2>2, EveryRunServed DEF AllServed
  <2> QED BY <1>3, <2>3, FitFound DEF Served
<1>4. Inv /\ Exact /\ Cover /\ Counted /\ Coalesced /\ BootOver => AllocComplete
  BY <1>3
<1> QED BY <1>1, <1>2, <1>4, InvHolds, ZeroedTable, ExactHolds, PTL DEF Spec
==============================================================================
