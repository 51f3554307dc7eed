---------------------------- MODULE KmallocProofs ----------------------------
(***************************************************************************)
(* Proofs about module Kmalloc, for any pools, page size, number of pages  *)
(* and requests: types, the partition of every pool page, the partition of *)
(* the granted blocks between pools and large objects, and the promise of  *)
(* module Heap: no two objects in use overlap.                             *)
(***************************************************************************)
EXTENDS Kmalloc, FiniteSetTheorems, TLAPS

(***************************************************************************)
(* Arithmetic of pages and objects.                                        *)
(***************************************************************************)

(* Multiplication keeps the order. *)
LEMMA Scaled ==
    ASSUME NEW P \in Nat \ {0}, NEW f \in Nat, NEW g \in Nat, f <= g
    PROVE  f * P \in Nat /\ g * P \in Nat /\ f * P <= g * P
<1>1. PICK d \in Nat : g = f + d
  <2>1. g - f \in Nat /\ g = f + (g - f)
    OBVIOUS
  <2> QED BY <2>1
<1>2. g * P = f * P + d * P
  BY <1>1
<1>3. d * P \in Nat /\ f * P \in Nat /\ g * P \in Nat
  OBVIOUS
<1> QED BY <1>2, <1>3

(* Consecutive multiples are P apart. *)
LEMMA NextMultiple ==
    ASSUME NEW P \in Nat \ {0}, NEW f \in Nat, NEW g \in Nat, f < g
    PROVE  f * P + P <= g * P
<1>1. f + 1 \in Nat /\ f + 1 <= g
  OBVIOUS
<1>2. (f + 1) * P <= g * P
  BY <1>1, Scaled
<1>3. (f + 1) * P = f * P + P
  OBVIOUS
<1> QED BY <1>2, <1>3

(* The frame of the page at f * P is f. *)
LEMMA FrameAt ==
    ASSUME NEW P \in Nat \ {0}, NEW f \in Nat
    PROVE  (f * P) \div P = f /\ (f * P) % P = 0
OBVIOUS

(* The objects of size S divide a page of P units when S divides P. *)
LEMMA Quotient ==
    ASSUME NEW P \in Nat \ {0}, NEW S \in Nat \ {0}, P % S = 0
    PROVE  P \div S \in Nat \ {0} /\ P = (P \div S) * S
<1>1. P = ((P \div S) * S) + (P % S)
  OBVIOUS
<1>2. P \div S \in Nat /\ (P \div S) * S \in Nat
  OBVIOUS
<1>3. P = (P \div S) * S
  BY <1>1, <1>2
<1>4. P \div S # 0
  BY <1>3
<1> QED BY <1>2, <1>3, <1>4

(* Which addresses lie on the page of frame f. *)
Within(f, a) == f * PageSize <= a /\ a < (f + 1) * PageSize

(* An address lies on one page. *)
LEMMA OnePage ==
    ASSUME NEW f \in Nat, NEW g \in Nat, NEW a \in Nat, Within(f, a), Within(g, a)
    PROVE  f = g
<1>1. PageSize \in Nat \ {0}
  BY HeapAssumption
<1>2. f * PageSize \in Nat /\ g * PageSize \in Nat
      /\ (f + 1) * PageSize = f * PageSize + PageSize
      /\ (g + 1) * PageSize = g * PageSize + PageSize
  BY <1>1
<1>3. f * PageSize <= a /\ a < f * PageSize + PageSize
      /\ g * PageSize <= a /\ a < g * PageSize + PageSize
  BY <1>2 DEF Within
<1>4. ~(f < g)
  BY <1>1, <1>2, <1>3, NextMultiple
<1>5. ~(g < f)
  BY <1>1, <1>2, <1>3, NextMultiple
<1> QED BY <1>4, <1>5

(* A page begins with an address of its own. *)
LEMMA PageHead ==
    ASSUME NEW f \in Nat
    PROVE  f * PageSize \in Nat /\ Within(f, f * PageSize)
<1>1. PageSize \in Nat \ {0}
  BY HeapAssumption
<1>2. f * PageSize \in Nat /\ (f + 1) * PageSize = f * PageSize + PageSize
  BY <1>1
<1> QED BY <1>1, <1>2 DEF Within

(***************************************************************************)
(* The least and the greatest: which pool, which order.                    *)
(***************************************************************************)

Smaller == {ss \in Nat \X Nat : ss[1] < ss[2]}

(* A set of naturals that is not empty has a least element. *)
LEMMA LeastOf ==
    ASSUME NEW T \in SUBSET Nat, T # {}
    PROVE  \E x \in T : \A y \in T : x <= y
<1>1. IsWellFoundedOn(Smaller, Nat)
  BY NatLessThanWellFounded DEF OpToRel, Smaller
<1>2. PICK x \in T : \A y \in T : <<y, x>> \notin Smaller
  BY <1>1, WFMin
<1>3. \A y \in T : ~(y < x)
  BY <1>2 DEF Smaller
<1> QED BY <1>3

(* The pools have a largest object. *)
LEMMA GreatestClass == \E c \in Classes : \A d \in Classes : d <= c
<1> DEFINE Above(c) == {d \in Classes : d > c}
           T == {Above(c) : c \in Classes}
<1>1. Classes \subseteq Nat /\ IsFiniteSet(Classes) /\ Classes # {}
  BY HeapAssumption
<1>2. T \subseteq FiniteSubsetsOf(Classes)
  BY <1>1, FS_FiniteSubsetsOfFinite
<1>3. T # {}
  BY <1>1
<1>4. PICK A \in T : \A B \in T : ~(<<B, A>> \in StrictSubsetOrdering(Classes))
  <2>1. IsWellFoundedOn(StrictSubsetOrdering(Classes), FiniteSubsetsOf(Classes))
    BY FS_StrictSubsetOrderingWellFounded
  <2> HIDE DEF T
  <2> QED BY <2>1, <1>2, <1>3, WFMin
<1>5. PICK c \in Classes : A = Above(c)
  OBVIOUS
<1>6. ASSUME NEW d \in Classes, ~(d <= c)
      PROVE  FALSE
  <2>0. c \in Nat /\ d \in Nat /\ c < d
    BY <1>1, <1>6
  <2>1. d \in Above(c) /\ d \notin Above(d)
    BY <2>0
  <2>2. ASSUME NEW e \in Above(d)
        PROVE  e \in Above(c)
    <3>1. e \in Nat /\ e > d /\ e \in Classes
      BY <1>1
    <3> QED BY <3>1, <2>0
  <2>3. <<Above(d), Above(c)>> \in StrictSubsetOrdering(Classes)
    BY <2>1, <2>2 DEF StrictSubsetOrdering
  <2> QED BY <2>3, <1>4, <1>5
<1> QED BY <1>6

(* kmalloc's choice of a pool: one whose objects are large enough. *)
LEMMA ClassFacts ==
    ASSUME NEW n \in Nat, n <= MaxObject
    PROVE  ClassOf(n) \in Classes /\ n <= ObjSize[ClassOf(n)]
<1>1. PICK g \in Classes : \A d \in Classes : d <= g
  BY GreatestClass
<1>2. /\ Classes \subseteq Nat /\ ObjSize \in [Classes -> Nat \ {0}]
      /\ \A c, d \in Classes : c < d => ObjSize[c] < ObjSize[d]
  BY HeapAssumption
<1>3. \A d \in Classes : ObjSize[d] <= ObjSize[g]
  <2>1. TAKE d \in Classes
  <2>2. d \in Nat /\ g \in Nat /\ d <= g /\ ObjSize[d] \in Nat /\ ObjSize[g] \in Nat
    BY <1>1, <1>2
  <2>3. CASE d < g
    BY <2>2, <2>3, <1>2
  <2>4. CASE d = g
    BY <2>2, <2>4
  <2> QED BY <2>2, <2>3, <2>4
<1>4. MaxObject \in {ObjSize[c] : c \in Classes}
  BY <1>3 DEF MaxObject
<1>5. PICK m \in Classes : MaxObject = ObjSize[m]
  BY <1>4
<1> DEFINE T == {c \in Classes : n <= ObjSize[c]}
<1>6. T \subseteq Nat /\ T # {}
  BY <1>2, <1>5
<1>7. PICK x \in T : \A y \in T : x <= y
  BY <1>6, LeastOf
<1>8. \E c \in Classes : /\ n <= ObjSize[c]
                         /\ \A d \in Classes : n <= ObjSize[d] => c <= d
  BY <1>7
<1> QED BY <1>8 DEF ClassOf

(* alloc_pages is asked for an order there is, and one large enough for    *)
(* every size that fits the pool.                                          *)
LEMMA OrderFacts ==
    ASSUME NEW n \in Nat
    PROVE  /\ OrderOf(n) \in Orders
           /\ n <= Size[MaxOrder] * PageSize => n <= Size[OrderOf(n)] * PageSize
<1>1. MaxOrder \in Nat /\ Orders \subseteq Nat /\ 0 \in Orders /\ MaxOrder \in Orders
  BY HeapAssumption DEF Orders
<1> DEFINE T == {o \in Orders : n <= Size[o] * PageSize}
<1>2. CASE T # {}
  <2>1. PICK x \in T : \A y \in T : x <= y
    BY <1>1, <1>2, LeastOf
  <2>2. \E o \in Orders : /\ n <= Size[o] * PageSize
                          /\ \A q \in Orders : n <= Size[q] * PageSize => o <= q
    BY <2>1
  <2>3. \E o \in Orders : n <= Size[o] * PageSize
    BY <2>2
  <2> QED BY <2>2, <2>3 DEF OrderOf
<1>3. CASE T = {}
  <2>1. ~ \E o \in Orders : n <= Size[o] * PageSize
    BY <1>3
  <2>2. OrderOf(n) = 0
    BY <2>1 DEF OrderOf
  <2> QED BY <2>1, <2>2, <1>1
<1> QED BY <1>2, <1>3

(***************************************************************************)
(* One pool page: which of its objects are free, which in use.             *)
(***************************************************************************)
Once(l) == \A j, k \in DOMAIN l : l[j] = l[k] => j = k
Has(l, a) == \E k \in DOMAIN l : l[k] = a
InUse(L, a) == \E b \in L : b.addr = a
Objs(f, c) == {f * PageSize + j * ObjSize[c] : j \in 0 .. (PageSize \div ObjSize[c] - 1)}
Records == [addr : Nat, size : Sizes]

(* The page of frame f, carved for the pool c, with the free list l of n   *)
(* objects, while L are the objects in use.                                *)
Split(f, c, n, l, L) ==
    /\ n = Len(l) /\ Once(l)
    /\ \A k \in DOMAIN l : l[k] \in Objs(f, c)
    /\ \A a \in Objs(f, c) : Has(l, a) <=> ~InUse(L, a)
    /\ \A b \in L : Within(f, b.addr) => b.addr \in Objs(f, c) /\ b.size <= ObjSize[c]

(* The sizes of a pool. *)
LEMMA PoolSizes ==
    ASSUME NEW c \in Classes
    PROVE  /\ PageSize \in Nat \ {0} /\ ObjSize[c] \in Nat \ {0}
           /\ PageSize \div ObjSize[c] \in Nat \ {0}
           /\ PageSize = (PageSize \div ObjSize[c]) * ObjSize[c]
<1>1. PageSize \in Nat \ {0} /\ ObjSize[c] \in Nat \ {0} /\ PageSize % ObjSize[c] = 0
  BY HeapAssumption
<1> QED BY <1>1, Quotient

(* An object lies on its page. *)
LEMMA ObjectFacts ==
    ASSUME NEW f \in Nat, NEW c \in Classes, NEW a \in Objs(f, c)
    PROVE  a \in Nat /\ Within(f, a) /\ a + ObjSize[c] <= (f + 1) * PageSize
<1> DEFINE P == PageSize
           S == ObjSize[c]
           m == PageSize \div ObjSize[c]
<1>1. P \in Nat \ {0} /\ S \in Nat \ {0} /\ m \in Nat \ {0} /\ P = m * S
  BY PoolSizes
<1>2. PICK j \in 0 .. (m - 1) : a = f * P + j * S
  BY DEF Objs
<1> HIDE DEF P, S, m
<1>3. j \in Nat /\ j < m /\ m \in Nat
  BY <1>1
<1>4. j * S + S <= P
  BY <1>1, <1>3, NextMultiple
<1>5. j * S \in Nat /\ f * P \in Nat /\ (f + 1) * P = f * P + P
  BY <1>1, <1>3
<1>6. a \in Nat /\ f * P <= a /\ a + S <= (f + 1) * P /\ a < (f + 1) * P
  BY <1>1, <1>2, <1>4, <1>5
<1> QED BY <1>6 DEF Within, P, S

(* Two objects of a page do not overlap. *)
LEMMA ObjectsApart ==
    ASSUME NEW f \in Nat, NEW c \in Classes, NEW a \in Objs(f, c), NEW b \in Objs(f, c), a < b
    PROVE  a + ObjSize[c] <= b
<1> DEFINE P == PageSize
           S == ObjSize[c]
           m == PageSize \div ObjSize[c]
<1>1. P \in Nat \ {0} /\ S \in Nat \ {0} /\ m \in Nat \ {0}
  BY PoolSizes
<1>2. PICK i \in 0 .. (m - 1) : a = f * P + i * S
  BY DEF Objs
<1>3. PICK j \in 0 .. (m - 1) : b = f * P + j * S
  BY DEF Objs
<1> HIDE DEF P, S, m
<1>4. i \in Nat /\ j \in Nat
  BY <1>1
<1>5. f * P \in Nat /\ i * S \in Nat /\ j * S \in Nat
  BY <1>1, <1>4
<1>6. i * S < j * S
  BY <1>2, <1>3, <1>5
<1>7. ~(j <= i)
  BY <1>1, <1>4, <1>5, <1>6, Scaled
<1>8. i * S + S <= j * S
  BY <1>1, <1>4, <1>7, NextMultiple
<1>9. a + S <= b
  BY <1>1, <1>2, <1>3, <1>5, <1>8
<1> QED BY <1>9 DEF S

(* set_dpage: a fresh page's list holds each object once. *)
LEMMA CarvedFacts ==
    ASSUME NEW f \in Nat, NEW c \in Classes
    PROVE  LET l == Carved(f, c) IN
           /\ l \in Seq(Nat) /\ l # <<>> /\ Once(l)
           /\ \A k \in DOMAIN l : l[k] \in Objs(f, c)
           /\ \A a \in Objs(f, c) : Has(l, a)
<1> DEFINE P == PageSize
           S == ObjSize[c]
           m == PageSize \div ObjSize[c]
           l == Carved(f, c)
<1>1. P \in Nat \ {0} /\ S \in Nat \ {0} /\ m \in Nat \ {0}
  BY PoolSizes
<1>2. l = [k \in 1 .. m |-> f * P + (k - 1) * S]
  BY DEF Carved
<1>3. Objs(f, c) = {f * P + j * S : j \in 0 .. (m - 1)}
  BY DEF Objs
<1> HIDE DEF P, S, m, l
<1>4. \A k \in 1 .. m : k - 1 \in 0 .. (m - 1) /\ k - 1 \in Nat
                        /\ (k - 1) * S \in Nat /\ f * P \in Nat /\ f * P + (k - 1) * S \in Nat
  BY <1>1
<1>5. l \in Seq(Nat) /\ Len(l) = m /\ DOMAIN l = 1 .. m
  BY <1>1, <1>2, <1>4
<1>6. l # <<>>
  BY <1>1, <1>5
<1>7. ASSUME NEW j \in 1 .. m, NEW k \in 1 .. m, j < k
      PROVE  l[j] # l[k]
  <2>1. j - 1 \in Nat /\ k - 1 \in Nat /\ j - 1 < k - 1
    BY <1>1, <1>7
  <2>2. (j - 1) * S + S <= (k - 1) * S
    BY <1>1, <2>1, NextMultiple
  <2>3. l[j] = f * P + (j - 1) * S /\ l[k] = f * P + (k - 1) * S
    BY <1>2
  <2>4. (j - 1) * S \in Nat /\ (k - 1) * S \in Nat /\ f * P \in Nat
    BY <1>4
  <2> QED BY <1>1, <2>2, <2>3, <2>4
<1>8. Once(l)
  <2>1. SUFFICES ASSUME NEW j \in 1 .. m, NEW k \in 1 .. m, l[j] = l[k]
                 PROVE  j = k
    BY <1>5 DEF Once
  <2>2. ~(j < k) /\ ~(k < j)
    BY <1>7, <2>1
  <2>3. j \in Nat /\ k \in Nat
    BY <1>1
  <2> QED BY <2>2, <2>3
<1>9. \A k \in DOMAIN l : l[k] \in Objs(f, c)
  BY <1>2, <1>3, <1>4, <1>5
<1>10. ASSUME NEW a \in Objs(f, c)
       PROVE  Has(l, a)
  <2>1. PICK j \in 0 .. (m - 1) : a = f * P + j * S
    BY <1>3
  <2>2. j + 1 \in 1 .. m /\ (j + 1) - 1 = j
    BY <1>1
  <2>3. l[j + 1] = a
    BY <1>2, <2>1, <2>2
  <2> QED BY <1>5, <2>2, <2>3 DEF Has
<1> QED BY <1>5, <1>6, <1>8, <1>9, <1>10 DEF l

(* A page no object in use touches is split by a fresh list. *)
LEMMA SplitFresh ==
    ASSUME NEW f \in Nat, NEW c \in Classes, NEW L,
           \A b \in L : ~Within(f, b.addr)
    PROVE  Split(f, c, Len(Carved(f, c)), Carved(f, c), L)
<1>1. \A a \in Objs(f, c) : Within(f, a)
  BY ObjectFacts
<1>2. \A a \in Objs(f, c) : ~InUse(L, a)
  BY <1>1 DEF InUse
<1> QED BY <1>2, CarvedFacts DEF Split

(* What happens off the page does not concern it. *)
LEMMA SplitElsewhere ==
    ASSUME NEW f \in Nat, NEW c \in Classes, NEW n, NEW l, NEW L, NEW M,
           Split(f, c, n, l, L),
           \A b \in L \ M : ~Within(f, b.addr),
           \A b \in M \ L : ~Within(f, b.addr)
    PROVE  Split(f, c, n, l, M)
<1>1. \A a \in Objs(f, c) : Within(f, a)
  BY ObjectFacts
<1>2. \A a \in Objs(f, c) : InUse(M, a) <=> InUse(L, a)
  BY <1>1 DEF InUse
<1> QED BY <1>2 DEF Split

(* remove_dpage: the head of the list goes into use. *)
LEMMA SplitTaken ==
    ASSUME NEW f \in Nat, NEW c \in Classes, NEW n, NEW l \in Seq(Nat), l # <<>>,
           NEW L, NEW z \in Nat, z <= ObjSize[c], Split(f, c, n, l, L)
    PROVE  LET b == [addr |-> Head(l), size |-> z] IN
           /\ ~InUse(L, Head(l)) /\ Head(l) \in Objs(f, c)
           /\ Tail(l) \in Seq(Nat)
           /\ Split(f, c, Len(l) - 1, Tail(l), L \cup {b})
<1> DEFINE h == Head(l)
           t == Tail(l)
           b == [addr |-> h, size |-> z]
           M == L \cup {b}
<1>1. /\ Len(l) \in Nat \ {0} /\ DOMAIN l = 1 .. Len(l) /\ h = l[1] /\ 1 \in DOMAIN l
      /\ t \in Seq(Nat) /\ Len(t) = Len(l) - 1 /\ DOMAIN t = 1 .. (Len(l) - 1)
  OBVIOUS
<1>2. \A k \in DOMAIN t : k + 1 \in DOMAIN l /\ t[k] = l[k + 1]
  BY <1>1
<1>3. \A k \in DOMAIN l : k # 1 => k - 1 \in DOMAIN t /\ t[k - 1] = l[k]
  BY <1>1
<1>4. h \in Objs(f, c)
  BY <1>1 DEF Split
<1>5. ~InUse(L, h)
  BY <1>1, <1>4 DEF Split, Has
<1>6. b.addr = h /\ b.size = z
  OBVIOUS
<1> HIDE DEF h, t, b
<1>7. Once(t)
  <2>1. SUFFICES ASSUME NEW j \in DOMAIN t, NEW k \in DOMAIN t, t[j] = t[k]
                 PROVE  j = k
    BY DEF Once
  <2>2. j + 1 = k + 1
    BY <1>2, <2>1 DEF Split, Once
  <2>3. j \in Int /\ k \in Int
    BY <1>1
  <2> QED BY <2>2, <2>3
<1>8. \A k \in DOMAIN t : t[k] \in Objs(f, c)
  BY <1>2 DEF Split
<1>9. ASSUME NEW a \in Objs(f, c)
      PROVE  Has(t, a) <=> ~InUse(M, a)
  <2>1. CASE a = h
    <3>1. InUse(M, a)
      BY <2>1, <1>6 DEF InUse
    <3>2. ASSUME NEW k \in DOMAIN t, t[k] = a
          PROVE  FALSE
      <4>1. l[k + 1] = l[1] /\ k + 1 \in DOMAIN l
        BY <1>1, <1>2, <2>1, <3>2
      <4>2. k + 1 = 1
        BY <4>1, <1>1 DEF Split, Once
      <4>3. k \in 1 .. (Len(l) - 1)
        BY <1>1
      <4> QED BY <4>2, <4>3
    <3> QED BY <3>1, <3>2 DEF Has
  <2>2. CASE a # h
    <3>1. InUse(M, a) <=> InUse(L, a)
      BY <2>2, <1>6 DEF InUse
    <3>2. Has(t, a) => Has(l, a)
      BY <1>2 DEF Has
    <3>3. ASSUME Has(l, a)
          PROVE  Has(t, a)
      <4>1. PICK k \in DOMAIN l : l[k] = a
        BY <3>3 DEF Has
      <4>2. k # 1
        BY <4>1, <1>1, <2>2
      <4> QED BY <4>1, <4>2, <1>3 DEF Has
    <3> QED BY <3>1, <3>2, <3>3 DEF Split
  <2> QED BY <2>1, <2>2
<1>10. \A d \in M : Within(f, d.addr) => d.addr \in Objs(f, c) /\ d.size <= ObjSize[c]
  BY <1>4, <1>6 DEF Split
<1>11. Split(f, c, Len(l) - 1, t, M)
  BY <1>1, <1>7, <1>8, <1>9, <1>10 DEF Split
<1> QED BY <1>1, <1>4, <1>5, <1>11 DEF h, t, b

(* kfree: an object in use goes to the head of the list. *)
LEMMA SplitPut ==
    ASSUME NEW f \in Nat, NEW c \in Classes, NEW n, NEW l \in Seq(Nat),
           NEW L, NEW b \in L, b.addr \in Nat, Within(f, b.addr), Split(f, c, n, l, L),
           \A d \in L : d.addr = b.addr => d = b
    PROVE  /\ n + 1 \in Nat /\ <<b.addr>> \o l \in Seq(Nat)
           /\ Split(f, c, n + 1, <<b.addr>> \o l, L \ {b})
<1> DEFINE a0 == b.addr
           q == <<b.addr>> \o l
           M == L \ {b}
<1>1. /\ Len(l) \in Nat /\ DOMAIN l = 1 .. Len(l) /\ q \in Seq(Nat)
      /\ Len(q) = Len(l) + 1 /\ DOMAIN q = 1 .. (Len(l) + 1) /\ q[1] = a0
  OBVIOUS
<1>2. \A k \in DOMAIN l : k + 1 \in DOMAIN q /\ q[k + 1] = l[k]
  BY <1>1
<1>3. \A k \in DOMAIN q : k # 1 => k - 1 \in DOMAIN l /\ q[k] = l[k - 1]
  BY <1>1
<1>4. 1 \in DOMAIN q
  BY <1>1
<1>5. a0 \in Objs(f, c)
  BY DEF Split
<1>6. \A k \in DOMAIN l : l[k] # a0
  BY <1>5 DEF Split, Has, InUse
<1> HIDE DEF q, a0
<1>7. Once(q)
  <2>1. SUFFICES ASSUME NEW j \in DOMAIN q, NEW k \in DOMAIN q, q[j] = q[k]
                 PROVE  j = k
    BY DEF Once
  <2>2. CASE j = 1 \/ k = 1
    BY <2>1, <2>2, <1>1, <1>3, <1>6
  <2>3. CASE j # 1 /\ k # 1
    <3>1. j - 1 = k - 1
      BY <2>1, <2>3, <1>3 DEF Split, Once
    <3>2. j \in Int /\ k \in Int
      BY <1>1
    <3> QED BY <3>1, <3>2
  <2> QED BY <2>2, <2>3
<1>8. \A k \in DOMAIN q : q[k] \in Objs(f, c)
  BY <1>1, <1>3, <1>5 DEF Split
<1>9. ASSUME NEW a \in Objs(f, c)
      PROVE  Has(q, a) <=> ~InUse(M, a)
  <2>1. CASE a = a0
    <3>1. Has(q, a)
      BY <1>1, <1>4, <2>1 DEF Has
    <3>2. ~InUse(M, a)
      BY <2>1 DEF InUse, a0
    <3> QED BY <3>1, <3>2
  <2>2. CASE a # a0
    <3>1. InUse(M, a) <=> InUse(L, a)
      BY <2>2 DEF InUse, a0
    <3>2. Has(l, a) => Has(q, a)
      BY <1>2 DEF Has
    <3>3. Has(q, a) => Has(l, a)
      BY <1>1, <1>3, <2>2 DEF Has
    <3> QED BY <3>1, <3>2, <3>3 DEF Split
  <2> QED BY <2>1, <2>2
<1>10. \A d \in M : Within(f, d.addr) => d.addr \in Objs(f, c) /\ d.size <= ObjSize[c]
  BY DEF Split
<1>11. n = Len(l)
  BY DEF Split
<1>12. Split(f, c, n + 1, q, M)
  BY <1>1, <1>7, <1>8, <1>9, <1>10, <1>11 DEF Split
<1> QED BY <1>1, <1>11, <1>12 DEF q

(***************************************************************************)
(* The inductive invariant.  PoolsExact and PagesKept count sets; what     *)
(* carries them from state to state is where every object and every block  *)
(* lies, and that no address is in use twice.                              *)
(***************************************************************************)
Typed ==
    /\ used \in [Slots -> BOOLEAN]
    /\ page \in [Slots -> Frames \cup {NULL}]
    /\ free_obj \in [Slots -> Nat]
    /\ freelist \in [Slots -> Seq(Nat)]
    /\ owners \in [Frames -> Nat] /\ ord \in [Frames -> Orders]
    /\ live \subseteq Records /\ IsFiniteSet(live)

Blocks ==
    /\ \A f \in Frames : owners[f] > 0 => f + Size[ord[f]] <= Size[MaxOrder]
    /\ \A f, g \in Frames : owners[f] > 0 /\ owners[g] > 0 /\ f < g => f + Size[ord[f]] <= g

PoolPages ==
    \A s \in Slots : used[s] =>
      /\ page[s] \in Frames /\ owners[page[s]] = 1 /\ ord[page[s]] = 0
      /\ Split(page[s], s[1], free_obj[s], freelist[s], live)

Apart ==
    /\ \A s, t \in Slots : used[s] /\ used[t] /\ page[s] = page[t] => s = t
    /\ \A b, d \in live : b.addr = d.addr => b = d

IsLarge(b) == \A s \in Slots : ~InSlot(s, b.addr)
LargeBlocks ==
    /\ \A b \in live : IsLarge(b) =>
         \E k \in Frames : b.addr = k * PageSize /\ owners[k] = 1 /\ ord[k] = OrderOf(b.size)
    /\ \A f \in Frames : owners[f] > 0 =>
         \/ \E s \in Slots : used[s] /\ page[s] = f
         \/ \E b \in live : IsLarge(b) /\ b.addr = f * PageSize

Inv == Typed /\ Blocks /\ PoolPages /\ Apart /\ LargeBlocks

(* What the names range over. *)
LEMMA Ranges ==
    /\ MaxOrder \in Nat /\ Orders \subseteq Nat /\ 0 \in Orders /\ MaxOrder \in Orders
    /\ \A o \in Orders : Size[o] \in Nat \ {0}
    /\ Size[0] = 1 /\ Frames \subseteq Nat
    /\ \A f \in Nat : f \in Frames <=> f < Size[MaxOrder]
    /\ \A s \in Slots : s[1] \in Classes
    /\ \A c \in Classes, i \in 1 .. MaxDynPages : <<c, i>> \in Slots /\ <<c, i>>[1] = c
    /\ \A n \in Sizes : n \in Nat
<1>1. MaxOrder \in Nat /\ Orders \subseteq Nat /\ 0 \in Orders /\ MaxOrder \in Orders
  BY HeapAssumption DEF Orders
<1>2. (\A o \in Orders : Size[o] \in Nat \ {0}) /\ Size[0] = 1
  BY HeapAssumption
<1>3. Size[MaxOrder] \in Nat \ {0}
  BY <1>1, <1>2
<1>4. Frames \subseteq Nat /\ \A f \in Nat : f \in Frames <=> f < Size[MaxOrder]
  BY <1>3 DEF Frames
<1>5. (\A s \in Slots : s[1] \in Classes)
      /\ \A c \in Classes, i \in 1 .. MaxDynPages : <<c, i>> \in Slots /\ <<c, i>>[1] = c
  BY DEF Slots
<1>6. \A n \in Sizes : n \in Nat
  BY HeapAssumption
<1> QED BY <1>1, <1>2, <1>4, <1>5, <1>6

(* InSlot speaks of the page of the slot. *)
LEMMA SlotPage ==
    ASSUME NEW s, NEW a
    PROVE  InSlot(s, a) <=> used[s] /\ Within(page[s], a)
<1>1. (a >= page[s] * PageSize) <=> (page[s] * PageSize <= a)
  OBVIOUS
<1> QED BY <1>1 DEF InSlot, Within

(* The same in the next state. *)
LEMMA SlotPageNext ==
    ASSUME NEW s, NEW a
    PROVE  InSlot(s, a)' <=> used'[s] /\ Within(page'[s], a)
<1>1. (a >= page'[s] * PageSize) <=> (page'[s] * PageSize <= a)
  OBVIOUS
<1> QED BY <1>1 DEF InSlot, Within

(* alloc_pages: a granted block is new and apart from the others. *)
LEMMA Granting ==
    ASSUME Typed, Blocks, NEW f \in Frames, NEW o \in Orders, Pages!Alloc(f, o)
    PROVE  /\ owners[f] = 0 /\ Blocks'
           /\ owners' \in [Frames -> Nat] /\ ord' \in [Frames -> Orders]
           /\ owners'[f] = 1 /\ ord'[f] = o
           /\ \A g \in Frames : g # f => owners'[g] = owners[g] /\ ord'[g] = ord[g]
<1> USE DEF Typed
<1>1. /\ owners' = [owners EXCEPT ![f] = 1] /\ ord' = [ord EXCEPT ![f] = o]
      /\ Pages!Span(f, o) \subseteq Frames
      /\ \A g \in Frames : owners[g] > 0 => Pages!Span(f, o) \cap Pages!Span(g, ord[g]) = {}
  BY DEF Pages!Alloc, Pages!Room, Pages!Granted
<1>2. /\ f \in Nat /\ Size[o] \in Nat \ {0} /\ Size[MaxOrder] \in Nat
      /\ \A g \in Frames : g \in Nat /\ ord[g] \in Orders /\ Size[ord[g]] \in Nat \ {0}
                           /\ owners[g] \in Nat
  BY Ranges
<1>3. \A h \in Nat, p \in Orders, x \in Nat :
        x \in Pages!Span(h, p) <=> h <= x /\ x <= h + Size[p] - 1
  BY Ranges DEF Pages!Span
<1>4. f + Size[o] <= Size[MaxOrder]
  <2>1. f + Size[o] - 1 \in Pages!Span(f, o) /\ f + Size[o] - 1 \in Nat
    BY <1>2, <1>3
  <2>2. f + Size[o] - 1 \in Frames
    BY <2>1, <1>1
  <2>3. f + Size[o] - 1 < Size[MaxOrder]
    BY <2>1, <2>2, Ranges
  <2> QED BY <2>3, <1>2
<1>5. ASSUME NEW g \in Frames, owners[g] > 0
      PROVE  f + Size[o] <= g \/ g + Size[ord[g]] <= f
  <2>1. Pages!Span(f, o) \cap Pages!Span(g, ord[g]) = {}
    BY <1>1, <1>5
  <2>2. ~(g \in Pages!Span(f, o) /\ g \in Pages!Span(g, ord[g]))
    BY <2>1
  <2>3. ~(f \in Pages!Span(f, o) /\ f \in Pages!Span(g, ord[g]))
    BY <2>1
  <2>a. f \in Nat /\ g \in Nat /\ ord[g] \in Orders
    BY <1>2
  <2>b. /\ g \in Pages!Span(f, o) <=> f <= g /\ g <= f + Size[o] - 1
        /\ f \in Pages!Span(f, o) <=> f <= f /\ f <= f + Size[o] - 1
    BY <2>a, <1>3
  <2>c. /\ g \in Pages!Span(g, ord[g]) <=> g <= g /\ g <= g + Size[ord[g]] - 1
        /\ f \in Pages!Span(g, ord[g]) <=> g <= f /\ f <= g + Size[ord[g]] - 1
    BY <2>a, <1>3
  <2>d. Size[o] \in Nat \ {0} /\ Size[ord[g]] \in Nat \ {0}
    BY <1>2
  <2>4. ~(f <= g /\ g <= f + Size[o] - 1)
    BY <2>2, <2>a, <2>b, <2>c, <2>d
  <2>5. ~(g <= f /\ f <= g + Size[ord[g]] - 1)
    BY <2>3, <2>a, <2>b, <2>c, <2>d
  <2> QED BY <2>4, <2>5, <1>2
<1>6. owners[f] = 0
  <2>1. ~(f + Size[o] <= f) /\ ~(f + Size[ord[f]] <= f)
    BY <1>2
  <2>2. ~(owners[f] > 0)
    BY <1>5, <2>1
  <2> QED BY <2>2, <1>2
<1>7. /\ owners' \in [Frames -> Nat] /\ ord' \in [Frames -> Orders]
      /\ owners'[f] = 1 /\ ord'[f] = o
      /\ \A g \in Frames : g # f => owners'[g] = owners[g] /\ ord'[g] = ord[g]
  BY <1>1
<1>8. ASSUME NEW g \in Frames, owners'[g] > 0
      PROVE  g + Size[ord'[g]] <= Size[MaxOrder]
  BY <1>4, <1>7, <1>8 DEF Blocks
<1>9. ASSUME NEW g \in Frames, NEW h \in Frames, owners'[g] > 0, owners'[h] > 0, g < h
      PROVE  g + Size[ord'[g]] <= h
  <2>1. CASE g # f /\ h # f
    BY <2>1, <1>7, <1>9 DEF Blocks
  <2>2. CASE g = f
    <3>1. h # f /\ owners[h] > 0
      BY <2>2, <1>2, <1>7, <1>9
    <3>2. ~(h + Size[ord[h]] <= f)
      BY <2>2, <1>2, <1>9
    <3> QED BY <3>1, <3>2, <1>5, <1>7, <2>2
  <2>3. CASE h = f
    <3>1. g # f /\ owners[g] > 0
      BY <2>3, <1>2, <1>7, <1>9
    <3>2. ~(f + Size[o] <= g)
      BY <2>3, <1>2, <1>9
    <3> QED BY <3>1, <3>2, <1>5, <1>7, <2>3
  <2> QED BY <2>1, <2>2, <2>3
<1>10. Blocks'
  BY <1>8, <1>9 DEF Blocks
<1> QED BY <1>6, <1>7, <1>10

(* No object in use touches a frame nobody was granted. *)
LEMMA NoneThere ==
    ASSUME Inv, NEW f \in Frames, owners[f] = 0
    PROVE  /\ \A b \in live : ~Within(f, b.addr)
           /\ \A s \in Slots : used[s] => page[s] # f
<1>1. \A s \in Slots : used[s] => page[s] # f /\ page[s] \in Nat
  BY Ranges DEF Inv, PoolPages
<1>2. ASSUME NEW b \in live, Within(f, b.addr)
      PROVE  FALSE
  <2>1. b.addr \in Nat /\ f \in Nat
    BY Ranges DEF Inv, Typed, Records
  <2>2. CASE IsLarge(b)
    <3>1. PICK k \in Frames : b.addr = k * PageSize /\ owners[k] = 1
      BY <2>2 DEF Inv, LargeBlocks
    <3>2. k \in Nat /\ Within(k, b.addr)
      BY <3>1, Ranges, PageHead
    <3>3. k = f
      BY <2>1, <3>2, <1>2, OnePage
    <3> QED BY <3>1, <3>3
  <2>3. CASE ~IsLarge(b)
    <3>1. PICK s \in Slots : InSlot(s, b.addr)
      BY <2>3 DEF IsLarge
    <3>2. used[s] /\ Within(page[s], b.addr)
      BY <3>1, SlotPage
    <3> QED BY <3>2, <1>1, <1>2, <2>1, OnePage
  <2> QED BY <2>2, <2>3
<1> QED BY <1>1, <1>2

(***************************************************************************)
(* The steps.                                                              *)
(***************************************************************************)

LEMMA InitInv == Init => Inv
<1> SUFFICES ASSUME Init PROVE Inv
  OBVIOUS
<1>1. /\ used = [s \in Slots |-> FALSE] /\ page = [s \in Slots |-> NULL]
      /\ free_obj = [s \in Slots |-> 0] /\ freelist = [s \in Slots |-> <<>>]
      /\ owners = [f \in Frames |-> 0] /\ ord = [f \in Frames |-> 0] /\ live = {}
  BY DEF Init, Pages!Init
<1>2. Typed
  <2>1. IsFiniteSet({})
    BY FS_EmptySet
  <2>2. <<>> \in Seq(Nat)
    OBVIOUS
  <2> QED BY <1>1, <2>1, <2>2, Ranges DEF Typed
<1>3. \A s \in Slots : ~used[s]
  BY <1>1
<1>4. \A f \in Frames : ~(owners[f] > 0)
  BY <1>1
<1> QED BY <1>1, <1>2, <1>3, <1>4 DEF Inv, Blocks, PoolPages, Apart, LargeBlocks

(* An allocation leaves the other pages of the pools as they are. *)
LEMMA OtherPools ==
    ASSUME Inv, NEW s \in Slots, used[s], used'[s], page'[s] = page[s],
           free_obj'[s] = free_obj[s], freelist'[s] = freelist[s],
           owners'[page[s]] = owners[page[s]], ord'[page[s]] = ord[page[s]],
           \A b \in live \ live' : ~Within(page[s], b.addr),
           \A b \in live' \ live : ~Within(page[s], b.addr)
    PROVE  /\ page'[s] \in Frames /\ owners'[page'[s]] = 1 /\ ord'[page'[s]] = 0
           /\ Split(page'[s], s[1], free_obj'[s], freelist'[s], live')
<1> DEFINE f == page[s]
           c == s[1]
           n == free_obj[s]
           l == freelist[s]
           M == live'
<1>1. /\ f \in Frames /\ owners[f] = 1 /\ ord[f] = 0 /\ Split(f, c, n, l, live)
      /\ f \in Nat /\ c \in Classes
  BY Ranges DEF Inv, PoolPages
<1>2. Split(f, c, n, l, M)
  <2>1. (\A b \in live \ M : ~Within(f, b.addr)) /\ (\A b \in M \ live : ~Within(f, b.addr))
    OBVIOUS
  <2> HIDE DEF f, c, n, l, M
  <2> QED BY <1>1, <2>1, SplitElsewhere
<1> QED BY <1>1, <1>2

LEMMA KmallocPagesStep ==
    ASSUME Inv, NEW n \in Sizes, KmallocPages(n)
    PROVE  Inv'
<1>1. PICK f \in Frames : /\ Pages!Alloc(f, OrderOf(n))
                          /\ live' = live \cup {[addr |-> f * PageSize, size |-> n]}
  BY DEF KmallocPages
<1>2. used' = used /\ page' = page /\ free_obj' = free_obj /\ freelist' = freelist
  BY DEF KmallocPages, dpage
<1> DEFINE a == f * PageSize
           B == [addr |-> a, size |-> n]
<1>3. B.addr = a /\ B.size = n /\ live' = live \cup {B}
  BY <1>1
<1>4. f \in Nat /\ n \in Nat /\ OrderOf(n) \in Orders /\ a \in Nat /\ Within(f, a)
  BY Ranges, OrderFacts, PageHead
<1>5. /\ owners[f] = 0 /\ Blocks'
      /\ owners' \in [Frames -> Nat] /\ ord' \in [Frames -> Orders]
      /\ owners'[f] = 1 /\ ord'[f] = OrderOf(n)
      /\ \A g \in Frames : g # f => owners'[g] = owners[g] /\ ord'[g] = ord[g]
  BY <1>1, <1>4, Granting DEF Inv
<1>6. /\ \A b \in live : ~Within(f, b.addr)
      /\ \A s \in Slots : used[s] => page[s] # f /\ page[s] \in Frames /\ page[s] \in Nat
  BY <1>5, NoneThere, Ranges DEF Inv, PoolPages
<1>7. \A b \in live : b.addr # a
  BY <1>4, <1>6
<1>8. \A s \in Slots : used[s] => ~Within(page[s], a)
  BY <1>4, <1>6, OnePage
<1>9. B \in Records
  BY <1>4 DEF Records
<1> HIDE DEF B, a
<1>10. Typed'
  <2>1. live' \subseteq Records
    BY <1>3, <1>9 DEF Inv, Typed
  <2>2. IsFiniteSet(live')
    BY <1>3, FS_AddElement DEF Inv, Typed
  <2> QED BY <1>2, <1>5, <2>1, <2>2 DEF Inv, Typed
<1>11. PoolPages'
  <2>1. SUFFICES ASSUME NEW s \in Slots, used'[s]
                 PROVE  /\ page'[s] \in Frames /\ owners'[page'[s]] = 1 /\ ord'[page'[s]] = 0
                        /\ Split(page'[s], s[1], free_obj'[s], freelist'[s], live')
    BY DEF PoolPages, Split, Once, Has, InUse, Objs, Within
  <2>2. used[s] /\ page[s] # f /\ page[s] \in Frames
    BY <1>2, <1>6, <2>1
  <2>3. owners'[page[s]] = owners[page[s]] /\ ord'[page[s]] = ord[page[s]]
    BY <1>5, <2>2
  <2>4. /\ \A b \in live \ live' : ~Within(page[s], b.addr)
        /\ \A b \in live' \ live : ~Within(page[s], b.addr)
    BY <1>3, <1>8, <2>2
  <2> QED BY <1>2, <2>1, <2>2, <2>3, <2>4, OtherPools
<1>12. Apart'
  BY <1>2, <1>3, <1>7 DEF Inv, Apart
<1>13. \A x, s : InSlot(s, x)' <=> InSlot(s, x)
  BY <1>2 DEF InSlot
<1>14. ASSUME NEW b \in live', \A s \in Slots : ~InSlot(s, b.addr)'
       PROVE  \E k \in Frames : b.addr = k * PageSize /\ owners'[k] = 1 /\ ord'[k] = OrderOf(b.size)
  <2>1. CASE b = B
    BY <2>1, <1>3, <1>5 DEF a
  <2>2. CASE b # B
    <3>1. b \in live /\ IsLarge(b)
      BY <2>2, <1>3, <1>13, <1>14 DEF IsLarge
    <3>2. PICK k \in Frames : b.addr = k * PageSize /\ owners[k] = 1 /\ ord[k] = OrderOf(b.size)
      BY <3>1 DEF Inv, LargeBlocks
    <3>3. k # f
      BY <3>2, <1>5
    <3> QED BY <3>2, <3>3, <1>5
  <2> QED BY <2>1, <2>2
<1>15. ASSUME NEW g \in Frames, owners'[g] > 0
       PROVE  \/ \E s \in Slots : used'[s] /\ page'[s] = g
              \/ \E b \in live' : (\A s \in Slots : ~InSlot(s, b.addr)') /\ b.addr = g * PageSize
  <2>1. CASE g = f
    <3>1. \A s \in Slots : ~InSlot(s, a)
      BY <1>8, SlotPage
    <3> QED BY <2>1, <3>1, <1>3, <1>13 DEF a
  <2>2. CASE g # f
    <3>1. owners[g] > 0
      BY <2>2, <1>5, <1>15
    <3>2. CASE \E s \in Slots : used[s] /\ page[s] = g
      BY <3>2, <1>2
    <3>3. CASE \E b \in live : IsLarge(b) /\ b.addr = g * PageSize
      BY <3>3, <1>3, <1>13 DEF IsLarge
    <3> QED BY <3>1, <3>2, <3>3 DEF Inv, LargeBlocks
  <2> QED BY <2>1, <2>2
<1>16. LargeBlocks'
  BY <1>14, <1>15 DEF LargeBlocks, IsLarge
<1> QED BY <1>5, <1>10, <1>11, <1>12, <1>16 DEF Inv

(* dynamic_allocator sets the counter of a page to the number of objects it *)
(* links.                                                                   *)
LEMMA CarvedCount ==
    ASSUME NEW f \in Nat, NEW c \in Classes
    PROVE  PageSize \div ObjSize[c] = Len(Carved(f, c))
<1>1. PageSize \div ObjSize[c] \in Nat
  BY PoolSizes
<1> QED BY <1>1 DEF Carved

LEMMA KmallocObjectStep ==
    ASSUME Inv, NEW n \in Sizes, KmallocObject(n)
    PROVE  Inv'
<1>1. PICK i \in 1 .. MaxDynPages :
         /\ FirstUsable(ClassOf(n), i) /\ used[<<ClassOf(n), i>>]
         /\ Taken(<<ClassOf(n), i>>, freelist[<<ClassOf(n), i>>],
               free_obj[<<ClassOf(n), i>>], n)
  BY DEF KmallocObject
<1>2. n <= MaxObject /\ used' = used /\ page' = page /\ owners' = owners /\ ord' = ord
  BY DEF KmallocObject, pages
<1>3. n \in Nat /\ ClassOf(n) \in Classes /\ n <= ObjSize[ClassOf(n)]
  BY <1>2, Ranges, ClassFacts
<1> DEFINE c == ClassOf(n)
           s == <<c, i>>
           l == freelist[s]
           B == [addr |-> Head(l), size |-> n]
<1>4. s \in Slots /\ s[1] = c /\ used[s]
  BY <1>1, <1>3, Ranges
<1>5. /\ free_obj' = [free_obj EXCEPT ![s] = free_obj[s] - 1]
      /\ freelist' = [freelist EXCEPT ![s] = Tail(l)]
      /\ live' = live \cup {B}
  BY <1>1 DEF Taken
<1>6. free_obj[s] # 0
  BY <1>1, <1>4 DEF FirstUsable, Full
<1>7. B.addr = Head(l) /\ B.size = n /\ n <= ObjSize[c] /\ c \in Classes
  BY <1>3
<1> HIDE DEF B, l, s, c
<1>8. /\ page[s] \in Frames /\ page[s] \in Nat /\ owners[page[s]] = 1 /\ ord[page[s]] = 0
      /\ Split(page[s], c, free_obj[s], l, live) /\ l \in Seq(Nat)
  BY <1>4, Ranges DEF Inv, PoolPages, Typed, l
<1>9. free_obj[s] = Len(l) /\ l # <<>>
  <2>1. free_obj[s] = Len(l)
    BY <1>8 DEF Split
  <2> QED BY <2>1, <1>6, <1>8
<1>10. /\ ~InUse(live, Head(l)) /\ Head(l) \in Objs(page[s], c) /\ Tail(l) \in Seq(Nat)
       /\ Split(page[s], c, Len(l) - 1, Tail(l), live \cup {B})
  BY <1>3, <1>7, <1>8, <1>9, SplitTaken DEF B
<1>11. Head(l) \in Nat /\ Within(page[s], Head(l))
  BY <1>7, <1>8, <1>10, ObjectFacts
<1>12. B \in Records
  BY <1>11 DEF Records, B
<1>13. Typed'
  <2>1. live' \subseteq Records
    BY <1>5, <1>12 DEF Inv, Typed
  <2>2. IsFiniteSet(live')
    BY <1>5, FS_AddElement DEF Inv, Typed
  <2>3. Len(l) - 1 \in Nat
    BY <1>8, <1>9
  <2>4. free_obj' \in [Slots -> Nat]
    BY <1>5, <1>9, <2>3 DEF Inv, Typed
  <2>5. freelist' \in [Slots -> Seq(Nat)]
    BY <1>5, <1>10 DEF Inv, Typed
  <2> QED BY <1>2, <2>1, <2>2, <2>4, <2>5 DEF Inv, Typed
<1>14. \A t \in Slots : used[t] /\ t # s => ~Within(page[t], Head(l))
  <2>1. SUFFICES ASSUME NEW t \in Slots, used[t], t # s, Within(page[t], Head(l))
                 PROVE  FALSE
    OBVIOUS
  <2>2. page[t] \in Nat
    BY <2>1, Ranges DEF Inv, PoolPages
  <2>3. page[t] = page[s]
    BY <1>8, <1>11, <2>1, <2>2, OnePage
  <2> QED BY <1>4, <2>1, <2>3 DEF Inv, Apart
<1>15. PoolPages'
  <2>1. SUFFICES ASSUME NEW t \in Slots, used'[t]
                 PROVE  /\ page'[t] \in Frames /\ owners'[page'[t]] = 1 /\ ord'[page'[t]] = 0
                        /\ Split(page'[t], t[1], free_obj'[t], freelist'[t], live')
    BY DEF PoolPages, Split, Once, Has, InUse, Objs, Within
  <2>2. CASE t = s
    <3>1. free_obj'[s] = Len(l) - 1
      BY <1>4, <1>5, <1>9 DEF Inv, Typed
    <3>2. freelist'[s] = Tail(l)
      BY <1>4, <1>5 DEF Inv, Typed
    <3> QED BY <1>2, <1>4, <1>5, <1>8, <1>10, <2>2, <3>1, <3>2
  <2>3. CASE t # s
    <3>1. free_obj'[t] = free_obj[t]
      BY <1>5, <2>3 DEF Inv, Typed
    <3>2. freelist'[t] = freelist[t]
      BY <1>5, <2>3 DEF Inv, Typed
    <3>3. used[t]
      BY <1>2, <2>1
    <3>4. /\ \A b \in live \ live' : ~Within(page[t], b.addr)
          /\ \A b \in live' \ live : ~Within(page[t], b.addr)
      BY <1>5, <1>7, <1>14, <2>3, <3>3
    <3> QED BY <1>2, <2>1, <3>1, <3>2, <3>3, <3>4, OtherPools
  <2> QED BY <2>2, <2>3
<1>16. Apart'
  <2>1. \A b \in live : b.addr # Head(l)
    BY <1>10 DEF InUse
  <2> QED BY <1>2, <1>5, <1>7, <2>1 DEF Inv, Apart
<1>17. \A x, t : InSlot(t, x)' <=> InSlot(t, x)
  BY <1>2 DEF InSlot
<1>18. \A b \in live' : (\A t \in Slots : ~InSlot(t, b.addr)') => b \in live /\ IsLarge(b)
  <2>1. InSlot(s, Head(l))
    BY <1>4, <1>11, SlotPage
  <2> QED BY <1>4, <1>5, <1>7, <1>17, <2>1 DEF IsLarge
<1>19. LargeBlocks'
  <2>1. ASSUME NEW b \in live', \A t \in Slots : ~InSlot(t, b.addr)'
        PROVE  \E k \in Frames : b.addr = k * PageSize /\ owners'[k] = 1 /\ ord'[k] = OrderOf(b.size)
    BY <1>2, <1>18, <2>1 DEF Inv, LargeBlocks
  <2>2. ASSUME NEW g \in Frames, owners'[g] > 0
        PROVE  \/ \E t \in Slots : used'[t] /\ page'[t] = g
               \/ \E b \in live' : (\A t \in Slots : ~InSlot(t, b.addr)') /\ b.addr = g * PageSize
    <3>1. CASE \E t \in Slots : used[t] /\ page[t] = g
      BY <3>1, <1>2
    <3>2. CASE \E b \in live : IsLarge(b) /\ b.addr = g * PageSize
      BY <3>2, <1>5, <1>17 DEF IsLarge
    <3> QED BY <3>1, <3>2, <2>2, <1>2 DEF Inv, LargeBlocks
  <2> QED BY <2>1, <2>2 DEF LargeBlocks, IsLarge
<1>20. Blocks'
  BY <1>2 DEF Inv, Blocks
<1> QED BY <1>13, <1>15, <1>16, <1>19, <1>20 DEF Inv

LEMMA KmallocNewPageStep ==
    ASSUME Inv, NEW n \in Sizes, KmallocNewPage(n)
    PROVE  Inv'
<1>1. PICK i \in 1 .. MaxDynPages, f \in Frames :
         /\ ~used[<<ClassOf(n), i>>] /\ Pages!Alloc(f, 0)
         /\ used' = [used EXCEPT ![<<ClassOf(n), i>>] = TRUE]
         /\ page' = [page EXCEPT ![<<ClassOf(n), i>>] = f]
         /\ Taken(<<ClassOf(n), i>>, Carved(f, ClassOf(n)),
               PageSize \div ObjSize[ClassOf(n)], n)
  BY DEF KmallocNewPage
<1>2. n <= MaxObject
  BY DEF KmallocNewPage
<1>3. n \in Nat /\ ClassOf(n) \in Classes /\ n <= ObjSize[ClassOf(n)]
  BY <1>2, Ranges, ClassFacts
<1> DEFINE c == ClassOf(n)
           s == <<c, i>>
           l == Carved(f, c)
           B == [addr |-> Head(l), size |-> n]
<1>4. s \in Slots /\ s[1] = c /\ ~used[s]
  BY <1>1, <1>3, Ranges
<1>5. /\ used' = [used EXCEPT ![s] = TRUE] /\ page' = [page EXCEPT ![s] = f]
      /\ free_obj' = [free_obj EXCEPT ![s] = Len(l) - 1]
      /\ freelist' = [freelist EXCEPT ![s] = Tail(l)]
      /\ live' = live \cup {B}
  BY <1>1, <1>3, CarvedCount, Ranges DEF Taken
<1>6. /\ B.addr = Head(l) /\ B.size = n /\ n <= ObjSize[c] /\ c \in Classes
      /\ f \in Nat /\ 0 \in Orders
  BY <1>3, Ranges
<1>7. /\ owners[f] = 0 /\ Blocks'
      /\ owners' \in [Frames -> Nat] /\ ord' \in [Frames -> Orders]
      /\ owners'[f] = 1 /\ ord'[f] = 0
      /\ \A g \in Frames : g # f => owners'[g] = owners[g] /\ ord'[g] = ord[g]
  BY <1>1, <1>6, Granting DEF Inv
<1>8. /\ \A b \in live : ~Within(f, b.addr)
      /\ \A t \in Slots : used[t] => page[t] # f /\ page[t] \in Frames /\ page[t] \in Nat
  BY <1>7, NoneThere, Ranges DEF Inv, PoolPages
<1>9. l \in Seq(Nat) /\ l # <<>> /\ Split(f, c, Len(l), l, live)
  BY <1>6, <1>8, CarvedFacts, SplitFresh
<1> HIDE DEF B, l, s, c
<1>10. /\ ~InUse(live, Head(l)) /\ Head(l) \in Objs(f, c) /\ Tail(l) \in Seq(Nat)
       /\ Split(f, c, Len(l) - 1, Tail(l), live \cup {B})
  BY <1>3, <1>6, <1>9, SplitTaken DEF B
<1>11. Head(l) \in Nat /\ Within(f, Head(l))
  BY <1>6, <1>10, ObjectFacts
<1>12. B \in Records
  BY <1>11 DEF Records, B
<1>13. /\ \A t \in Slots : t # s => used'[t] = used[t]
       /\ \A t \in Slots : t # s => page'[t] = page[t]
       /\ used'[s] /\ page'[s] = f
  <2>1. used'[s] /\ \A t \in Slots : t # s => used'[t] = used[t]
    BY <1>4, <1>5 DEF Inv, Typed
  <2>2. page'[s] = f /\ \A t \in Slots : t # s => page'[t] = page[t]
    BY <1>4, <1>5 DEF Inv, Typed
  <2> QED BY <2>1, <2>2
<1>14. Typed'
  <2>1. live' \subseteq Records
    BY <1>5, <1>12 DEF Inv, Typed
  <2>2. IsFiniteSet(live')
    BY <1>5, FS_AddElement DEF Inv, Typed
  <2>3. Len(l) - 1 \in Nat
    BY <1>9
  <2>4. free_obj' \in [Slots -> Nat]
    BY <1>5, <2>3 DEF Inv, Typed
  <2>5. freelist' \in [Slots -> Seq(Nat)]
    BY <1>5, <1>10 DEF Inv, Typed
  <2>6. used' \in [Slots -> BOOLEAN]
    BY <1>5 DEF Inv, Typed
  <2>7. page' \in [Slots -> Frames \cup {NULL}]
    BY <1>5 DEF Inv, Typed
  <2> QED BY <1>7, <2>1, <2>2, <2>4, <2>5, <2>6, <2>7 DEF Typed
<1>15. \A t \in Slots : used[t] => t # s /\ ~Within(page[t], Head(l))
  <2>1. SUFFICES ASSUME NEW t \in Slots, used[t], Within(page[t], Head(l))
                 PROVE  FALSE
    BY <1>4
  <2>2. page[t] \in Nat /\ page[t] # f
    BY <2>1, <1>8
  <2> QED BY <1>6, <1>11, <2>1, <2>2, OnePage
<1>16. PoolPages'
  <2>1. SUFFICES ASSUME NEW t \in Slots, used'[t]
                 PROVE  /\ page'[t] \in Frames /\ owners'[page'[t]] = 1 /\ ord'[page'[t]] = 0
                        /\ Split(page'[t], t[1], free_obj'[t], freelist'[t], live')
    BY DEF PoolPages, Split, Once, Has, InUse, Objs, Within
  <2>2. CASE t = s
    <3>1. free_obj'[s] = Len(l) - 1
      BY <1>4, <1>5 DEF Inv, Typed
    <3>2. freelist'[s] = Tail(l)
      BY <1>4, <1>5 DEF Inv, Typed
    <3> QED BY <1>4, <1>5, <1>7, <1>10, <1>13, <2>2, <3>1, <3>2
  <2>3. CASE t # s
    <3>1. free_obj'[t] = free_obj[t]
      BY <1>5, <2>3 DEF Inv, Typed
    <3>2. freelist'[t] = freelist[t]
      BY <1>5, <2>3 DEF Inv, Typed
    <3>3. used[t] /\ page'[t] = page[t] /\ page[t] # f /\ page[t] \in Frames
      BY <1>8, <1>13, <2>1, <2>3
    <3>4. owners'[page[t]] = owners[page[t]] /\ ord'[page[t]] = ord[page[t]]
      BY <1>7, <3>3
    <3>5. /\ \A b \in live \ live' : ~Within(page[t], b.addr)
          /\ \A b \in live' \ live : ~Within(page[t], b.addr)
      BY <1>5, <1>6, <1>15, <3>3
    <3> QED BY <2>1, <3>1, <3>2, <3>3, <3>4, <3>5, OtherPools
  <2> QED BY <2>2, <2>3
<1>17. Apart'
  <2>1. \A b \in live : b.addr # Head(l)
    BY <1>10 DEF InUse
  <2>2. \A b, d \in live' : b.addr = d.addr => b = d
    BY <1>5, <1>6, <2>1 DEF Inv, Apart
  <2>3. \A t, u \in Slots : used'[t] /\ used'[u] /\ page'[t] = page'[u] => t = u
    BY <1>8, <1>13 DEF Inv, Apart
  <2> QED BY <2>2, <2>3 DEF Apart
<1>18. \A b \in live' : (\A t \in Slots : ~InSlot(t, b.addr)') <=> (b \in live /\ IsLarge(b))
  <2>1. SUFFICES ASSUME NEW b \in live'
                 PROVE  (\E t \in Slots : InSlot(t, b.addr)') <=> ~(b \in live /\ IsLarge(b))
    OBVIOUS
  <2>2. CASE b \in live
    <3>1. \A t \in Slots : t # s => (InSlot(t, b.addr)' <=> InSlot(t, b.addr))
      BY <1>13, SlotPage, SlotPageNext
    <3>2. ~InSlot(s, b.addr)' /\ ~InSlot(s, b.addr)
      BY <1>4, <1>8, <1>13, <2>2, SlotPage, SlotPageNext
    <3> QED BY <2>2, <3>1, <3>2 DEF IsLarge
  <2>3. CASE b \notin live
    <3>1. b = B
      BY <1>5, <2>3
    <3>2. InSlot(s, b.addr)'
      BY <1>6, <1>11, <1>13, <3>1, SlotPageNext
    <3> QED BY <1>4, <2>3, <3>2
  <2> QED BY <2>2, <2>3
<1>19. LargeBlocks'
  <2>1. ASSUME NEW b \in live', \A t \in Slots : ~InSlot(t, b.addr)'
        PROVE  \E k \in Frames : b.addr = k * PageSize /\ owners'[k] = 1 /\ ord'[k] = OrderOf(b.size)
    <3>1. PICK k \in Frames : b.addr = k * PageSize /\ owners[k] = 1 /\ ord[k] = OrderOf(b.size)
      BY <1>18, <2>1 DEF Inv, LargeBlocks
    <3>2. k # f
      BY <3>1, <1>7
    <3> QED BY <3>1, <3>2, <1>7
  <2>2. ASSUME NEW g \in Frames, owners'[g] > 0
        PROVE  \/ \E t \in Slots : used'[t] /\ page'[t] = g
               \/ \E b \in live' : (\A t \in Slots : ~InSlot(t, b.addr)') /\ b.addr = g * PageSize
    <3>1. CASE g = f
      BY <3>1, <1>4, <1>13
    <3>2. CASE g # f
      <4>1. owners[g] > 0
        BY <3>2, <1>7, <2>2
      <4>2. CASE \E t \in Slots : used[t] /\ page[t] = g
        BY <4>2, <1>13, <1>15
      <4>3. CASE \E b \in live : IsLarge(b) /\ b.addr = g * PageSize
        BY <4>3, <1>5, <1>18
      <4> QED BY <4>1, <4>2, <4>3 DEF Inv, LargeBlocks
    <3> QED BY <3>1, <3>2
  <2> QED BY <2>1, <2>2 DEF LargeBlocks, IsLarge
<1> QED BY <1>7, <1>14, <1>16, <1>17, <1>19 DEF Inv

LEMMA KfreeObjectStep ==
    ASSUME Inv, NEW b \in live, NEW s \in Slots, InSlot(s, b.addr),
           live' = live \ {b},
           free_obj' = [free_obj EXCEPT ![s] = @ + 1],
           freelist' = [freelist EXCEPT ![s] = <<b.addr>> \o @],
           UNCHANGED <<used, page, pages>>
    PROVE  Inv'
<1>1. used' = used /\ page' = page /\ owners' = owners /\ ord' = ord
  BY DEF pages
<1> DEFINE c == s[1]
           l == freelist[s]
           n == free_obj[s]
           a == b.addr
           f == page[s]
<1>2. used[s] /\ Within(f, a)
  BY SlotPage
<1>3. /\ f \in Frames /\ f \in Nat /\ owners[f] = 1 /\ ord[f] = 0
      /\ Split(f, c, n, l, live) /\ l \in Seq(Nat) /\ c \in Classes /\ a \in Nat
  BY <1>2, Ranges DEF Inv, PoolPages, Typed, Records
<1>4. \A d \in live : d.addr = a => d = b
  BY DEF Inv, Apart
<1>5. free_obj'[s] = n + 1 /\ \A t \in Slots : t # s => free_obj'[t] = free_obj[t]
  BY DEF Inv, Typed
<1>6. freelist'[s] = <<a>> \o l /\ \A t \in Slots : t # s => freelist'[t] = freelist[t]
  BY DEF Inv, Typed
<1>7. /\ free_obj' = [free_obj EXCEPT ![s] = n + 1]
      /\ freelist' = [freelist EXCEPT ![s] = <<a>> \o l]
  OBVIOUS
<1>8. b.addr = a
  OBVIOUS
<1> HIDE DEF c, l, n, a, f
<1>9. /\ n + 1 \in Nat /\ <<a>> \o l \in Seq(Nat)
      /\ Split(f, c, n + 1, <<a>> \o l, live \ {b})
  BY <1>2, <1>3, <1>4, <1>8, SplitPut
<1>10. Typed'
  <2>1. live' \subseteq Records
    BY DEF Inv, Typed
  <2>2. IsFiniteSet(live')
    BY FS_RemoveElement DEF Inv, Typed
  <2>3. free_obj' \in [Slots -> Nat]
    BY <1>7, <1>9 DEF Inv, Typed
  <2>4. freelist' \in [Slots -> Seq(Nat)]
    BY <1>7, <1>9 DEF Inv, Typed
  <2> QED BY <1>1, <2>1, <2>2, <2>3, <2>4 DEF Inv, Typed
<1>11. \A t \in Slots : used[t] /\ t # s => ~Within(page[t], a)
  <2>1. SUFFICES ASSUME NEW t \in Slots, used[t], t # s, Within(page[t], a)
                 PROVE  FALSE
    OBVIOUS
  <2>2. page[t] \in Nat
    BY <2>1, Ranges DEF Inv, PoolPages
  <2>3. page[t] = page[s]
    BY <1>2, <1>3, <2>1, <2>2, OnePage DEF f
  <2> QED BY <1>2, <2>1, <2>3 DEF Inv, Apart
<1>12. PoolPages'
  <2>1. SUFFICES ASSUME NEW t \in Slots, used'[t]
                 PROVE  /\ page'[t] \in Frames /\ owners'[page'[t]] = 1 /\ ord'[page'[t]] = 0
                        /\ Split(page'[t], t[1], free_obj'[t], freelist'[t], live')
    BY DEF PoolPages, Split, Once, Has, InUse, Objs, Within
  <2>2. CASE t = s
    BY <1>1, <1>3, <1>5, <1>6, <1>9, <2>2 DEF c, f
  <2>3. CASE t # s
    <3>1. used[t]
      BY <1>1, <2>1
    <3>2. /\ \A d \in live \ live' : ~Within(page[t], d.addr)
          /\ \A d \in live' \ live : ~Within(page[t], d.addr)
      BY <1>8, <1>11, <2>3, <3>1
    <3> QED BY <1>1, <1>5, <1>6, <2>1, <2>3, <3>1, <3>2, OtherPools
  <2> QED BY <2>2, <2>3
<1>13. Apart'
  BY <1>1 DEF Inv, Apart
<1>14. \A x, t : InSlot(t, x)' <=> InSlot(t, x)
  BY <1>1 DEF InSlot
<1>15. LargeBlocks'
  <2>1. ASSUME NEW d \in live', \A t \in Slots : ~InSlot(t, d.addr)'
        PROVE  \E k \in Frames : d.addr = k * PageSize /\ owners'[k] = 1 /\ ord'[k] = OrderOf(d.size)
    BY <1>1, <1>14, <2>1 DEF Inv, LargeBlocks, IsLarge
  <2>2. ASSUME NEW g \in Frames, owners'[g] > 0
        PROVE  \/ \E t \in Slots : used'[t] /\ page'[t] = g
               \/ \E d \in live' : (\A t \in Slots : ~InSlot(t, d.addr)') /\ d.addr = g * PageSize
    <3>1. CASE \E t \in Slots : used[t] /\ page[t] = g
      BY <3>1, <1>1
    <3>2. CASE \E d \in live : IsLarge(d) /\ d.addr = g * PageSize
      <4>1. PICK d \in live : IsLarge(d) /\ d.addr = g * PageSize
        BY <3>2
      <4>2. d # b
        BY <4>1 DEF IsLarge
      <4> QED BY <4>1, <4>2, <1>14 DEF IsLarge
    <3> QED BY <3>1, <3>2, <2>2, <1>1 DEF Inv, LargeBlocks
  <2> QED BY <2>1, <2>2 DEF LargeBlocks, IsLarge
<1>16. Blocks'
  BY <1>1 DEF Inv, Blocks
<1> QED BY <1>10, <1>12, <1>13, <1>15, <1>16 DEF Inv

LEMMA KfreePagesStep ==
    ASSUME Inv, NEW b \in live, IsLarge(b),
           live' = live \ {b}, Pages!Drop(b.addr \div PageSize), UNCHANGED dpage
    PROVE  Inv'
<1>1. used' = used /\ page' = page /\ free_obj' = free_obj /\ freelist' = freelist
  BY DEF dpage
<1>2. PICK f \in Frames : b.addr = f * PageSize /\ owners[f] = 1
  BY DEF Inv, LargeBlocks
<1>3. f \in Nat /\ b.addr \div PageSize = f /\ Within(f, b.addr) /\ b.addr \in Nat
  BY <1>2, Ranges, FrameAt, PageHead, HeapAssumption
<1>4. owners' = [owners EXCEPT ![f] = 0] /\ ord' = [ord EXCEPT ![f] = 0]
  <2>1. /\ owners' = [owners EXCEPT ![f] = owners[f] - 1]
        /\ ord' = [ord EXCEPT ![f] = IF owners[f] = 1 THEN 0 ELSE ord[f]]
    BY <1>3 DEF Pages!Drop
  <2>2. owners[f] - 1 = 0
    BY <1>2
  <2> QED BY <2>1, <2>2, <1>2
<1>5. /\ owners' \in [Frames -> Nat] /\ ord' \in [Frames -> Orders]
      /\ owners'[f] = 0
      /\ \A g \in Frames : g # f => owners'[g] = owners[g] /\ ord'[g] = ord[g]
  BY <1>4, Ranges DEF Inv, Typed
<1>6. \A s \in Slots : used[s] => ~Within(page[s], b.addr)
  BY SlotPage DEF IsLarge
<1>7. \A s \in Slots : used[s] => page[s] # f /\ page[s] \in Frames
  BY <1>3, <1>6 DEF Inv, PoolPages
<1>8. Typed'
  <2>1. live' \subseteq Records
    BY DEF Inv, Typed
  <2>2. IsFiniteSet(live')
    BY FS_RemoveElement DEF Inv, Typed
  <2> QED BY <1>1, <1>5, <2>1, <2>2 DEF Inv, Typed
<1>9. Blocks'
  <2>1. \A g \in Frames : owners'[g] > 0 => g # f /\ owners[g] > 0
    BY <1>5
  <2>2. ASSUME NEW g \in Frames, owners'[g] > 0
        PROVE  g + Size[ord'[g]] <= Size[MaxOrder]
    BY <2>1, <2>2, <1>5 DEF Inv, Blocks
  <2>3. ASSUME NEW g \in Frames, NEW h \in Frames, owners'[g] > 0, owners'[h] > 0, g < h
        PROVE  g + Size[ord'[g]] <= h
    BY <2>1, <2>3, <1>5 DEF Inv, Blocks
  <2> QED BY <2>2, <2>3 DEF Blocks
<1>10. PoolPages'
  <2>1. SUFFICES ASSUME NEW s \in Slots, used'[s]
                 PROVE  /\ page'[s] \in Frames /\ owners'[page'[s]] = 1 /\ ord'[page'[s]] = 0
                        /\ Split(page'[s], s[1], free_obj'[s], freelist'[s], live')
    BY DEF PoolPages, Split, Once, Has, InUse, Objs, Within
  <2>2. used[s] /\ page[s] # f /\ page[s] \in Frames
    BY <1>1, <1>7, <2>1
  <2>3. owners'[page[s]] = owners[page[s]] /\ ord'[page[s]] = ord[page[s]]
    BY <1>5, <2>2
  <2>4. /\ \A d \in live \ live' : ~Within(page[s], d.addr)
        /\ \A d \in live' \ live : ~Within(page[s], d.addr)
    BY <1>6, <2>2
  <2> QED BY <1>1, <2>1, <2>2, <2>3, <2>4, OtherPools
<1>11. Apart'
  BY <1>1 DEF Inv, Apart
<1>12. \A x, s : InSlot(s, x)' <=> InSlot(s, x)
  BY <1>1 DEF InSlot
<1>13. ASSUME NEW d \in live', \A s \in Slots : ~InSlot(s, d.addr)'
       PROVE  \E k \in Frames : d.addr = k * PageSize /\ owners'[k] = 1 /\ ord'[k] = OrderOf(d.size)
  <2>1. d \in live /\ d # b /\ IsLarge(d)
    BY <1>12, <1>13 DEF IsLarge
  <2>2. PICK k \in Frames : d.addr = k * PageSize /\ owners[k] = 1 /\ ord[k] = OrderOf(d.size)
    BY <2>1 DEF Inv, LargeBlocks
  <2>3. k # f
    BY <1>2, <2>1, <2>2 DEF Inv, Apart
  <2> QED BY <2>2, <2>3, <1>5
<1>14. ASSUME NEW g \in Frames, owners'[g] > 0
       PROVE  \/ \E s \in Slots : used'[s] /\ page'[s] = g
              \/ \E d \in live' : (\A s \in Slots : ~InSlot(s, d.addr)') /\ d.addr = g * PageSize
  <2>1. g # f /\ owners[g] > 0
    BY <1>5, <1>14
  <2>2. CASE \E s \in Slots : used[s] /\ page[s] = g
    BY <2>2, <1>1
  <2>3. CASE \E d \in live : IsLarge(d) /\ d.addr = g * PageSize
    <3>1. PICK d \in live : IsLarge(d) /\ d.addr = g * PageSize
      BY <2>3
    <3>2. g \in Nat
      BY Ranges
    <3>3. d # b
      BY <1>2, <1>3, <2>1, <3>1, <3>2, PageHead, OnePage
    <3> QED BY <3>1, <3>3, <1>12 DEF IsLarge
  <2> QED BY <2>1, <2>2, <2>3 DEF Inv, LargeBlocks
<1>15. LargeBlocks'
  BY <1>13, <1>14 DEF LargeBlocks, IsLarge
<1> QED BY <1>8, <1>9, <1>10, <1>11, <1>15 DEF Inv

LEMMA NextInv == Inv /\ [Next]_vars => Inv'
<1> SUFFICES ASSUME Inv, [Next]_vars PROVE Inv'
  OBVIOUS
<1>1. ASSUME NEW n \in Sizes, KmallocPages(n) PROVE Inv'
  BY <1>1, KmallocPagesStep
<1>2. ASSUME NEW n \in Sizes, KmallocObject(n) PROVE Inv'
  BY <1>2, KmallocObjectStep
<1>3. ASSUME NEW n \in Sizes, KmallocNewPage(n) PROVE Inv'
  BY <1>3, KmallocNewPageStep
<1>4. ASSUME NEW b \in live, Kfree(b) PROVE Inv'
  <2>1. CASE \E s \in Slots : InSlot(s, b.addr)
    <3>1. PICK s \in Slots : /\ InSlot(s, b.addr)
                             /\ free_obj' = [free_obj EXCEPT ![s] = @ + 1]
                             /\ freelist' = [freelist EXCEPT ![s] = <<b.addr>> \o @]
                             /\ UNCHANGED <<used, page, pages>>
      BY <1>4, <2>1 DEF Kfree
    <3>2. live' = live \ {b}
      BY <1>4 DEF Kfree
    <3> QED BY <3>1, <3>2, KfreeObjectStep
  <2>2. CASE ~ \E s \in Slots : InSlot(s, b.addr)
    <3>1. IsLarge(b)
      BY <2>2 DEF IsLarge
    <3>2. live' = live \ {b} /\ Pages!Drop(b.addr \div PageSize) /\ UNCHANGED dpage
      BY <1>4, <2>2 DEF Kfree
    <3> QED BY <3>1, <3>2, KfreePagesStep
  <2> QED BY <2>1, <2>2
<1>5. CASE UNCHANGED vars
  <2>1. /\ used' = used /\ page' = page /\ free_obj' = free_obj /\ freelist' = freelist
        /\ owners' = owners /\ ord' = ord /\ live' = live
    BY <1>5 DEF vars
  <2>2. Typed' /\ Blocks' /\ Apart'
    BY <2>1 DEF Inv, Typed, Blocks, Apart
  <2>3. PoolPages'
    <3>1. SUFFICES ASSUME NEW s \in Slots, used'[s]
                   PROVE  /\ page'[s] \in Frames /\ owners'[page'[s]] = 1 /\ ord'[page'[s]] = 0
                          /\ Split(page'[s], s[1], free_obj'[s], freelist'[s], live')
      BY DEF PoolPages, Split, Once, Has, InUse, Objs, Within
    <3> QED BY <2>1, <3>1 DEF Inv, PoolPages
  <2>4. LargeBlocks'
    BY <2>1 DEF Inv, LargeBlocks, IsLarge, InSlot
  <2> QED BY <2>2, <2>3, <2>4 DEF Inv
<1> QED BY <1>1, <1>2, <1>3, <1>4, <1>5 DEF Next

(* The invariant holds in every state. *)
THEOREM Invariance == Spec => []Inv
BY InitInv, NextInv, PTL DEF Spec

(***************************************************************************)
(* The properties of Kmalloc.                                              *)
(***************************************************************************)

(* kmalloc and kfree keep the state of the heap in its types. *)
THEOREM TypeCorrect == Spec => []TypeOK
<1>1. Inv => TypeOK
  BY DEF Inv, Typed, TypeOK, Records
<1> QED BY <1>1, Invariance, PTL

(* A function that repeats nothing has as many values as arguments. *)
LEMMA Counting ==
    ASSUME NEW S, IsFiniteSet(S), NEW h, h = [x \in S |-> h[x]],
           \A x, y \in S : h[x] = h[y] => x = y
    PROVE  Cardinality({h[x] : x \in S}) = Cardinality(S)
<1> DEFINE T == {h[x] : x \in S}
<1>1. h \in [S -> T]
  OBVIOUS
<1>2. h \in Bijection(S, T)
  BY <1>1 DEF Bijection, Injection, Surjection, IsInjective
<1>3. ExistsBijection(S, T)
  BY <1>2 DEF ExistsBijection
<1> QED BY <1>3, FS_Bijection

(* A list that repeats nothing is as long as the set of its elements. *)
LEMMA CountingList ==
    ASSUME NEW l \in Seq(Nat), Once(l)
    PROVE  Cardinality(Range(l)) = Len(l)
<1>1. Len(l) \in Nat /\ DOMAIN l = 1 .. Len(l) /\ l = [k \in 1 .. Len(l) |-> l[k]]
  OBVIOUS
<1>2. IsFiniteSet(1 .. Len(l)) /\ Cardinality(1 .. Len(l)) = Len(l)
  BY <1>1, FS_Interval
<1>3. Range(l) = {l[k] : k \in 1 .. Len(l)}
  BY <1>1 DEF Range
<1>4. \A j, k \in 1 .. Len(l) : l[j] = l[k] => j = k
  BY <1>1 DEF Once
<1> HIDE DEF Once
<1> QED BY <1>1, <1>2, <1>3, <1>4, Counting

(* Every pool page is partitioned into its free objects, counted by        *)
(* free_obj, and those in use (dynamic_allocator, remove_dpage, kfree).    *)
THEOREM PoolsExactHolds == Spec => []PoolsExact
<1>1. ASSUME Inv PROVE PoolsExact
  <2>1. SUFFICES ASSUME NEW s \in Slots, used[s]
                 PROVE  LET c == s[1]
                            inUse == {b \in live : InSlot(s, b.addr)}
                            free == Range(freelist[s])
                        IN /\ free_obj[s] = Len(freelist[s])
                           /\ Cardinality(free) = Len(freelist[s])
                           /\ free \cap {b.addr : b \in inUse} = {}
                           /\ free \cup {b.addr : b \in inUse} =
                                {page[s] * PageSize + j * ObjSize[c] : j \in 0 .. (PageSize \div ObjSize[c] - 1)}
                           /\ \A b \in inUse : b.size <= ObjSize[c]
    BY DEF PoolsExact
  <2> DEFINE c == s[1]
             l == freelist[s]
             f == page[s]
             inUse == {b \in live : InSlot(s, b.addr)}
             O == Objs(f, c)
  <2>2. /\ Split(f, c, free_obj[s], l, live) /\ l \in Seq(Nat) /\ c \in Classes /\ f \in Nat
    BY <1>1, <2>1, Ranges DEF Inv, PoolPages, Typed
  <2>3. free_obj[s] = Len(l) /\ Cardinality(Range(l)) = Len(l)
    BY <2>2, CountingList DEF Split
  <2>4. \A b \in inUse : b.addr \in O /\ b.size <= ObjSize[c]
    BY <2>1, <2>2, SlotPage DEF Split
  <2>5. \A a : a \in Range(l) <=> Has(l, a)
    BY DEF Range, Has
  <2>6. \A a \in Range(l) : a \in O
    BY <2>2, <2>5 DEF Split, Has
  <2>7. \A a \in O : Within(f, a)
    BY <2>2, ObjectFacts
  <2>8. \A a \in O : InUse(live, a) <=> \E b \in inUse : b.addr = a
    BY <2>1, <2>7, SlotPage DEF InUse
  <2>9. \A a \in O : a \in Range(l) <=> ~ \E b \in inUse : b.addr = a
    BY <2>2, <2>5, <2>8 DEF Split
  <2>10. O = {page[s] * PageSize + j * ObjSize[c] : j \in 0 .. (PageSize \div ObjSize[c] - 1)}
    BY DEF Objs
  <2> HIDE DEF O, inUse, l
  <2>11. Range(l) \cap {b.addr : b \in inUse} = {}
    BY <2>6, <2>9
  <2>12. Range(l) \cup {b.addr : b \in inUse} = O
    BY <2>4, <2>6, <2>9
  <2> QED BY <2>3, <2>4, <2>10, <2>11, <2>12 DEF inUse, l
<1> QED BY <1>1, Invariance, PTL

(* There are finitely many pages for pools. *)
LEMMA SlotsFinite == IsFiniteSet(Slots)
<1>1. IsFiniteSet(Classes) /\ MaxDynPages \in Nat
  BY HeapAssumption
<1>2. IsFiniteSet(1 .. MaxDynPages)
  BY <1>1, FS_Interval
<1> QED BY <1>1, <1>2, FS_Product DEF Slots

(* Every granted block is one pool page or one large object (kfree tells   *)
(* the two apart by the address alone).                                    *)
THEOREM PagesKeptHolds == Spec => []PagesKept
<1>1. ASSUME Inv PROVE PagesKept
  <2> DEFINE slots == {s \in Slots : used[s]}
             pool == {page[s] : s \in slots}
             large == {b.addr \div PageSize : b \in Large}
  <2>1. \A b : b \in Large <=> b \in live /\ IsLarge(b)
    BY DEF Large, IsLarge
  <2>2. \A b \in Large : \E k \in Frames : b.addr = k * PageSize /\ owners[k] = 1
    BY <1>1, <2>1 DEF Inv, LargeBlocks
  <2>3. PageSize \in Nat \ {0} /\ Frames \subseteq Nat
    BY HeapAssumption, Ranges
  <2>4. \A b \in Large : /\ b.addr % PageSize = 0 /\ b.addr \div PageSize \in Frames
                         /\ b.addr = (b.addr \div PageSize) * PageSize
                         /\ owners[b.addr \div PageSize] = 1
    <3>1. TAKE b \in Large
    <3>2. PICK k \in Frames : b.addr = k * PageSize /\ owners[k] = 1
      BY <2>2
    <3>3. (k * PageSize) \div PageSize = k /\ (k * PageSize) % PageSize = 0
      BY <2>3, FrameAt
    <3> QED BY <3>2, <3>3
  <2>5. Cardinality(pool) = Cardinality(slots)
    <3> DEFINE h == [s \in slots |-> page[s]]
    <3>1. IsFiniteSet(slots)
      BY SlotsFinite, FS_Subset
    <3>2. \A s, t \in slots : h[s] = h[t] => s = t
      BY <1>1 DEF Inv, Apart
    <3>3. h = [s \in slots |-> h[s]] /\ pool = {h[s] : s \in slots}
      OBVIOUS
    <3> HIDE DEF h, slots, pool
    <3> QED BY <3>1, <3>2, <3>3, Counting
  <2>6. Cardinality(large) = Cardinality(Large)
    <3> DEFINE h == [b \in Large |-> b.addr \div PageSize]
    <3>1. IsFiniteSet(Large)
      <4>1. Large \subseteq live /\ IsFiniteSet(live)
        BY <1>1, <2>1 DEF Inv, Typed
      <4> QED BY <4>1, FS_Subset
    <3>2. \A b, d \in Large : h[b] = h[d] => b = d
      <4>1. TAKE b, d \in Large
      <4>2. HAVE h[b] = h[d]
      <4>3. b.addr \div PageSize = d.addr \div PageSize
        BY <4>2
      <4>4. b.addr = d.addr
        BY <4>3, <2>4
      <4> QED BY <4>4, <1>1, <2>1 DEF Inv, Apart
    <3>3. h = [b \in Large |-> h[b]] /\ large = {h[b] : b \in Large}
      OBVIOUS
    <3> HIDE DEF h, large
    <3> QED BY <3>1, <3>2, <3>3, Counting
  <2>7. \A f \in pool : f \in Frames /\ owners[f] = 1 /\ ord[f] = 0
    BY <1>1 DEF Inv, PoolPages
  <2>8. pool \cap large = {}
    <3>1. SUFFICES ASSUME NEW s \in slots, NEW b \in Large, page[s] = b.addr \div PageSize
                   PROVE  FALSE
      OBVIOUS
    <3>2. page[s] \in Nat /\ b.addr = page[s] * PageSize
      BY <2>3, <2>4, <3>1
    <3>3. InSlot(s, b.addr)
      BY <3>2, PageHead, SlotPage
    <3> QED BY <3>3, <2>1 DEF IsLarge
  <2>9. {f \in Frames : owners[f] > 0} = pool \cup large
    <3>1. \A f \in pool \cup large : f \in Frames /\ owners[f] > 0
      BY <2>4, <2>7
    <3>2. ASSUME NEW f \in Frames, owners[f] > 0
          PROVE  f \in pool \cup large
      <4>1. CASE \E s \in Slots : used[s] /\ page[s] = f
        BY <4>1
      <4>2. CASE \E b \in live : IsLarge(b) /\ b.addr = f * PageSize
        <5>1. PICK b \in Large : b.addr = f * PageSize
          BY <4>2, <2>1
        <5>2. b.addr \div PageSize = f
          BY <5>1, <2>3, FrameAt
        <5> QED BY <5>2
      <4> QED BY <4>1, <4>2, <3>2, <1>1 DEF Inv, LargeBlocks
    <3> HIDE DEF pool, large
    <3> QED BY <3>1, <3>2
  <2> HIDE DEF pool, large, slots
  <2>10. /\ Cardinality(pool) = Cardinality(slots)
         /\ Cardinality(large) = Cardinality(Large)
         /\ pool \cap large = {}
         /\ {f \in Frames : owners[f] > 0} = pool \cup large
         /\ \A f \in pool : owners[f] = 1 /\ ord[f] = 0
         /\ \A b \in Large : b.addr % PageSize = 0
    BY <2>4, <2>5, <2>6, <2>7, <2>8, <2>9
  <2> QED BY <2>10 DEF PagesKept, pool, large, slots
<1> QED BY <1>1, Invariance, PTL

(***************************************************************************)
(* The promise of module Heap.  alloc_pages takes order 0 for a size above *)
(* the largest block, so the promise is made to callers that ask for no    *)
(* more than that.                                                         *)
(***************************************************************************)
Limit == Size[MaxOrder] * PageSize
Fits == \A n \in Sizes : n <= Limit

(* Objects in use lie in the page pool and do not overlap. *)
NoOverlap ==
    /\ \A b \in live : Objects!Extent(b) \subseteq 0 .. (Limit - 1)
    /\ \A b, d \in live : b # d => Objects!Extent(b) \cap Objects!Extent(d) = {}

(* The granted block that holds an object: its pool page, or its own. *)
Home(b, g) ==
    /\ g * PageSize <= b.addr /\ b.addr + b.size <= (g + Size[ord[g]]) * PageSize
    /\ \/ \E s \in Slots : used[s] /\ page[s] = g /\ InSlot(s, b.addr)
       \/ IsLarge(b) /\ b.addr = g * PageSize

(* Every object in use is held by a granted block. *)
LEMMA AtHome ==
    ASSUME Fits, Inv, NEW b \in live
    PROVE  \E g \in Frames : owners[g] > 0 /\ Home(b, g)
<1>1. /\ b.addr \in Nat /\ b.size \in Nat /\ b.size <= Limit
      /\ PageSize \in Nat \ {0} /\ Size[0] = 1
  <2>1. b.addr \in Nat /\ b.size \in Sizes
    BY DEF Inv, Typed, Records
  <2> QED BY <2>1, Ranges, HeapAssumption DEF Fits
<1>2. CASE IsLarge(b)
  <2>1. PICK k \in Frames : b.addr = k * PageSize /\ owners[k] = 1 /\ ord[k] = OrderOf(b.size)
    BY <1>2 DEF Inv, LargeBlocks
  <2>2. b.size <= Size[ord[k]] * PageSize
    BY <1>1, <2>1, OrderFacts DEF Limit
  <2>3. k \in Nat /\ Size[ord[k]] \in Nat
    BY <2>1, <1>1, Ranges, OrderFacts
  <2>4. (k + Size[ord[k]]) * PageSize = k * PageSize + Size[ord[k]] * PageSize
        /\ k * PageSize \in Nat /\ Size[ord[k]] * PageSize \in Nat
    BY <1>1, <2>3
  <2>5. b.addr + b.size <= (k + Size[ord[k]]) * PageSize /\ k * PageSize <= b.addr
    BY <1>1, <2>1, <2>2, <2>4
  <2>6. owners[k] > 0
    BY <2>1
  <2> QED BY <1>2, <2>1, <2>5, <2>6 DEF Home
<1>3. CASE ~IsLarge(b)
  <2>1. PICK s \in Slots : InSlot(s, b.addr)
    BY <1>3 DEF IsLarge
  <2>2. used[s] /\ Within(page[s], b.addr)
    BY <2>1, SlotPage
  <2>3. /\ page[s] \in Frames /\ page[s] \in Nat /\ owners[page[s]] = 1 /\ ord[page[s]] = 0
        /\ s[1] \in Classes /\ b.addr \in Objs(page[s], s[1]) /\ b.size <= ObjSize[s[1]]
    BY <2>2, Ranges DEF Inv, PoolPages, Split
  <2>4. b.addr + ObjSize[s[1]] <= (page[s] + 1) * PageSize
    BY <2>3, ObjectFacts
  <2>5. ObjSize[s[1]] \in Nat /\ (page[s] + 1) * PageSize \in Nat
    BY <2>3, <1>1, PoolSizes
  <2>6. b.addr + b.size <= (page[s] + Size[ord[page[s]]]) * PageSize
    BY <1>1, <2>3, <2>4, <2>5
  <2>7. page[s] * PageSize <= b.addr
    BY <2>2 DEF Within
  <2>8. owners[page[s]] > 0
    BY <2>3
  <2> QED BY <2>1, <2>2, <2>3, <2>6, <2>7, <2>8 DEF Home
<1> QED BY <1>2, <1>3

(* Objects at different addresses of one block are objects of one pool. *)
LEMMA SameHome ==
    ASSUME Fits, Inv, NEW b \in live, NEW d \in live, NEW g \in Frames,
           Home(b, g), Home(d, g), b.addr < d.addr
    PROVE  b.addr + b.size <= d.addr
<1>1. g \in Nat /\ b.addr \in Nat /\ d.addr \in Nat /\ b.size \in Nat
  BY Ranges DEF Inv, Typed, Records
<1>2. ~(IsLarge(b) /\ b.addr = g * PageSize /\ IsLarge(d) /\ d.addr = g * PageSize)
  BY <1>1
<1>3. PICK s \in Slots : used[s] /\ page[s] = g
  BY <1>2 DEF Home
<1>4. InSlot(s, g * PageSize)
  BY <1>1, <1>3, PageHead, SlotPage
<1>5. \A e \in live : Home(e, g) => InSlot(s, e.addr)
  <2>1. SUFFICES ASSUME NEW e \in live, Home(e, g)
                 PROVE  InSlot(s, e.addr)
    OBVIOUS
  <2>2. ~(IsLarge(e) /\ e.addr = g * PageSize)
    BY <1>4 DEF IsLarge
  <2>3. PICK t \in Slots : used[t] /\ page[t] = g /\ InSlot(t, e.addr)
    BY <2>1, <2>2 DEF Home
  <2>4. t = s
    BY <1>3, <2>3 DEF Inv, Apart
  <2> QED BY <2>3, <2>4
<1>6. Within(g, b.addr) /\ Within(g, d.addr)
  BY <1>3, <1>5, SlotPage
<1>7. /\ s[1] \in Classes /\ b.addr \in Objs(g, s[1]) /\ d.addr \in Objs(g, s[1])
      /\ b.size <= ObjSize[s[1]]
  BY <1>3, <1>6, Ranges DEF Inv, PoolPages, Split
<1>8. b.addr + ObjSize[s[1]] <= d.addr /\ ObjSize[s[1]] \in Nat
  BY <1>1, <1>7, ObjectsApart, PoolSizes
<1> QED BY <1>1, <1>7, <1>8

(* Of two objects in use, one ends before the other begins. *)
LEMMA InOrder ==
    ASSUME Fits, Inv, NEW b \in live, NEW d \in live, b # d
    PROVE  b.addr + b.size <= d.addr \/ d.addr + d.size <= b.addr
<1>1. PICK g \in Frames : owners[g] > 0 /\ Home(b, g)
  BY AtHome
<1>2. PICK h \in Frames : owners[h] > 0 /\ Home(d, h)
  BY AtHome
<1>3. /\ g \in Nat /\ h \in Nat /\ PageSize \in Nat \ {0}
      /\ Size[ord[g]] \in Nat /\ Size[ord[h]] \in Nat
      /\ b.addr \in Nat /\ b.size \in Nat /\ d.addr \in Nat /\ d.size \in Nat
  BY Ranges, HeapAssumption DEF Inv, Typed, Records
<1>4. CASE g < h
  <2>1. g + Size[ord[g]] <= h
    BY <1>1, <1>2, <1>4 DEF Inv, Blocks
  <2>2. (g + Size[ord[g]]) * PageSize <= h * PageSize
        /\ (g + Size[ord[g]]) * PageSize \in Nat /\ h * PageSize \in Nat
    BY <1>3, <2>1, Scaled
  <2> QED BY <1>1, <1>2, <1>3, <2>2 DEF Home
<1>5. CASE h < g
  <2>1. h + Size[ord[h]] <= g
    BY <1>1, <1>2, <1>5 DEF Inv, Blocks
  <2>2. (h + Size[ord[h]]) * PageSize <= g * PageSize
        /\ (h + Size[ord[h]]) * PageSize \in Nat /\ g * PageSize \in Nat
    BY <1>3, <2>1, Scaled
  <2> QED BY <1>1, <1>2, <1>3, <2>2 DEF Home
<1>6. CASE g = h
  <2>1. b.addr # d.addr
    BY DEF Inv, Apart
  <2>2. CASE b.addr < d.addr
    BY <1>1, <1>2, <1>6, <2>2, SameHome
  <2>3. CASE d.addr < b.addr
    BY <1>1, <1>2, <1>6, <2>3, SameHome
  <2> QED BY <2>1, <2>2, <2>3, <1>3
<1> QED BY <1>3, <1>4, <1>5, <1>6

LEMMA Apartness == ASSUME Fits, Inv PROVE NoOverlap
<1>1. Limit \in Nat /\ PageSize \in Nat \ {0} /\ Size[MaxOrder] \in Nat
  BY Ranges, HeapAssumption DEF Limit
<1>2. \A b \in live : b.addr \in Nat /\ b.size \in Nat
  BY Ranges DEF Inv, Typed, Records
<1>3. \A b \in live : \A x : x \in Objects!Extent(b) <=>
        x \in Int /\ b.addr <= x /\ x < b.addr + b.size
  BY <1>2 DEF Objects!Extent
<1>4. ASSUME NEW b \in live
      PROVE  Objects!Extent(b) \subseteq 0 .. (Limit - 1)
  <2>1. PICK g \in Frames : owners[g] > 0 /\ Home(b, g)
    BY AtHome
  <2>2. g \in Nat /\ Size[ord[g]] \in Nat /\ g + Size[ord[g]] <= Size[MaxOrder]
    BY <2>1, Ranges DEF Inv, Typed, Blocks
  <2>3. (g + Size[ord[g]]) * PageSize <= Limit /\ (g + Size[ord[g]]) * PageSize \in Nat
    BY <1>1, <2>2, Scaled DEF Limit
  <2>4. b.addr + b.size <= Limit
    BY <1>1, <1>2, <2>1, <2>3 DEF Home
  <2>5. ASSUME NEW x \in Objects!Extent(b)
        PROVE  x \in 0 .. (Limit - 1)
    <3>1. x \in Int /\ b.addr <= x /\ x < b.addr + b.size
      BY <1>3
    <3> QED BY <3>1, <2>4, <1>1, <1>2
  <2> QED BY <2>5
<1>5. ASSUME NEW b \in live, NEW d \in live, b # d
      PROVE  Objects!Extent(b) \cap Objects!Extent(d) = {}
  <2>1. b.addr + b.size <= d.addr \/ d.addr + d.size <= b.addr
    BY <1>5, InOrder
  <2>2. ASSUME NEW x, x \in Objects!Extent(b), x \in Objects!Extent(d)
        PROVE  FALSE
    <3>1. x \in Int /\ b.addr <= x /\ x < b.addr + b.size /\ d.addr <= x /\ x < d.addr + d.size
      BY <1>3, <2>2
    <3> QED BY <3>1, <2>1, <1>2
  <2> QED BY <2>2
<1> QED BY <1>4, <1>5 DEF NoOverlap

(* A call of kmalloc that finds its object apart from the others is one of *)
(* the abstract heap.                                                      *)
LEMMA Allocates ==
    ASSUME NoOverlap', NEW n \in Sizes, NEW a \in Nat,
           live' = live \cup {[addr |-> a, size |-> n]},
           \A b \in live : b.addr # a
    PROVE  \E x \in 0 .. (Limit - 1), m \in Sizes : Objects!Malloc(x, m)
<1> DEFINE B == [addr |-> a, size |-> n]
<1>1. B.addr = a /\ B.size = n /\ B \in live' /\ B \notin live /\ n \in Nat \ {0}
  BY HeapAssumption
<1>2. Objects!Extent(B) = B.addr .. (B.addr + B.size - 1)
  BY DEF Objects!Extent
<1>3. Objects!Extent(B) \subseteq 0 .. (Limit - 1)
  BY <1>1 DEF NoOverlap, Objects!Extent
<1>4. \A c \in live : a # c.addr /\ Objects!Extent(B) \cap Objects!Extent(c) = {}
  BY <1>1 DEF NoOverlap, Objects!Extent
<1>5. Objects!Malloc(a, n)
  BY <1>3, <1>4 DEF Objects!Malloc, Limit
<1>6. a \in 0 .. (Limit - 1)
  BY <1>1, <1>2, <1>3
<1> QED BY <1>5, <1>6

(* Every step of the heap is one of the abstract heap. *)
LEMMA NextImplements ==
    ASSUME Fits, Inv, Inv', [Next]_vars
    PROVE  [Objects!Next]_live
<1>1. NoOverlap'
  BY Apartness, PTL
<1>2. ASSUME NEW n \in Sizes, KmallocPages(n)
      PROVE  Objects!Next
  <2>1. PICK f \in Frames : /\ Pages!Alloc(f, OrderOf(n))
                            /\ live' = live \cup {[addr |-> f * PageSize, size |-> n]}
    BY <1>2 DEF KmallocPages
  <2>2. OrderOf(n) \in Orders /\ f \in Nat /\ f * PageSize \in Nat /\ Within(f, f * PageSize)
    BY Ranges, OrderFacts, PageHead
  <2>3. owners[f] = 0
    BY <2>1, <2>2, Granting DEF Inv
  <2>4. \A b \in live : b.addr # f * PageSize
    BY <2>2, <2>3, NoneThere
  <2> QED BY <1>1, <2>1, <2>2, <2>4, Allocates DEF Objects!Next, Limit
<1>3. ASSUME NEW n \in Sizes, KmallocObject(n)
      PROVE  Objects!Next
  <2>1. PICK i \in 1 .. MaxDynPages :
           /\ FirstUsable(ClassOf(n), i) /\ used[<<ClassOf(n), i>>]
           /\ Taken(<<ClassOf(n), i>>, freelist[<<ClassOf(n), i>>],
               free_obj[<<ClassOf(n), i>>], n)
    BY <1>3 DEF KmallocObject
  <2> DEFINE s == <<ClassOf(n), i>>
             l == freelist[s]
  <2>2. n <= MaxObject
    BY <1>3 DEF KmallocObject
  <2>3. n \in Nat /\ ClassOf(n) \in Classes /\ s \in Slots /\ s[1] = ClassOf(n)
    BY <2>2, Ranges, ClassFacts
  <2>4. /\ Split(page[s], s[1], free_obj[s], l, live) /\ l \in Seq(Nat) /\ free_obj[s] # 0
    BY <2>1, <2>3 DEF Inv, PoolPages, Typed, FirstUsable, Full
  <2>5. live' = live \cup {[addr |-> Head(l), size |-> n]}
    BY <2>1 DEF Taken
  <2> HIDE DEF s, l
  <2>6. Len(l) # 0
    BY <2>4 DEF Split
  <2>7. 1 \in DOMAIN l /\ Head(l) = l[1] /\ Head(l) \in Nat
    BY <2>4, <2>6
  <2>8. ~InUse(live, Head(l))
    BY <2>4, <2>7 DEF Split, Has
  <2>9. \A b \in live : b.addr # Head(l)
    BY <2>8 DEF InUse
  <2> QED BY <1>1, <2>5, <2>7, <2>9, Allocates DEF Objects!Next, Limit
<1>4. ASSUME NEW n \in Sizes, KmallocNewPage(n)
      PROVE  Objects!Next
  <2>1. PICK i \in 1 .. MaxDynPages, f \in Frames :
           /\ Pages!Alloc(f, 0)
           /\ Taken(<<ClassOf(n), i>>, Carved(f, ClassOf(n)),
               PageSize \div ObjSize[ClassOf(n)], n)
    BY <1>4 DEF KmallocNewPage
  <2> DEFINE c == ClassOf(n)
             l == Carved(f, c)
  <2>2. n <= MaxObject
    BY <1>4 DEF KmallocNewPage
  <2>3. c \in Classes /\ f \in Nat /\ 0 \in Orders
    BY <2>2, Ranges, ClassFacts
  <2>4. owners[f] = 0
    BY <2>1, <2>3, Granting DEF Inv
  <2>5. live' = live \cup {[addr |-> Head(l), size |-> n]}
    BY <2>1 DEF Taken
  <2>6. l \in Seq(Nat) /\ l # <<>> /\ \A k \in DOMAIN l : l[k] \in Objs(f, c)
    BY <2>3, CarvedFacts
  <2> HIDE DEF l, c
  <2>7. Head(l) = l[1] /\ 1 \in DOMAIN l
    BY <2>6
  <2>8. Head(l) \in Nat /\ Within(f, Head(l))
    BY <2>3, <2>6, <2>7, ObjectFacts
  <2>9. \A b \in live : b.addr # Head(l)
    BY <2>4, <2>8, NoneThere
  <2> QED BY <1>1, <2>5, <2>8, <2>9, Allocates DEF Objects!Next, Limit
<1>5. ASSUME NEW b \in live, Kfree(b)
      PROVE  Objects!Next
  BY <1>5 DEF Kfree, Objects!Next, Objects!Free
<1>6. CASE UNCHANGED vars
  BY <1>6 DEF vars
<1> QED BY <1>2, <1>3, <1>4, <1>5, <1>6 DEF Next

(* Kmalloc keeps the promise of Heap: an object in use overlaps no other   *)
(* one, from whichever pool or block, until it is freed, as long as no     *)
(* caller asks for more than the largest block.                            *)
THEOREM KmallocImplementsHeap == ASSUME Fits PROVE Spec => Implements
<1>1. Init => Objects!Init
  BY DEF Init, Objects!Init
<1>2. Inv /\ Inv' /\ [Next]_vars => [Objects!Next]_live
  BY NextImplements
<1> QED BY <1>1, <1>2, Invariance, PTL DEF Spec, Implements, Objects!Spec
===============================================================================
