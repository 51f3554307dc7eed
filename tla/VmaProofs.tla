------------------------------ MODULE VmaProofs ------------------------------
(***************************************************************************)
(* Proofs about Vma and VmaList, for every page size, every set of         *)
(* programs, requests and processes and any number of areas: the list of a *)
(* process is sorted and disjoint as long as each of its requests found    *)
(* room, and the fault handler finds the area of an address.               *)
(***************************************************************************)
EXTENDS VmaList, SequenceTheorems, WellFoundedInduction, TLAPS

(***************************************************************************)
(* The inductive invariant.  Sortedness alone does not carry it: the gap   *)
(* between two areas is computed in unsigned arithmetic and rounded, so    *)
(* starts must be page-aligned and ends below the point of wrapping, or a  *)
(* negative gap would pass for a huge one.                                 *)
(***************************************************************************)
Areas == [start : Nat, end : Nat, prot : {NONE, RW}]
Sound(v) == v.start % Page = 0 /\ v.start <= v.end /\ v.end < Wrap
Good(L) == (\A k \in DOMAIN L : Sound(L[k])) /\ Sorted(L)

VmaType == mmap \in [Procs -> Seq(Areas)] /\ overlaid \in [Procs -> BOOLEAN]
Inv == VmaType /\ \A p \in Procs : overlaid[p] \/ Good(mmap[p])

(***************************************************************************)
(* Arithmetic of pages.                                                    *)
(***************************************************************************)

(* A multiple of S has a quotient. *)
LEMMA Quotient ==
    ASSUME NEW S \in Nat \ {0}, NEW a \in Nat, a % S = 0
    PROVE  \E q \in Nat : a = q * S
<1>1. a = ((a \div S) * S) + (a % S)
  OBVIOUS
<1>2. a \div S \in Nat
  OBVIOUS
<1>3. (a \div S) * S \in Nat
  BY <1>2
<1>4. a = (a \div S) * S
  BY <1>1, <1>3
<1> QED BY <1>2, <1>4

(* Rounding down to a multiple of S. *)
LEMMA Down ==
    ASSUME NEW S \in Nat \ {0}, NEW a \in Nat
    PROVE  /\ a - (a % S) \in Nat /\ (a - (a % S)) % S = 0
           /\ a - (a % S) <= a /\ a < a - (a % S) + S
<1>1. a = ((a \div S) * S) + (a % S)
  OBVIOUS
<1>2. a \div S \in Nat /\ a % S \in Nat /\ a % S < S
  OBVIOUS
<1>3. ((a \div S) * S) % S = 0
  BY <1>2
<1>4. (a \div S) * S \in Nat
  BY <1>2
<1>5. a - (a % S) = (a \div S) * S
  BY <1>1, <1>2, <1>4
<1> QED BY <1>1, <1>2, <1>3, <1>4, <1>5

(* Two multiples of S less than S apart are in order. *)
LEMMA Multiples ==
    ASSUME NEW S \in Nat \ {0}, NEW a \in Nat, NEW b \in Nat,
           a % S = 0, b % S = 0, b < a + S
    PROVE  b <= a
<1>1. PICK q \in Nat : a = q * S
  BY Quotient
<1>2. PICK r \in Nat : b = r * S
  BY Quotient
<1>3. CASE r <= q
  <2>1. q = r + (q - r) /\ q - r \in Nat
    BY <1>3
  <2>2. a = b + (q - r) * S
    BY <1>1, <1>2, <2>1
  <2>3. (q - r) * S >= 0
    BY <2>1
  <2> QED BY <2>2, <2>3
<1>4. CASE r > q
  <2>1. r = q + 1 + (r - q - 1) /\ r - q - 1 \in Nat
    BY <1>4
  <2>2. b = a + S + (r - q - 1) * S
    BY <1>1, <1>2, <2>1
  <2>3. (r - q - 1) * S >= 0
    BY <2>1
  <2> QED BY <2>2, <2>3
<1> QED BY <1>3, <1>4

(* PGROUNDDOWN and PGROUNDUP give the multiple of the page next to a. *)
LEMMA Rounding ==
    ASSUME NEW a \in Nat
    PROVE  /\ PGROUNDDOWN(a) \in Nat /\ PGROUNDDOWN(a) % Page = 0
           /\ PGROUNDDOWN(a) <= a /\ a < PGROUNDDOWN(a) + Page
           /\ PGROUNDUP(a) \in Nat /\ PGROUNDUP(a) % Page = 0
           /\ a <= PGROUNDUP(a) /\ PGROUNDUP(a) < a + Page
<1>1. Page \in Nat \ {0}
  BY VmaAssumption
<1>2. \A b \in Nat : /\ PGROUNDDOWN(b) \in Nat /\ PGROUNDDOWN(b) % Page = 0
                     /\ PGROUNDDOWN(b) <= b /\ b < PGROUNDDOWN(b) + Page
  BY <1>1, Down DEF PGROUNDDOWN
<1>3. a + Page - 1 \in Nat
  BY <1>1
<1>4. PGROUNDUP(a) = PGROUNDDOWN(a + Page - 1)
  BY DEF PGROUNDUP
<1>5. /\ PGROUNDUP(a) \in Nat /\ PGROUNDUP(a) % Page = 0
      /\ PGROUNDUP(a) <= a + Page - 1 /\ a + Page - 1 < PGROUNDUP(a) + Page
  BY <1>2, <1>3, <1>4
<1>6. a <= PGROUNDUP(a) /\ PGROUNDUP(a) < a + Page
  BY <1>1, <1>5
<1> QED BY <1>2, <1>5, <1>6

(* Rounding does not pass a multiple, and leaves one where it is. *)
LEMMA NextMultiple ==
    ASSUME NEW a \in Nat, NEW s \in Nat, s % Page = 0
    PROVE  /\ a <= s => PGROUNDUP(a) <= s
           /\ PGROUNDDOWN(s) = s
<1>1. /\ Page \in Nat \ {0} /\ PGROUNDUP(a) \in Nat
      /\ PGROUNDUP(a) % Page = 0 /\ PGROUNDUP(a) < a + Page
  BY VmaAssumption, Rounding
<1>2. a <= s => PGROUNDUP(a) < s + Page
  BY <1>1
<1>3. a <= s => PGROUNDUP(a) <= s
  BY <1>1, <1>2, Multiples
<1> QED BY <1>1, <1>3 DEF PGROUNDDOWN

(***************************************************************************)
(* Searches in the list.                                                   *)
(***************************************************************************)
Less == {ss \in Nat \X Nat : ss[1] < ss[2]}

LEMMA LeastNumber ==
    ASSUME NEW S \in SUBSET Nat, S # {}
    PROVE  \E m \in S : \A n \in S : m <= n
<1>1. IsWellFoundedOn(Less, Nat)
  BY NatLessThanWellFounded DEF OpToRel, Less
<1>2. PICK m \in S : \A n \in S : <<n, m>> \notin Less
  BY <1>1, WFMin
<1>3. \A n \in S : ~(n < m)
  BY <1>2 DEF Less
<1> QED BY <1>3

LEMMA Elements ==
    ASSUME NEW L \in Seq(Areas)
    PROVE  /\ Len(L) \in Nat /\ DOMAIN L = 1 .. Len(L)
           /\ \A j \in 1 .. Len(L) : L[j] \in Areas
           /\ \A j \in 1 .. Len(L) : L[j].start \in Nat /\ L[j].end \in Nat
<1>1. Len(L) \in Nat /\ DOMAIN L = 1 .. Len(L) /\ \A j \in 1 .. Len(L) : L[j] \in Areas
  OBVIOUS
<1>2. \A v \in Areas : v.start \in Nat /\ v.end \in Nat
  BY DEF Areas
<1> QED BY <1>1, <1>2

(* Where vma_insert links the new area in. *)
Behind(L, e) == SelectInSeq(L, LAMBDA v : v.start > e)

LEMMA BehindFacts ==
    ASSUME NEW L \in Seq(Areas), NEW e \in Nat
    PROVE  LET k == Behind(L, e)
           IN \/ k = 0 /\ \A j \in 1 .. Len(L) : L[j].start <= e
              \/ /\ k \in 1 .. Len(L) /\ L[k].start > e
                 /\ \A j \in 1 .. (k - 1) : L[j].start <= e
<1> DEFINE I == {j \in 1 .. Len(L) : L[j].start > e}
<1>1. Behind(L, e) = IF I # {} THEN Min(I) ELSE 0
  BY DEF Behind, SelectInSeq
<1>2. Len(L) \in Nat /\ \A j \in 1 .. Len(L) : L[j].start \in Nat
  BY Elements
<1>3. I # {} => Min(I) \in I /\ \A j \in I : Min(I) <= j
  <2>1. I \in SUBSET Nat
    OBVIOUS
  <2>2. I # {} => \E m \in I : \A n \in I : m <= n
    BY <2>1, LeastNumber
  <2> QED BY <2>2 DEF Min
<1> HIDE DEF I
<1>4. CASE I = {}
  <2>1. \A j \in 1 .. Len(L) : ~(L[j].start > e)
    BY <1>4 DEF I
  <2> QED BY <1>1, <1>2, <1>4, <2>1
<1>5. CASE I # {}
  <2>1. Behind(L, e) \in I /\ \A j \in I : Behind(L, e) <= j
    BY <1>1, <1>3, <1>5
  <2>2. Behind(L, e) \in 1 .. Len(L) /\ L[Behind(L, e)].start > e
    BY <2>1 DEF I
  <2>3. \A j \in 1 .. (Behind(L, e) - 1) : j \in 1 .. Len(L) /\ j \notin I
    BY <1>2, <2>1, <2>2
  <2>4. \A j \in 1 .. (Behind(L, e) - 1) : L[j].start <= e
    BY <1>2, <2>3 DEF I
  <2> QED BY <2>2, <2>4
<1> QED BY <1>4, <1>5

(* The first gap that is larger than size, when there is one. *)
LEMMA FirstGapFacts ==
    ASSUME NEW L \in Seq(Areas), NEW size \in Nat, Gaps(L, size) # {}
    PROVE  FirstGap(L, size) \in 1 .. (Len(L) - 1) /\ GapAfter(L, FirstGap(L, size)) > size
<1>1. Gaps(L, size) \in SUBSET Nat
  BY DEF Gaps
<1>2. \E m \in Gaps(L, size) : \A n \in Gaps(L, size) : m <= n
  BY <1>1, LeastNumber
<1>3. FirstGap(L, size) \in Gaps(L, size)
  BY <1>2 DEF FirstGap
<1> QED BY <1>3 DEF Gaps

(***************************************************************************)
(* vma_insert and create_vma.                                              *)
(***************************************************************************)

(* M is L with one more area at place p. *)
Inserts(L, M, new, p) ==
    /\ p \in 1 .. (Len(L) + 1)
    /\ M \in Seq(Areas) /\ Len(M) = Len(L) + 1
    /\ M[p] = new
    /\ \A j \in 1 .. (p - 1) : M[j] = L[j]
    /\ \A j \in (p + 1) .. (Len(L) + 1) : M[j] = L[j - 1]

(* vma_insert adds one area, behind those that start up to its end.        *)
LEMMA InsertFacts ==
    ASSUME NEW L \in Seq(Areas), NEW new \in Areas
    PROVE  \E p \in 1 .. (Len(L) + 1) :
              /\ Inserts(L, Inserted(L, new), new, p)
              /\ \A j \in 1 .. (p - 1) : L[j].start <= new.end
              /\ p <= Len(L) => L[p].start > new.end
<1> DEFINE k == Behind(L, new.end)
           M == Inserted(L, new)
<1>1. new.end \in Nat /\ Len(L) \in Nat
  BY Elements DEF Areas
<1>2. M = IF k = 0 THEN Append(L, new) ELSE InsertAt(L, k, new)
  BY DEF Inserted, Behind
<1>3. \/ k = 0 /\ \A j \in 1 .. Len(L) : L[j].start <= new.end
      \/ /\ k \in 1 .. Len(L) /\ L[k].start > new.end
         /\ \A j \in 1 .. (k - 1) : L[j].start <= new.end
  BY <1>1, BehindFacts
<1> HIDE DEF k, M
<1>4. CASE k = 0
  <2>1. M = Append(L, new)
    BY <1>2, <1>4
  <2>2. Inserts(L, M, new, Len(L) + 1)
    BY <1>1, <2>1 DEF Inserts
  <2>3. \A j \in 1 .. (Len(L) + 1 - 1) : L[j].start <= new.end
    BY <1>1, <1>3, <1>4
  <2> QED BY <1>1, <2>2, <2>3 DEF M
<1>5. CASE k # 0
  <2>1. k \in 1 .. Len(L) /\ M = SubSeq(L, 1, k - 1) \o <<new>> \o SubSeq(L, k, Len(L))
    BY <1>2, <1>3, <1>5 DEF InsertAt
  <2> DEFINE A == SubSeq(L, 1, k - 1)
             B == SubSeq(L, k, Len(L))
  <2>2. /\ A \in Seq(Areas) /\ Len(A) = k - 1
        /\ \A j \in 1 .. (k - 1) : A[j] = L[j]
    BY <1>1, <2>1
  <2>3. /\ B \in Seq(Areas) /\ Len(B) = Len(L) - k + 1
        /\ \A j \in 1 .. (Len(L) - k + 1) : B[j] = L[k + j - 1]
    BY <1>1, <2>1
  <2> DEFINE C == A \o <<new>>
  <2>4. M = C \o B
    BY <2>1
  <2> HIDE DEF A, B
  <2>5. /\ C \in Seq(Areas) /\ Len(C) = k
        /\ \A j \in 1 .. k : C[j] = IF j <= k - 1 THEN A[j] ELSE new
    <3>1. <<new>> \in Seq(Areas) /\ Len(<<new>>) = 1 /\ <<new>>[1] = new
      OBVIOUS
    <3> HIDE DEF C
    <3>2. /\ C \in Seq(Areas) /\ Len(C) = k - 1 + 1
          /\ \A j \in 1 .. (k - 1 + 1) :
                C[j] = IF j <= k - 1 THEN A[j] ELSE <<new>>[j - (k - 1)]
      BY <2>2, <3>1, ConcatProperties DEF C
    <3>3. \A j \in 1 .. k : j <= k - 1 \/ j - (k - 1) = 1
      BY <1>1, <2>1
    <3>4. k - 1 + 1 = k
      BY <1>1, <2>1
    <3> QED BY <3>1, <3>2, <3>3, <3>4
  <2> HIDE DEF C
  <2>6. /\ M \in Seq(Areas) /\ Len(M) = Len(L) + 1
        /\ \A j \in 1 .. (Len(L) + 1) : M[j] = IF j <= k THEN C[j] ELSE B[j - k]
    <3>1. /\ M \in Seq(Areas) /\ Len(M) = k + (Len(L) - k + 1)
          /\ \A j \in 1 .. (k + (Len(L) - k + 1)) : M[j] = IF j <= k THEN C[j] ELSE B[j - k]
      BY <2>3, <2>4, <2>5, ConcatProperties
    <3>2. k + (Len(L) - k + 1) = Len(L) + 1
      BY <1>1, <2>1
    <3> QED BY <3>1, <3>2
  <2>7. /\ M[k] = new /\ \A j \in 1 .. (k - 1) : M[j] = L[j]
        /\ \A j \in (k + 1) .. (Len(L) + 1) : M[j] = L[j - 1]
    <3>1. M[k] = new
      BY <1>1, <2>1, <2>5, <2>6
    <3>2. ASSUME NEW j \in 1 .. (k - 1) PROVE M[j] = L[j]
      <4>1. j \in 1 .. (Len(L) + 1) /\ j <= k /\ j \in 1 .. k /\ j <= k - 1
        BY <1>1, <2>1
      <4> QED BY <2>2, <2>5, <2>6, <4>1
    <3>3. ASSUME NEW j \in (k + 1) .. (Len(L) + 1) PROVE M[j] = L[j - 1]
      <4>1. /\ j \in 1 .. (Len(L) + 1) /\ ~(j <= k) /\ j - k \in 1 .. (Len(L) - k + 1)
            /\ k + (j - k) - 1 = j - 1
        BY <1>1, <2>1
      <4> QED BY <2>3, <2>6, <4>1
    <3> QED BY <3>1, <3>2, <3>3
  <2>8. Inserts(L, M, new, k)
    <3>1. k \in 1 .. (Len(L) + 1)
      BY <1>1, <2>1
    <3> QED BY <2>6, <2>7, <3>1 DEF Inserts
  <2>9. k \in 1 .. (Len(L) + 1) /\ L[k].start > new.end
        /\ \A j \in 1 .. (k - 1) : L[j].start <= new.end
    BY <1>1, <1>3, <1>5
  <2> QED BY <2>8, <2>9 DEF M
<1> QED BY <1>4, <1>5

(* An area that is apart from all others finds its place in the order.     *)
LEMMA InsertGood ==
    ASSUME NEW L \in Seq(Areas), NEW new \in Areas, Good(L), Sound(new),
           \A k \in 1 .. Len(L) : L[k].end <= new.start \/ new.end < L[k].start
    PROVE  Good(Inserted(L, new))
<1> DEFINE M == Inserted(L, new)
           n == Len(L)
<1>1. PICK p \in 1 .. (n + 1) :
              /\ Inserts(L, M, new, p)
              /\ \A j \in 1 .. (p - 1) : L[j].start <= new.end
              /\ p <= n => L[p].start > new.end
  BY InsertFacts
<1> HIDE DEF M
<1>2. /\ n \in Nat /\ DOMAIN L = 1 .. n /\ DOMAIN M = 1 .. (n + 1)
      /\ \A j \in 1 .. n : L[j].start \in Nat /\ L[j].end \in Nat
      /\ new.start \in Nat /\ new.end \in Nat
  BY <1>1, Elements DEF Inserts, Areas
<1>3. /\ M[p] = new
      /\ \A j \in 1 .. (p - 1) : M[j] = L[j]
      /\ \A j \in (p + 1) .. (n + 1) : M[j] = L[j - 1]
  BY <1>1 DEF Inserts
<1>4. /\ \A j \in 1 .. n : L[j].start <= L[j].end /\ Sound(L[j])
      /\ \A j, k \in 1 .. n : j < k => L[j].end <= L[k].start
  BY <1>2 DEF Good, Sound, Sorted
<1>5. \A j \in 1 .. (p - 1) : L[j].end <= new.start
  BY <1>1, <1>2
<1>6. \A j \in p .. n : new.end <= L[j].start
  <2> TAKE j \in p .. n
  <2>1. p \in 1 .. n /\ L[p].start > new.end
    BY <1>1, <1>2
  <2>2. j = p \/ (j \in 1 .. n /\ p < j)
    BY <1>2, <2>1
  <2> QED BY <1>2, <1>4, <2>1, <2>2
<1>7. \A j \in 1 .. (n + 1) : Sound(M[j])
  <2> TAKE j \in 1 .. (n + 1)
  <2>1. j \in 1 .. (p - 1) \/ j = p \/ (j \in (p + 1) .. (n + 1) /\ j - 1 \in 1 .. n)
    BY <1>2
  <2>2. j \in 1 .. (p - 1) => j \in 1 .. n
    BY <1>2
  <2> QED BY <1>3, <1>4, <2>1, <2>2
<1>8. ASSUME NEW j \in 1 .. (n + 1), NEW k \in 1 .. (n + 1), j < k
      PROVE  M[j].end <= M[k].start
  <2>1. CASE k < p
    <3>1. j \in 1 .. (p - 1) /\ k \in 1 .. (p - 1) /\ j \in 1 .. n /\ k \in 1 .. n
      BY <1>2, <1>8, <2>1
    <3> QED BY <1>3, <1>4, <1>8, <3>1
  <2>2. CASE k = p
    <3>1. j \in 1 .. (p - 1)
      BY <1>2, <1>8, <2>2
    <3> QED BY <1>3, <1>5, <2>2, <3>1
  <2>3. CASE j = p
    <3>1. k \in (p + 1) .. (n + 1) /\ k - 1 \in p .. n
      BY <1>2, <1>8, <2>3
    <3> QED BY <1>3, <1>6, <2>3, <3>1
  <2>4. CASE j < p /\ k > p
    <3>1. /\ j \in 1 .. (p - 1) /\ k \in (p + 1) .. (n + 1)
          /\ j \in 1 .. n /\ k - 1 \in 1 .. n /\ j < k - 1
      BY <1>2, <1>8, <2>4
    <3> QED BY <1>3, <1>4, <3>1
  <2>5. CASE j > p
    <3>1. /\ j \in (p + 1) .. (n + 1) /\ k \in (p + 1) .. (n + 1)
          /\ j - 1 \in 1 .. n /\ k - 1 \in 1 .. n /\ j - 1 < k - 1
      BY <1>2, <1>8, <2>5
    <3> QED BY <1>3, <1>4, <3>1
  <2> QED BY <1>2, <1>8, <2>1, <2>2, <2>3, <2>4, <2>5
<1>9. Good(M)
  BY <1>2, <1>7, <1>8 DEF Good, Sorted
<1> QED BY <1>9 DEF M

(* What chk_vma_valid answers keeps the order, if it is not the 0 that     *)
(* means that there is no gap.                                             *)
LEMMA CreateGood ==
    ASSUME NEW L \in Seq(Areas), Good(L),
           NEW start \in Nat, NEW size \in Nat, NEW prot \in {NONE, RW},
           start % Page = 0, start + size < Wrap,
           Free(L, start, size) \/ Gaps(L, size) # {}
    PROVE  Good(Created(L, start, size, prot))
<1> DEFINE a == IF L = <<>> THEN start ELSE chk_vma_valid(L, start, size)
           new == Area(a, size, prot)
           n == Len(L)
<1>1. Created(L, start, size, prot) = Inserted(L, new)
  BY DEF Created
<1>2. /\ n \in Nat /\ DOMAIN L = 1 .. n
      /\ \A j \in 1 .. n : L[j].start \in Nat /\ L[j].end \in Nat
  BY Elements
<1>3. CASE Free(L, start, size)
  <2>1. a = start
    BY <1>3 DEF chk_vma_valid
  <2>2. new = [start |-> start, end |-> start + size, prot |-> prot]
    BY <2>1 DEF Area
  <2> HIDE DEF a, new
  <2>3. new \in Areas /\ new.start = start /\ new.end = start + size
    BY <2>2 DEF Areas
  <2>4. Sound(new)
    BY <2>3 DEF Sound
  <2>5. \A j \in 1 .. n : L[j].start > start + size \/ L[j].end < start
    <3> TAKE j \in 1 .. n
    <3>1. Apart(L[j], Area(start, size, NONE))
      BY <1>2, <1>3 DEF Free
    <3> QED BY <3>1 DEF Apart, Area
  <2>6. \A j \in 1 .. n : L[j].end <= new.start \/ new.end < L[j].start
    BY <1>2, <2>3, <2>5
  <2> QED BY <1>1, <2>3, <2>4, <2>6, InsertGood
<1>4. CASE ~Free(L, start, size)
  <2> DEFINE g == FirstGap(L, size)
             e == L[g].end
             b == L[g + 1].start
  <2>1. /\ g \in 1 .. (n - 1) /\ GapAfter(L, g) > size
        /\ g \in 1 .. n /\ g + 1 \in 1 .. n
    BY <1>2, <1>4, FirstGapFacts
  <2>2. L # <<>>
    BY <1>2, <2>1
  <2>3. a = PGROUNDUP(e)
    BY <1>4, <2>2 DEF chk_vma_valid
  <2>4. /\ e \in Nat /\ b \in Nat /\ b % Page = 0 /\ e <= b /\ b <= L[g + 1].end
        /\ L[g + 1].end < Wrap /\ Wrap \in Nat
    <3>1. Sound(L[g + 1]) /\ L[g].end <= L[g + 1].start
      BY <1>2, <2>1 DEF Good, Sorted
    <3> QED BY <1>2, <2>1, <3>1, VmaAssumption DEF Sound
  <2>5. GapAfter(L, g) = (PGROUNDDOWN(b) - PGROUNDUP(e)) % Wrap
    BY DEF GapAfter
  <2> HIDE DEF g
  <2>6. L[g].end = e /\ L[g + 1].start = b
    OBVIOUS
  <2> HIDE DEF e, b, a, new
  <2>7. /\ a \in Nat /\ a % Page = 0 /\ e <= a /\ a <= b /\ PGROUNDDOWN(b) = b
    BY <2>3, <2>4, Rounding, NextMultiple
  <2>8. b - a \in Nat /\ b - a < Wrap
    <3>1. L[g + 1].end \in Nat
      BY <1>2, <2>1
    <3> QED BY <2>4, <2>7, <3>1
  <2>9. (b - a) % Wrap = b - a
    BY <2>4, <2>8
  <2>10. b - a > size
    BY <2>1, <2>3, <2>5, <2>7, <2>9
  <2>11. /\ new \in Areas /\ new.start = a /\ new.end = a + size
    BY <2>7 DEF new, Area, Areas
  <2>12. Sound(new)
    <3>1. L[g + 1].end \in Nat
      BY <1>2, <2>1
    <3> QED BY <2>4, <2>7, <2>10, <2>11, <3>1 DEF Sound
  <2>13. ASSUME NEW j \in 1 .. n
         PROVE  L[j].end <= new.start \/ new.end < L[j].start
    <3>1. /\ L[j].start \in Nat /\ L[j].end \in Nat /\ L[j].start <= L[j].end
          /\ L[g].start <= L[g].end /\ L[g + 1].start <= L[g + 1].end
          /\ L[g + 1].end \in Nat
      BY <1>2, <2>1 DEF Good, Sound
    <3>2. CASE j <= g
      <4>1. L[j].end <= e
        <5>1. j = g \/ j < g
          BY <1>2, <2>1, <3>2
        <5>2. j < g => L[j].end <= L[g].start
          BY <1>2, <2>1 DEF Good, Sorted
        <5> QED BY <1>2, <2>1, <2>6, <3>1, <5>1, <5>2
      <4> QED BY <2>4, <2>7, <2>11, <3>1, <4>1
    <3>3. CASE j > g
      <4>1. b <= L[j].start
        <5>1. j = g + 1 \/ g + 1 < j
          BY <1>2, <2>1, <3>3
        <5>2. g + 1 < j => L[g + 1].end <= L[j].start
          BY <1>2, <2>1 DEF Good, Sorted
        <5> QED BY <2>4, <2>6, <3>1, <5>1, <5>2
      <4> QED BY <2>4, <2>7, <2>10, <2>11, <3>1, <4>1
    <3> QED BY <1>2, <2>1, <3>2, <3>3
  <2> QED BY <1>1, <2>11, <2>12, <2>13, InsertGood
<1> QED BY <1>3, <1>4

(* Whatever chk_vma_valid answers, create_vma adds one area. *)
LEMMA CreateInserts ==
    ASSUME NEW L \in Seq(Areas), NEW start \in Nat, NEW size \in Nat,
           NEW prot \in {NONE, RW}
    PROVE  \E new \in Areas : \E p \in 1 .. (Len(L) + 1) :
              Inserts(L, Created(L, start, size, prot), new, p)
<1> DEFINE a == IF L = <<>> THEN start ELSE chk_vma_valid(L, start, size)
           new == Area(a, size, prot)
<1>1. Created(L, start, size, prot) = Inserted(L, new)
  BY DEF Created
<1>2. chk_vma_valid(L, start, size) \in Nat
  <2>1. Gaps(L, size) # {} =>
           /\ FirstGap(L, size) \in 1 .. Len(L)
           /\ L[FirstGap(L, size)].end \in Nat
    BY Elements, FirstGapFacts
  <2> QED BY <2>1, Rounding DEF chk_vma_valid
<1>3. a \in Nat
  BY <1>2
<1> HIDE DEF a
<1>4. new \in Areas
  BY <1>3 DEF Area, Areas
<1> HIDE DEF new
<1> QED BY <1>1, <1>4, InsertFacts

(***************************************************************************)
(* The invariant.                                                          *)
(***************************************************************************)

(* The areas of a program just executed are in order. *)
LEMMA ImageGood ==
    ASSUME NEW t \in TextSizes
    PROVE  Image(t) \in Seq(Areas) /\ Good(Image(t))
<1> DEFINE none == <<>>
           text == Area(0, t, NONE)
           L == Created(none, 0, t, NONE)
<1>1. /\ Page \in Nat \ {0} /\ Wrap \in Nat /\ Stack \in Nat /\ StackSize \in Nat
      /\ t \in Nat /\ t < Stack /\ Stack % Page = 0 /\ Stack + StackSize < Wrap
  BY VmaAssumption
<1>2. none \in Seq(Areas) /\ Len(none) = 0 /\ DOMAIN none = {}
  OBVIOUS
<1>3. L = Inserted(none, text)
  BY DEF Created
<1>4. text = [start |-> 0, end |-> t, prot |-> NONE]
  BY <1>1 DEF Area
<1> HIDE DEF none, text, L
<1>5. text \in Areas /\ text.start = 0 /\ text.end = t
  BY <1>1, <1>4 DEF Areas
<1>6. PICK p \in 1 .. (Len(none) + 1) : Inserts(none, L, text, p)
  BY <1>2, <1>3, <1>5, InsertFacts
<1>7. L \in Seq(Areas) /\ Len(L) = 1 /\ L[1] = text /\ DOMAIN L = {1}
  BY <1>2, <1>6 DEF Inserts
<1>8. Good(L)
  <2>1. 0 % Page = 0
    BY <1>1
  <2>2. Sound(text)
    BY <1>1, <1>5, <2>1 DEF Sound
  <2> QED BY <1>7, <2>2 DEF Good, Sorted
<1>9. Free(L, Stack, StackSize)
  <2>1. Apart(L[1], Area(Stack, StackSize, NONE))
    BY <1>1, <1>5, <1>7 DEF Apart, Area
  <2> QED BY <1>7, <2>1 DEF Free
<1>10. Image(t) = Created(L, Stack, StackSize, RW)
  BY DEF Image, L, none
<1>11. Good(Image(t))
  BY <1>1, <1>7, <1>8, <1>9, <1>10, CreateGood
<1>12. Image(t) \in Seq(Areas)
  BY <1>1, <1>7, <1>10, CreateInserts DEF Inserts
<1> QED BY <1>11, <1>12

LEMMA InitInv == ASSUME Init PROVE Inv
<1> DEFINE none == <<>>
<1>1. none \in Seq(Areas) /\ DOMAIN none = {}
  OBVIOUS
<1>2. Good(none)
  BY <1>1 DEF Good, Sorted
<1>3. mmap = [p \in Procs |-> none] /\ overlaid = [p \in Procs |-> FALSE]
  BY DEF Init
<1> HIDE DEF none
<1> QED BY <1>1, <1>2, <1>3 DEF Inv, VmaType

(* The invariant when the list and the mark of one process change.         *)
LEMMA OneList ==
    ASSUME Inv, NEW p \in Procs, NEW L \in Seq(Areas), NEW o \in BOOLEAN,
           mmap' = [mmap EXCEPT ![p] = L], overlaid' = [overlaid EXCEPT ![p] = o],
           o \/ Good(L)
    PROVE  Inv'
<1>1. mmap' \in [Procs -> Seq(Areas)] /\ overlaid' \in [Procs -> BOOLEAN]
  BY DEF Inv, VmaType
<1>2. ASSUME NEW q \in Procs PROVE overlaid'[q] \/ Good(mmap'[q])
  <2>1. CASE q = p
    BY <2>1 DEF Inv, VmaType
  <2>2. CASE q # p
    <3>1. mmap'[q] = mmap[q] /\ overlaid'[q] = overlaid[q]
      BY <2>2 DEF Inv, VmaType
    <3> QED BY <3>1 DEF Inv
  <2> QED BY <2>1, <2>2
<1> QED BY <1>1, <1>2 DEF Inv, VmaType, Good, Sorted, Sound

LEMMA ExecInv ==
    ASSUME Inv, NEW p \in Procs, NEW t \in TextSizes, Exec(p, t)
    PROVE  Inv'
<1>1. /\ mmap' = [mmap EXCEPT ![p] = Image(t)]
      /\ overlaid' = [overlaid EXCEPT ![p] = FALSE]
  BY DEF Exec
<1>2. Image(t) \in Seq(Areas) /\ Good(Image(t))
  BY ImageGood
<1> QED BY <1>1, <1>2, OneList

LEMMA ForkInv ==
    ASSUME Inv, NEW p \in Procs, NEW q \in Procs, Fork(p, q)
    PROVE  Inv'
<1>1. /\ mmap' = [mmap EXCEPT ![q] = mmap[p]]
      /\ overlaid' = [overlaid EXCEPT ![q] = overlaid[p]]
  BY DEF Fork
<1>2. mmap[p] \in Seq(Areas) /\ overlaid[p] \in BOOLEAN
  BY DEF Inv, VmaType
<1>3. overlaid[p] \/ Good(mmap[p])
  BY DEF Inv
<1> QED BY <1>1, <1>2, <1>3, OneList

(* What mmap asks create_vma for. *)
LEMMA Request ==
    ASSUME NEW addr \in Addrs, NEW n \in Lens
    PROVE  /\ PGROUNDDOWN(addr) \in Nat /\ PGROUNDDOWN(addr) % Page = 0
           /\ PGROUNDUP(n) \in Nat
           /\ PGROUNDDOWN(addr) + PGROUNDUP(n) < Wrap
<1>1. /\ Page \in Nat \ {0} /\ Wrap \in Nat /\ Stack \in Nat /\ StackSize \in Nat
      /\ addr \in Nat /\ n \in Nat /\ Stack + StackSize + addr + n + Page < Wrap
  BY VmaAssumption
<1>2. /\ PGROUNDDOWN(addr) \in Nat /\ PGROUNDDOWN(addr) % Page = 0
      /\ PGROUNDDOWN(addr) <= addr
      /\ PGROUNDUP(n) \in Nat /\ PGROUNDUP(n) < n + Page
  BY <1>1, Rounding
<1> QED BY <1>1, <1>2

LEMMA MmapInv ==
    ASSUME Inv, NEW p \in Procs, NEW addr \in Addrs, NEW n \in Lens,
           NEW prot \in {NONE, RW}, Mmap(p, addr, n, prot)
    PROVE  Inv'
<1> DEFINE a == PGROUNDDOWN(addr)
           size == PGROUNDUP(n)
           L == mmap[p]
           M == Created(L, a, size, prot)
           o == overlaid[p] \/ NoRoom(L, a, size)
<1>1. mmap' = [mmap EXCEPT ![p] = M] /\ overlaid' = [overlaid EXCEPT ![p] = o]
  BY DEF Mmap
<1>2. a \in Nat /\ a % Page = 0 /\ size \in Nat /\ a + size < Wrap
  BY Request
<1>3. L \in Seq(Areas) /\ overlaid[p] \in BOOLEAN /\ (overlaid[p] \/ Good(L))
  BY DEF Inv, VmaType
<1>4. o \in BOOLEAN
  BY <1>3 DEF NoRoom
<1> HIDE DEF a, size, L, M
<1>5. M \in Seq(Areas)
  BY <1>2, <1>3, CreateInserts DEF Inserts, M
<1>6. ~o => Good(M)
  BY <1>2, <1>3, CreateGood DEF M, NoRoom
<1> HIDE DEF o
<1> QED BY <1>1, <1>4, <1>5, <1>6, OneList

LEMMA NextInv == ASSUME Inv, [Next]_vars PROVE Inv'
<1>1. CASE Next
  <2>1. PICK p \in Procs :
           \/ \E t \in TextSizes : Exec(p, t)
           \/ \E a \in Addrs, n \in Lens, prot \in Prots : Mmap(p, a, n, prot)
           \/ \E q \in Procs : Fork(p, q)
    BY <1>1 DEF Next
  <2>2. CASE \E t \in TextSizes : Exec(p, t)
    BY <2>2, ExecInv
  <2>3. CASE \E a \in Addrs, n \in Lens, prot \in Prots : Mmap(p, a, n, prot)
    BY <2>3, MmapInv, VmaAssumption
  <2>4. CASE \E q \in Procs : Fork(p, q)
    BY <2>4, ForkInv
  <2> QED BY <2>1, <2>2, <2>3, <2>4
<1>2. CASE UNCHANGED vars
  BY <1>2 DEF vars, Inv, VmaType, Good, Sorted, Sound
<1> QED BY <1>1, <1>2

(* Each call on the nodes of VmaList is the same call of Vma. *)
LEMMA ListSteps == [ListNext]_<<lists, vars>> => [Next]_vars
<1>1. ASSUME NEW p \in Procs, NEW t \in TextSizes, ListExec(p, t)
      PROVE  Next
  BY <1>1 DEF ListExec, Next
<1>2. ASSUME NEW p \in Procs, NEW a \in Addrs, NEW n \in Lens, NEW prot \in Prots,
             ListMmap(p, a, n, prot)
      PROVE  Next
  BY <1>2 DEF ListMmap, Next
<1>3. ASSUME NEW p \in Procs, NEW q \in Procs, ListFork(p, q)
      PROVE  Next
  BY <1>3 DEF ListFork, Next
<1> QED BY <1>1, <1>2, <1>3 DEF ListNext

(* The invariant holds in every reachable state. *)
THEOREM InvHolds == ListSpec => []Inv
<1>1. ListInit => Inv
  BY InitInv DEF ListInit
<1>2. Inv /\ [ListNext]_<<lists, vars>> => Inv'
  BY NextInv, ListSteps
<1> QED BY <1>1, <1>2, PTL DEF ListSpec

(***************************************************************************)
(* Properties.                                                             *)
(***************************************************************************)

(* vma_insert and chk_vma_valid together keep the list of areas sorted and *)
(* disjoint, whatever is asked for, until a request finds no gap.          *)
THEOREM ListSorted == ListSpec => []SortedDisjoint
<1>1. Inv => SortedDisjoint
  BY DEF Inv, SortedDisjoint, Good
<1> QED BY <1>1, InvHolds, PTL

(* The area the fault handler finds is the one that contains the address. *)
LEMMA AreaAtFound ==
    ASSUME NEW L \in Seq(Areas), Good(L), NEW a \in Nat,
           NEW k \in DOMAIN L, Within(L[k], a)
    PROVE  AreaAt(L, a) = k
<1> DEFINE I == {j \in 1 .. Len(L) : a >= L[j].start /\ a < L[j].end}
           i == SelectInSeq(L, LAMBDA v : a >= v.start /\ a < v.end)
<1>1. i = IF I # {} THEN Min(I) ELSE 0
  BY DEF SelectInSeq
<1>2. AreaAt(L, a) = IF i = 0 THEN Len(L) ELSE i
  BY DEF AreaAt
<1>3. /\ Len(L) \in Nat /\ DOMAIN L = 1 .. Len(L)
      /\ \A j \in 1 .. Len(L) : L[j].start \in Nat /\ L[j].end \in Nat
  BY Elements
<1>4. k \in I
  BY <1>3 DEF Within
<1>5. ASSUME NEW j \in I PROVE j = k
  <2>1. j \in 1 .. Len(L) /\ a >= L[j].start /\ a < L[j].end
    OBVIOUS
  <2>2. k \in 1 .. Len(L) /\ a >= L[k].start /\ a < L[k].end
    BY <1>4
  <2>3. (j < k => L[j].end <= L[k].start) /\ (k < j => L[k].end <= L[j].start)
    BY <1>3, <2>1, <2>2 DEF Good, Sorted
  <2> QED BY <1>3, <2>1, <2>2, <2>3
<1> HIDE DEF I, i
<1>6. I = {k}
  BY <1>4, <1>5
<1>7. k \in Nat /\ k # 0
  BY <1>3
<1>8. Min(I) = k
  BY <1>6, <1>7 DEF Min
<1> QED BY <1>1, <1>2, <1>4, <1>7, <1>8

(* mem_abort_handler and chk_addr_valid find the right area for every      *)
(* address, and refuse every other but the first one past an end.          *)
THEOREM FaultsFindAreas == ListSpec => []FaultFindsArea
<1>1. ASSUME Inv PROVE FaultFindsArea
  <2> SUFFICES ASSUME NEW p \in Procs, ~overlaid[p], NEW a \in 0 .. Top
      PROVE  LET L == mmap[p]
             IN /\ \A k \in DOMAIN L : Within(L[k], a) => AreaAt(L, a) = k
                /\ (\E k \in DOMAIN L : Within(L[k], a)) => chk_addr_valid(L, a)
                /\ chk_addr_valid(L, a) =>
                      \E k \in DOMAIN L : Within(L[k], a) \/ a = L[k].end
    BY DEF FaultFindsArea, Found
  <2> DEFINE L == mmap[p]
  <2>1. L \in Seq(Areas) /\ Good(L) /\ a \in Nat
    BY <1>1 DEF Inv, VmaType
  <2> HIDE DEF L
  <2>2. /\ DOMAIN L = 1 .. Len(L)
        /\ \A k \in 1 .. Len(L) : L[k].start \in Nat /\ L[k].end \in Nat
    BY <2>1, Elements
  <2>3. \A k \in DOMAIN L : Within(L[k], a) => AreaAt(L, a) = k
    BY <2>1, AreaAtFound
  <2>4. (\E k \in DOMAIN L : Within(L[k], a)) => chk_addr_valid(L, a)
    BY <2>1, <2>2 DEF Within, chk_addr_valid
  <2>5. ASSUME chk_addr_valid(L, a)
        PROVE  \E k \in DOMAIN L : Within(L[k], a) \/ a = L[k].end
    <3>1. PICK k \in DOMAIN L : a >= L[k].start /\ a <= L[k].end
      BY <2>5 DEF chk_addr_valid
    <3> QED BY <2>1, <2>2, <3>1 DEF Within
  <2> QED BY <2>3, <2>4, <2>5 DEF L
<1> QED BY <1>1, InvHolds, PTL
==============================================================================
