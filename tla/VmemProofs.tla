----------------------------- MODULE VmemProofs -----------------------------
(***************************************************************************)
(* Proofs about module Vmem, for any number of processes, pages, frames    *)
(* and values, and whatever the TLB keeps: type correctness, the coverage  *)
(* of mappings by reference counts, and what a stale TLB entry may grant.  *)
(***************************************************************************)
EXTENDS Vmem, FiniteSetTheorems, TLAPS

(***************************************************************************)
(* The inductive invariant.  Counts alone do not carry it: the fault       *)
(* handler looks at the entry in memory after the hardware looked at the   *)
(* one in the TLB, so an entry in the TLB must have one behind it.         *)
(***************************************************************************)
TlbBacked == \A v \in Pages : tlb[v] # NoPte => pte[cur][v] # NoPte
NothingKept == ~caches => tlb = Flushed

Inv == TypeOK /\ CountsCover /\ WritesStayHome /\ TlbBacked /\ NothingKept

(***************************************************************************)
(* Sets and cardinalities.                                                 *)
(***************************************************************************)

(* The text fits wherever there are frames enough for it. *)
LEMMA PlacedFits ==
    ASSUME NEW fs, IsFiniteSet(fs), Cardinality(Text) <= Cardinality(fs)
    PROVE  Placed(fs) \in Injection(Text, fs)
<1> DEFINE n == Cardinality(Text)
<1>1. IsFiniteSet(Text)
  BY VmemAssumption, FS_Subset DEF Pages
<1>2. n \in Nat /\ Cardinality(fs) \in Nat
  BY <1>1, FS_CardinalityType
<1>3. IsFiniteSet(1 .. n) /\ Cardinality(1 .. n) = n
  BY <1>2, FS_Interval
<1>4. PICK a : a \in Bijection(Text, 1 .. n)
  BY <1>1, <1>3, FS_SameCardinalityBij DEF ExistsBijection
<1>5. PICK b : b \in Bijection(1 .. Cardinality(fs), fs)
  BY FS_CardinalityType DEF ExistsBijection
<1> DEFINE m == [t \in Text |-> b[a[t]]]
<1>6. a \in [Text -> 1 .. n] /\ \A s, t \in Text : a[s] = a[t] => s = t
  BY <1>4 DEF Bijection, Injection, IsInjective
<1>7. /\ b \in [1 .. Cardinality(fs) -> fs]
      /\ \A j, k \in 1 .. Cardinality(fs) : b[j] = b[k] => j = k
  BY <1>5 DEF Bijection, Injection, IsInjective
<1>8. \A t \in Text : a[t] \in 1 .. Cardinality(fs)
  BY <1>2, <1>6
<1>9. m \in [Text -> fs]
  BY <1>7, <1>8
<1>10. \A s, t \in Text : m[s] = m[t] => s = t
  BY <1>6, <1>7, <1>8
<1>11. m \in Injection(Text, fs)
  BY <1>9, <1>10 DEF Injection, IsInjective
<1> QED BY <1>11 DEF Placed

(* Mappings are finitely many, and fewer mappings do not need more count. *)
LEMMA MappingsFinite ==
    ASSUME NEW S \in SUBSET (Procs \X Pages)
    PROVE  /\ IsFiniteSet(S) /\ Cardinality(S) \in Nat
           /\ \A R \in SUBSET S : Cardinality(R) <= Cardinality(S)
<1>1. IsFiniteSet(Procs \X Pages)
  BY VmemAssumption, FS_Product
<1>2. IsFiniteSet(S)
  BY <1>1, FS_Subset
<1> QED BY <1>2, FS_Subset, FS_CardinalityType

LEMMA PagesFinite ==
    ASSUME NEW S \in SUBSET Pages
    PROVE  IsFiniteSet(S) /\ Cardinality(S) \in Nat
BY VmemAssumption, FS_Subset, FS_CardinalityType

(* No process maps a frame that has not been granted. *)
LEMMA FreshUnmapped ==
    ASSUME Inv, NEW f \in Frames, refcnt[f] = 0
    PROVE  Mapping(f) = {}
<1>1. Cardinality(Mapping(f)) <= 0
  BY DEF Inv, CountsCover
<1>2. Mapping(f) \in SUBSET (Procs \X Pages)
  BY DEF Mapping
<1>3. IsFiniteSet(Mapping(f)) /\ Cardinality(Mapping(f)) \in Nat
  BY <1>2, MappingsFinite
<1> QED BY <1>1, <1>3, FS_EmptySet

LEMMA NextFreshFresh ==
    ASSUME Fresh # {}
    PROVE  NextFresh \in Frames /\ refcnt[NextFresh] = 0
<1>1. \E f \in Fresh : TRUE
  OBVIOUS
<1>2. NextFresh \in Fresh
  BY <1>1 DEF NextFresh
<1> QED BY <1>2 DEF Fresh

(* What an entry is. *)
LEMMA Entries ==
    /\ NoPte \in Ptes /\ NoPte.frame = -1 /\ -1 \notin Frames
    /\ \A e \in Ptes : e # NoPte => /\ e \in [frame : Frames, ro : BOOLEAN]
                                    /\ e.frame \in Frames /\ e.ro \in BOOLEAN
    /\ \A e \in Ptes : e.frame \in Frames => e # NoPte
    /\ \A f \in Frames, b \in BOOLEAN :
         /\ [frame |-> f, ro |-> b] \in Ptes
         /\ [frame |-> f, ro |-> b] # NoPte
    /\ \A e \in Ptes : [e EXCEPT !.ro = TRUE] \in Ptes
    /\ \A e \in Ptes : [e EXCEPT !.ro = TRUE].frame = e.frame
    /\ \A e \in Ptes : [e EXCEPT !.ro = TRUE].ro
<1>1. -1 \notin Frames
  BY VmemAssumption
<1>2. NoPte \in Ptes /\ NoPte.frame = -1
  BY DEF NoPte, Ptes
<1>3. ASSUME NEW e \in Ptes, e # NoPte
      PROVE  e \in [frame : Frames, ro : BOOLEAN]
  BY <1>3 DEF Ptes
<1>4. ASSUME NEW e \in Ptes
      PROVE  /\ [e EXCEPT !.ro = TRUE] \in Ptes
             /\ [e EXCEPT !.ro = TRUE].frame = e.frame
             /\ [e EXCEPT !.ro = TRUE].ro
  <2>1. CASE e = NoPte
    <3>1. NoPte \in [frame : {-1}, ro : {TRUE}]
      BY DEF NoPte
    <3>2. \A n \in [frame : {-1}, ro : {TRUE}] :
             [n EXCEPT !.ro = TRUE] = n /\ n.ro
      OBVIOUS
    <3> QED BY <2>1, <3>1, <3>2, <1>2
  <2>2. CASE e \in [frame : Frames, ro : BOOLEAN]
    BY <2>2 DEF Ptes
  <2> QED BY <1>4, <2>1, <2>2 DEF Ptes
<1>5. ASSUME NEW f \in Frames, NEW b \in BOOLEAN
      PROVE  [frame |-> f, ro |-> b] \in Ptes /\ [frame |-> f, ro |-> b] # NoPte
  <2>1. [frame |-> f, ro |-> b].frame # NoPte.frame
    BY <1>1, <1>2
  <2> QED BY <2>1 DEF Ptes
<1> QED BY <1>1, <1>2, <1>3, <1>4, <1>5

(* The frame an access would use, and the one the handler looks at. *)
LEMMA EntryIs ==
    ASSUME Inv, NEW v \in Pages
    PROVE  /\ Entry(v) \in Ptes /\ pte[cur][v] \in Ptes /\ tlb[v] \in Ptes
           /\ Entry(v) # NoPte => pte[cur][v] # NoPte
           /\ Entry(v) = NoPte => pte[cur][v] = NoPte /\ tlb[v] = NoPte
           /\ Entry(v) # tlb[v] => tlb[v] = NoPte
<1>1. cur \in Procs /\ pte[cur][v] \in Ptes /\ tlb[v] \in Ptes
  BY DEF Inv, TypeOK
<1>2. tlb[v] # NoPte => pte[cur][v] # NoPte
  BY DEF Inv, TlbBacked
<1> QED BY <1>1, <1>2 DEF Entry

(***************************************************************************)
(* The invariant holds at first.                                           *)
(***************************************************************************)
LEMMA RangeIn ==
    ASSUME NEW fs, NEW m \in Injection(Text, fs)
    PROVE  /\ m \in [Text -> fs]
           /\ Range(m) \subseteq fs
           /\ \A v \in Text : m[v] \in Range(m)
           /\ \A v, w \in Text : m[v] = m[w] => v = w
BY DEF Injection, IsInjective, Range

LEMMA AtFirst == Init => Inv
<1> SUFFICES ASSUME Init PROVE Inv
  OBVIOUS
<1> DEFINE m == Placed(Frames)
<1>1. m \in Injection(Text, Frames)
  BY VmemAssumption, PlacedFits
<1> HIDE DEF m
<1>2. /\ m \in [Text -> Frames]
      /\ Range(m) \subseteq Frames
      /\ \A v \in Text : m[v] \in Range(m)
      /\ \A v, w \in Text : m[v] = m[w] => v = w
  BY <1>1, RangeIn
<1>3. /\ pte = [p \in Procs |-> IF p = First THEN TextPte(Flushed, m) ELSE Flushed]
      /\ refcnt = Granted([f \in Frames |-> 0], Range(m))
      /\ tlb = Flushed /\ cur = First /\ First \in Procs
  BY VmemAssumption DEF Init, m
<1>4. Flushed \in [Pages -> Ptes] /\ TextPte(Flushed, m) \in [Pages -> Ptes]
  BY <1>2, Entries DEF Flushed, TextPte
<1>5. TypeOK
  <2>1. proc \in [Procs -> {"none", "live", "dead"}] /\ stuck \in BOOLEAN
        /\ want \in [Procs -> Accesses \cup {Nothing}] /\ caches \in TlbCaches
    BY DEF Init
  <2>2. pte \in [Procs -> [Pages -> Ptes]] /\ tlb \in [Pages -> Ptes]
    BY <1>3, <1>4
  <2>3. refcnt \in [Frames -> Nat]
    BY <1>3 DEF Granted
  <2>4. content \in [Frames -> Values]
    BY VmemAssumption DEF Init
  <2> QED BY <1>3, <2>1, <2>2, <2>3, <2>4 DEF TypeOK
<1>6. ASSUME NEW r \in Procs, NEW v \in Pages, pte[r][v].frame \in Frames
      PROVE  r = First /\ v \in Text /\ pte[r][v].frame = m[v]
  <2>1. Flushed[v].frame \notin Frames
    BY Entries DEF Flushed
  <2>2. r = First
    BY <1>3, <1>6, <2>1
  <2>3. pte[r][v] = TextPte(Flushed, m)[v]
    BY <1>3, <2>2
  <2> QED BY <1>6, <2>1, <2>2, <2>3 DEF TextPte
<1>7. ASSUME NEW f \in Frames
      PROVE  /\ Cardinality(Mapping(f)) <= refcnt[f]
             /\ \A a, b \in Mapping(f) : a = b
  <2>1. \A a, b \in Mapping(f) : a = b
    BY <1>2, <1>6, <1>7 DEF Mapping
  <2>2. CASE Mapping(f) = {}
    BY <1>3, <2>1, <2>2, FS_EmptySet DEF Granted
  <2>3. CASE Mapping(f) # {}
    <3>1. PICK a \in Mapping(f) : TRUE
      BY <2>3
    <3>2. Mapping(f) = {a}
      BY <2>1, <3>1
    <3>3. refcnt[f] = 1
      BY <1>2, <1>3, <1>6, <3>1 DEF Mapping, Granted
    <3> QED BY <2>1, <3>2, <3>3, FS_Singleton
  <2> QED BY <2>2, <2>3
<1>8. CountsCover
  BY <1>7 DEF CountsCover
<1>9. WritesStayHome /\ TlbBacked /\ NothingKept
  BY <1>3 DEF WritesStayHome, TlbBacked, NothingKept, Flushed
<1> QED BY <1>5, <1>8, <1>9 DEF Inv

(***************************************************************************)
(* Every step keeps it.                                                    *)
(***************************************************************************)

(* Counts and entries that nobody touches still agree. *)
LEMMA CountsStay == Inv /\ UNCHANGED <<pte, refcnt>> => CountsCover'
BY DEF Inv, CountsCover, Mapping

(* So do page tables and the TLB of the same process. *)
LEMMA TablesStay ==
    Inv /\ UNCHANGED <<cur, pte, tlb, refcnt, caches>>
        => CountsCover' /\ WritesStayHome' /\ TlbBacked' /\ NothingKept'
BY CountsStay
   DEF Inv, WritesStayHome, TlbBacked, NothingKept, Flushed

LEMMA Flushes ==
    tlb' = Flushed => WritesStayHome' /\ TlbBacked' /\ NothingKept'
BY DEF WritesStayHome, TlbBacked, NothingKept, Flushed

LEMMA StartStep ==
    ASSUME Inv, NEW p \in Procs, NEW v \in Pages, NEW x \in Kinds, Start(p, v, x)
    PROVE  Inv'
<1>1. <<v, x>> \in Accesses
  BY DEF Accesses
<1>2. TypeOK'
  BY <1>1 DEF Inv, TypeOK, Start
<1> QED BY <1>2, TablesStay DEF Inv, Start

LEMMA AccessStep ==
    ASSUME Inv, NEW p \in Procs, NEW v \in Pages, NEW x \in Kinds, Access(p, v, x)
    PROVE  Inv'
<1>1. x = Read \/ x \in Values
  BY DEF Kinds
<1>2. content' \in [Frames -> Values]
  BY <1>1 DEF Access, Inv, TypeOK
<1>3. TypeOK'
  BY <1>2 DEF Inv, TypeOK, Access
<1> QED BY <1>3, TablesStay DEF Inv, Access

(* A frame mapped for the first time, at a page that had none. *)
LEMMA DemandPageStep ==
    ASSUME Inv, NEW p \in Procs, NEW v \in Pages, NEW x \in Kinds, DemandPage(p, v, x)
    PROVE  Inv'
<1> DEFINE g == NextFresh
           e == [frame |-> g, ro |-> v \notin Data]
<1>1. g \in Frames /\ refcnt[g] = 0
  BY NextFreshFresh DEF DemandPage
<1>2. Mapping(g) = {}
  BY <1>1, FreshUnmapped
<1> HIDE DEF g
<1>3. e \in Ptes /\ e # NoPte /\ e.frame = g
  BY <1>1, Entries
<1>4. cur = p /\ pte[p][v] = NoPte /\ tlb[v] = NoPte
  BY EntryIs DEF DemandPage, Accessing, Running
<1>5. /\ pte' = [pte EXCEPT ![p][v] = e]
      /\ refcnt' = Granted(refcnt, {g})
      /\ content' = Zeroed({g})
      /\ UNCHANGED <<proc, cur, tlb, want, stuck, caches>>
  BY DEF DemandPage, g
<1> HIDE DEF e
<1>6. \A r \in Procs, w \in Pages :
        pte'[r][w] = IF r = p /\ w = v THEN e ELSE pte[r][w]
  BY <1>5 DEF Inv, TypeOK
<1>7. TypeOK'
  <2>1. pte' \in [Procs -> [Pages -> Ptes]]
    BY <1>3, <1>5 DEF Inv, TypeOK
  <2>2. refcnt' \in [Frames -> Nat]
    BY <1>5 DEF Granted, Inv, TypeOK
  <2>3. content' \in [Frames -> Values]
    BY <1>5, VmemAssumption DEF Zeroed, Inv, TypeOK
  <2> QED BY <1>5, <2>1, <2>2, <2>3 DEF Inv, TypeOK
<1>8. CountsCover'
  <2> SUFFICES ASSUME NEW f \in Frames
               PROVE  /\ Cardinality(Mapping(f)') <= refcnt'[f]
                      /\ \A m, n \in Mapping(f)' : m # n => pte'[m[1]][m[2]].ro
    BY DEF CountsCover
  <2>1. CASE f = g
    <3>1. Mapping(f)' = {<<p, v>>}
      BY <1>2, <1>3, <1>6, <2>1 DEF Mapping
    <3>2. refcnt'[f] = 1
      BY <1>5, <2>1 DEF Granted
    <3>3. Cardinality(Mapping(f)') = 1
      BY <3>1, FS_Singleton
    <3>4. \A m, n \in Mapping(f)' : m = n
      BY <3>1
    <3> QED BY <3>2, <3>3, <3>4
  <2>2. CASE f # g
    <3>1. <<p, v>> \notin Mapping(f) /\ pte[p][v].frame # f
      BY <1>4, Entries DEF Mapping
    <3>2. Mapping(f)' = Mapping(f)
      BY <1>3, <1>6, <2>2, <3>1 DEF Mapping
    <3>3. refcnt'[f] = refcnt[f]
      BY <1>5, <2>2 DEF Granted
    <3>4. \A m \in Mapping(f) : pte'[m[1]][m[2]] = pte[m[1]][m[2]]
      BY <1>6, <3>1 DEF Mapping
    <3> QED BY <3>2, <3>3, <3>4 DEF Inv, CountsCover
  <2> QED BY <2>1, <2>2
<1>9. WritesStayHome' /\ TlbBacked' /\ NothingKept'
  BY <1>4, <1>5, <1>6 DEF Inv, TypeOK, WritesStayHome, TlbBacked, NothingKept, Flushed
<1> QED BY <1>7, <1>8, <1>9 DEF Inv

LEMMA SegFaultStep ==
    ASSUME Inv, NEW p \in Procs, NEW v \in Pages, NEW x \in Kinds, SegFault(p, v, x)
    PROVE  Inv'
<1>1. TypeOK'
  BY DEF Inv, TypeOK, SegFault
<1> QED BY <1>1, TablesStay DEF Inv, SegFault

(* Where the handler of a write fault stands. *)
LEMMA WriteFaultAt ==
    ASSUME Inv, NEW p \in Procs, NEW v \in Pages, NEW x \in Kinds, WriteFault(p, v, x)
    PROVE  /\ cur = p /\ pte[p][v] \in [frame : Frames, ro : BOOLEAN]
           /\ pte[p][v].frame \in Frames /\ pte[p][v] # NoPte
           /\ tlb[v] # NoPte => tlb[v].ro
           /\ <<p, v>> \in Mapping(pte[p][v].frame)
<1>1. cur = p /\ Entry(v) # NoPte /\ Entry(v).ro
  BY DEF WriteFault, Accessing, Running
<1>2. pte[p][v] # NoPte /\ pte[p][v] \in Ptes
  BY <1>1, EntryIs
<1> QED BY <1>1, <1>2, EntryIs, Entries DEF Mapping

(* The only mapping of its frame becomes writable. *)
LEMMA TakeOverStep ==
    ASSUME Inv, NEW p \in Procs, NEW v \in Pages, NEW x \in Kinds, TakeOver(p, v, x)
    PROVE  Inv'
<1> DEFINE f == pte[p][v].frame
<1>1. WriteFault(p, v, x) /\ refcnt[f] = 1
      /\ pte' = [pte EXCEPT ![p][v].ro = FALSE]
      /\ UNCHANGED <<proc, cur, tlb, refcnt, content, want, stuck, caches>>
  BY DEF TakeOver, Mine, Taken
<1>2. /\ cur = p /\ pte[p][v] \in [frame : Frames, ro : BOOLEAN]
      /\ f \in Frames /\ pte[p][v] # NoPte
      /\ tlb[v] # NoPte => tlb[v].ro
      /\ <<p, v>> \in Mapping(f)
  BY <1>1, WriteFaultAt
<1>3. \A r \in Procs, w \in Pages :
        pte'[r][w] = IF r = p /\ w = v THEN [frame |-> f, ro |-> FALSE] ELSE pte[r][w]
  <2>1. ASSUME NEW e \in [frame : Frames, ro : BOOLEAN]
        PROVE  [e EXCEPT !.ro = FALSE] = [frame |-> e.frame, ro |-> FALSE]
    <3>1. \A d \in [frame : Frames, ro : BOOLEAN] :
             d.ro = FALSE /\ d.frame = e.frame => d = [frame |-> e.frame, ro |-> FALSE]
      OBVIOUS
    <3>2. /\ [e EXCEPT !.ro = FALSE] \in [frame : Frames, ro : BOOLEAN]
          /\ [e EXCEPT !.ro = FALSE].frame = e.frame
          /\ [e EXCEPT !.ro = FALSE].ro = FALSE
      OBVIOUS
    <3> QED BY <3>1, <3>2
  <2>2. [pte[p][v] EXCEPT !.ro = FALSE] = [frame |-> f, ro |-> FALSE]
    BY <1>2, <2>1
  <2>3. pte' = [pte EXCEPT ![p] = [pte[p] EXCEPT ![v] = [pte[p][v] EXCEPT !.ro = FALSE]]]
    BY <1>1
  <2> HIDE DEF f
  <2>4. pte' = [pte EXCEPT ![p] = [pte[p] EXCEPT ![v] = [frame |-> f, ro |-> FALSE]]]
    BY <2>2, <2>3
  <2> QED BY <2>4 DEF Inv, TypeOK
<1>4. [frame |-> f, ro |-> FALSE] \in Ptes /\ [frame |-> f, ro |-> FALSE] # NoPte
  BY <1>2, Entries
<1>5. TypeOK'
  <2>1. pte' \in [Procs -> [Pages -> Ptes]]
    BY <1>1, <1>2, <1>3, <1>4 DEF Inv, TypeOK
  <2> QED BY <1>1, <2>1 DEF Inv, TypeOK
<1>6. Mapping(f) = {<<p, v>>}
  <2>1. Mapping(f) \in SUBSET (Procs \X Pages)
    BY DEF Mapping
  <2>2. IsFiniteSet(Mapping(f)) /\ Cardinality(Mapping(f)) \in Nat
    BY <2>1, MappingsFinite
  <2>3. Cardinality(Mapping(f)) <= 1
    BY <1>1, <1>2 DEF Inv, CountsCover
  <2>4. Cardinality(Mapping(f)) # 0
    BY <1>2, <2>2, FS_EmptySet
  <2>5. Cardinality(Mapping(f)) = 1
    BY <2>2, <2>3, <2>4
  <2> QED BY <1>2, <2>2, <2>5, FS_Singleton
<1> HIDE DEF f
<1>7. CountsCover'
  <2> SUFFICES ASSUME NEW g \in Frames
               PROVE  /\ Cardinality(Mapping(g)') <= refcnt'[g]
                      /\ \A m, n \in Mapping(g)' : m # n => pte'[m[1]][m[2]].ro
    BY DEF CountsCover
  <2>1. Mapping(g)' = Mapping(g)
    BY <1>3, <1>6 DEF Mapping, f
  <2>2. \A m \in Mapping(g) : m # <<p, v>> => pte'[m[1]][m[2]] = pte[m[1]][m[2]]
    BY <1>3 DEF Mapping
  <2>3. \A m, n \in Mapping(g) : m = <<p, v>> => n = m
    <3>1. <<p, v>> \in Mapping(g) => g = f
      BY DEF Mapping, f
    <3> QED BY <1>6, <3>1
  <2>4. /\ Cardinality(Mapping(g)) <= refcnt[g]
        /\ \A m, n \in Mapping(g) : m # n => pte[m[1]][m[2]].ro
    BY DEF Inv, CountsCover
  <2>5. refcnt'[g] = refcnt[g]
    BY <1>1
  <2> QED BY <2>1, <2>2, <2>3, <2>4, <2>5
<1>8. WritesStayHome' /\ TlbBacked' /\ NothingKept'
  BY <1>1, <1>2, <1>3, <1>4
     DEF Inv, TypeOK, WritesStayHome, TlbBacked, NothingKept, Flushed, f
<1> QED BY <1>5, <1>7, <1>8 DEF Inv

(* One mapping moves from a shared frame to one of its own. *)
LEMMA CopyOnWriteStep ==
    ASSUME Inv, NEW p \in Procs, NEW v \in Pages, NEW x \in Kinds, CopyOnWrite(p, v, x)
    PROVE  Inv'
<1> DEFINE f == pte[p][v].frame
           g == NextFresh
           e == [frame |-> g, ro |-> FALSE]
<1>1. WriteFault(p, v, x) /\ Fresh # {}
      /\ refcnt' = [refcnt EXCEPT ![f] = @ - 1, ![g] = 1]
      /\ content' = [content EXCEPT ![g] = content[f]]
      /\ pte' = [pte EXCEPT ![p][v] = e]
      /\ UNCHANGED <<proc, cur, tlb, want, stuck, caches>>
  BY DEF CopyOnWrite, Copied
<1>2. /\ cur = p /\ f \in Frames /\ pte[p][v] # NoPte
      /\ tlb[v] # NoPte => tlb[v].ro
      /\ <<p, v>> \in Mapping(f)
  BY <1>1, WriteFaultAt
<1>3. g \in Frames /\ refcnt[g] = 0
  BY <1>1, NextFreshFresh
<1>4. Mapping(g) = {}
  BY <1>3, FreshUnmapped
<1> HIDE DEF g
<1>5. e \in Ptes /\ e # NoPte /\ e.frame = g
  BY <1>3, Entries
<1>6. g # f
  BY <1>2, <1>4
<1> HIDE DEF e, f
<1>7. \A r \in Procs, w \in Pages :
        pte'[r][w] = IF r = p /\ w = v THEN e ELSE pte[r][w]
  BY <1>1 DEF Inv, TypeOK
<1>8. ASSUME NEW h \in Frames
      PROVE  /\ Mapping(h) \in SUBSET (Procs \X Pages)
             /\ IsFiniteSet(Mapping(h)) /\ Cardinality(Mapping(h)) \in Nat
             /\ Cardinality(Mapping(h)) <= refcnt[h] /\ refcnt[h] \in Nat
             /\ \A m, n \in Mapping(h) : m # n => pte[m[1]][m[2]].ro
  <2>1. Mapping(h) \in SUBSET (Procs \X Pages)
    BY DEF Mapping
  <2> QED BY <2>1, MappingsFinite DEF Inv, CountsCover, TypeOK
<1>9. /\ IsFiniteSet(Mapping(f) \ {<<p, v>>})
      /\ Cardinality(Mapping(f) \ {<<p, v>>}) = Cardinality(Mapping(f)) - 1
      /\ Cardinality(Mapping(f)) >= 1 /\ refcnt[f] >= 1
  <2>1. IsFiniteSet(Mapping(f))
    BY <1>2, <1>8
  <2>2. /\ IsFiniteSet(Mapping(f) \ {<<p, v>>})
        /\ Cardinality(Mapping(f) \ {<<p, v>>}) = Cardinality(Mapping(f)) - 1
    BY <1>2, <2>1, FS_RemoveElement
  <2>3. Cardinality(Mapping(f)) # 0
    BY <1>2, <2>1, FS_EmptySet
  <2> QED BY <1>2, <1>8, <2>2, <2>3
<1>10. \A h \in Frames :
         refcnt'[h] = IF h = g THEN 1 ELSE IF h = f THEN refcnt[f] - 1 ELSE refcnt[h]
  BY <1>1, <1>2, <1>3, <1>6 DEF Inv, TypeOK
<1>11. TypeOK'
  <2>1. pte' \in [Procs -> [Pages -> Ptes]]
    BY <1>1, <1>5 DEF Inv, TypeOK
  <2>2. refcnt' \in [Frames -> Nat]
    <3>1. \A h \in Frames : refcnt'[h] \in Nat
      BY <1>2, <1>8, <1>9, <1>10
    <3>2. refcnt' = [h \in Frames |-> refcnt'[h]]
      BY <1>1 DEF Inv, TypeOK
    <3> QED BY <3>1, <3>2
  <2>3. content' \in [Frames -> Values]
    BY <1>1, <1>2 DEF Inv, TypeOK
  <2> QED BY <1>1, <2>1, <2>2, <2>3 DEF Inv, TypeOK
<1>12. CountsCover'
  <2> SUFFICES ASSUME NEW h \in Frames
               PROVE  /\ Cardinality(Mapping(h)') <= refcnt'[h]
                      /\ \A m, n \in Mapping(h)' : m # n => pte'[m[1]][m[2]].ro
    BY DEF CountsCover
  <2>1. CASE h = g
    <3>1. Mapping(h)' = {<<p, v>>}
      BY <1>4, <1>5, <1>7, <2>1 DEF Mapping
    <3>2. Cardinality(Mapping(h)') = 1 /\ refcnt'[h] = 1
      BY <1>10, <2>1, <3>1, FS_Singleton
    <3>3. \A m, n \in Mapping(h)' : m = n
      BY <3>1
    <3> QED BY <3>2, <3>3
  <2>2. CASE h # g
    <3>1. Mapping(h)' = Mapping(h) \ {<<p, v>>}
      BY <1>5, <1>7, <2>2 DEF Mapping
    <3>2. \A m \in Mapping(h)' : pte'[m[1]][m[2]] = pte[m[1]][m[2]]
      BY <1>7, <3>1 DEF Mapping
    <3>3. \A m, n \in Mapping(h)' : m # n => pte'[m[1]][m[2]].ro
      BY <1>8, <3>1, <3>2
    <3>4. CASE h = f
      <4>1. Cardinality(Mapping(h)') = Cardinality(Mapping(f)) - 1
        BY <1>9, <3>1, <3>4
      <4>2. refcnt'[h] = refcnt[f] - 1
        BY <1>10, <2>2, <3>4
      <4> QED BY <1>2, <1>8, <3>3, <4>1, <4>2
    <3>5. CASE h # f
      <4>1. Mapping(h)' = Mapping(h)
        BY <1>2, <3>1, <3>5 DEF Mapping, f
      <4>2. refcnt'[h] = refcnt[h]
        BY <1>10, <2>2, <3>5
      <4> QED BY <1>8, <3>3, <4>1, <4>2
    <3> QED BY <3>4, <3>5
  <2> QED BY <2>1, <2>2
<1>13. WritesStayHome' /\ TlbBacked' /\ NothingKept'
  BY <1>1, <1>2, <1>5, <1>7
     DEF Inv, TypeOK, WritesStayHome, TlbBacked, NothingKept, Flushed
<1> QED BY <1>11, <1>12, <1>13 DEF Inv

LEMMA FallThroughStep ==
    ASSUME Inv, NEW p \in Procs, NEW v \in Pages, NEW x \in Kinds, FallThrough(p, v, x)
    PROVE  Inv'
<1>1. TypeOK'
  BY DEF Inv, TypeOK, FallThrough
<1> QED BY <1>1, TablesStay DEF Inv, FallThrough

(* The child's mappings are new, as many as the parent's of each frame.    *)
LEMMA ForkStep ==
    ASSUME Inv, NEW p \in Procs, NEW c \in Procs, Fork(p, c)
    PROVE  Inv'
<1> DEFINE At(f) == {v \in Pages : pte[p][v].frame = f}
<1>1. /\ cur = p /\ p # c
      /\ proc' = [proc EXCEPT ![c] = "live"]
      /\ pte' = ShareAll(p, c) /\ refcnt' = RefsShared(p)
      /\ UNCHANGED <<cur, tlb, content, want, stuck, caches>>
  BY DEF Fork, Calling, Running, Inv, TypeOK
<1>2. \A v \in Pages : pte[p][v] \in Ptes
  BY DEF Inv, TypeOK
<1>3. \A r \in Procs, v \in Pages :
        pte'[r][v] = IF r \in {p, c} THEN [pte[p][v] EXCEPT !.ro = TRUE] ELSE pte[r][v]
  BY <1>1 DEF ShareAll, Inv, TypeOK
<1>4. \A r \in Procs, v \in Pages :
        /\ r \in {p, c} => pte'[r][v].frame = pte[p][v].frame /\ pte'[r][v].ro
        /\ r \notin {p, c} => pte'[r][v] = pte[r][v]
  <2>1. \A v \in Pages : LET e == [pte[p][v] EXCEPT !.ro = TRUE]
                         IN  e.frame = pte[p][v].frame /\ e.ro
    BY <1>2, Entries
  <2> QED BY <1>3, <2>1
<1>5. \A f \in Frames : /\ IsFiniteSet(At(f)) /\ Cardinality(At(f)) \in Nat
                        /\ refcnt'[f] = refcnt[f] + Cardinality(At(f))
                        /\ refcnt[f] \in Nat
  BY <1>1, PagesFinite DEF RefsShared, Inv, TypeOK
<1>6. TypeOK'
  <2>1. proc' \in [Procs -> {"none", "live", "dead"}]
    BY <1>1 DEF Inv, TypeOK
  <2>2. pte' \in [Procs -> [Pages -> Ptes]]
    <3>1. [v \in Pages |-> [pte[p][v] EXCEPT !.ro = TRUE]] \in [Pages -> Ptes]
      BY <1>2, Entries
    <3> QED BY <1>1, <3>1 DEF ShareAll, Inv, TypeOK
  <2>3. refcnt' \in [Frames -> Nat]
    <3>1. \A f \in Frames : refcnt[f] + Cardinality(At(f)) \in Nat
      BY <1>5
    <3> QED BY <1>1, <3>1 DEF RefsShared
  <2> QED BY <1>1, <2>1, <2>2, <2>3 DEF Inv, TypeOK
<1>7. CountsCover'
  <2> SUFFICES ASSUME NEW f \in Frames
               PROVE  /\ Cardinality(Mapping(f)') <= refcnt'[f]
                      /\ \A m, n \in Mapping(f)' : m # n => pte'[m[1]][m[2]].ro
    BY DEF CountsCover
  <2>1. Mapping(f) \in SUBSET (Procs \X Pages)
    BY DEF Mapping
  <2>2. /\ IsFiniteSet(Mapping(f)) /\ Cardinality(Mapping(f)) \in Nat
        /\ Cardinality(Mapping(f)) <= refcnt[f]
    BY <2>1, MappingsFinite DEF Inv, CountsCover
  <2>3. IsFiniteSet({c}) /\ Cardinality({c}) = 1
    BY FS_Singleton
  <2>4. /\ IsFiniteSet({c} \X At(f))
        /\ Cardinality({c} \X At(f)) = 1 * Cardinality(At(f))
    BY <1>5, <2>3, FS_Product
  <2>5. /\ IsFiniteSet(Mapping(f) \cup ({c} \X At(f)))
        /\ Cardinality(Mapping(f) \cup ({c} \X At(f)))
             <= Cardinality(Mapping(f)) + Cardinality(At(f))
    <3>1. Cardinality(Mapping(f) \cap ({c} \X At(f))) \in Nat
      BY <2>2, FS_Intersection, FS_CardinalityType
    <3>2. /\ IsFiniteSet(Mapping(f) \cup ({c} \X At(f)))
          /\ Cardinality(Mapping(f) \cup ({c} \X At(f)))
               = Cardinality(Mapping(f)) + Cardinality({c} \X At(f))
                 - Cardinality(Mapping(f) \cap ({c} \X At(f)))
      BY <2>2, <2>4, FS_Union
    <3> QED BY <1>5, <2>2, <2>4, <3>1, <3>2
  <2>6. Mapping(f)' \subseteq Mapping(f) \cup ({c} \X At(f))
    BY <1>4 DEF Mapping
  <2>7. Cardinality(Mapping(f)') <= refcnt'[f]
    <3>1. /\ Cardinality(Mapping(f)') <= Cardinality(Mapping(f) \cup ({c} \X At(f)))
          /\ Cardinality(Mapping(f) \cup ({c} \X At(f))) \in Nat
          /\ Cardinality(Mapping(f)') \in Nat
      BY <2>5, <2>6, FS_Subset, FS_CardinalityType
    <3> QED BY <1>5, <2>2, <2>5, <3>1
  <2>8. ASSUME NEW m \in Mapping(f)', NEW n \in Mapping(f)', m # n
        PROVE  pte'[m[1]][m[2]].ro
    <3>1. m \in Procs \X Pages /\ n \in Procs \X Pages
      BY DEF Mapping
    <3>2. CASE m[1] \in {p, c}
      BY <1>4, <3>1, <3>2
    <3>3. CASE m[1] \notin {p, c}
      <4>1. m \in Mapping(f) /\ pte'[m[1]][m[2]] = pte[m[1]][m[2]]
        BY <1>4, <3>1, <3>3 DEF Mapping
      <4>2. PICK k \in Mapping(f) : k # m
        <5>1. CASE n[1] = c
          <6>1. <<p, n[2]>> \in Mapping(f)
            BY <1>4, <3>1, <5>1 DEF Mapping
          <6> QED BY <3>3, <6>1
        <5>2. CASE n[1] # c
          <6>1. n \in Mapping(f)
            BY <1>4, <3>1, <5>2 DEF Mapping
          <6> QED BY <2>8, <6>1
        <5> QED BY <5>1, <5>2
      <4> QED BY <4>1, <4>2 DEF Inv, CountsCover
    <3> QED BY <3>2, <3>3
  <2> QED BY <2>7, <2>8
<1>8. WritesStayHome' /\ TlbBacked' /\ NothingKept'
  <2>1. \A v \in Pages : pte'[p][v].frame = pte[p][v].frame
    BY <1>4
  <2>2. \A v \in Pages : pte[p][v] # NoPte => pte'[p][v] # NoPte
    BY <1>2, <2>1, Entries
  <2> QED BY <1>1, <2>1, <2>2
          DEF Inv, WritesStayHome, TlbBacked, NothingKept, Flushed
<1> QED BY <1>6, <1>7, <1>8 DEF Inv

(* Where exec may go on there are fresh frames for the text. *)
LEMMA FreshFits ==
    ASSUME Cardinality(Fresh) >= Cardinality(Text) + Reserve
    PROVE  IsFiniteSet(Fresh) /\ Cardinality(Text) <= Cardinality(Fresh)
<1>1. IsFiniteSet(Fresh)
  BY VmemAssumption, FS_Subset DEF Fresh
<1>2. Cardinality(Procs) \in Nat
  BY VmemAssumption, FS_CardinalityType
<1>3. Cardinality(Data \cup ReadOnly) \in Nat /\ Cardinality(Text) \in Nat
  BY PagesFinite DEF Pages
<1>4. Reserve \in Nat
  BY <1>2, <1>3 DEF Reserve
<1>5. Cardinality(Fresh) \in Nat
  BY <1>1, FS_CardinalityType
<1> QED BY <1>1, <1>3, <1>4, <1>5

(* The frames of the new text are fresh, one for each page. *)
LEMMA ExecStep ==
    ASSUME Inv, NEW p \in Procs, Exec(p)
    PROVE  Inv'
<1> DEFINE m == Placed(Fresh)
<1>1. /\ Cardinality(Fresh) >= Cardinality(Text) + Reserve
      /\ pte' = [pte EXCEPT ![p] = TextPte(@, m)]
      /\ refcnt' = Granted(refcnt, Range(m))
      /\ content' = Zeroed(Range(m))
      /\ tlb' = Flushed
      /\ UNCHANGED <<proc, cur, want, stuck, caches>>
  BY DEF Exec
<1>2. IsFiniteSet(Fresh) /\ Cardinality(Text) <= Cardinality(Fresh)
  BY <1>1, FreshFits
<1>3. m \in Injection(Text, Fresh)
  BY <1>2, PlacedFits
<1> HIDE DEF m
<1>4. /\ m \in [Text -> Fresh] /\ Range(m) \subseteq Fresh
      /\ \A v \in Text : m[v] \in Range(m)
      /\ \A v, w \in Text : m[v] = m[w] => v = w
  BY <1>3, RangeIn
<1>5. \A v \in Text : m[v] \in Frames /\ refcnt[m[v]] = 0 /\ Mapping(m[v]) = {}
  BY <1>4, FreshUnmapped DEF Fresh
<1>6. \A r \in Procs, v \in Pages :
        pte'[r][v] = IF r = p /\ v \in Text THEN [frame |-> m[v], ro |-> FALSE]
                                            ELSE pte[r][v]
  BY <1>1 DEF TextPte, Inv, TypeOK
<1>7. TypeOK'
  <2>1. TextPte(pte[p], m) \in [Pages -> Ptes]
    <3>1. \A v \in Text : [frame |-> m[v], ro |-> FALSE] \in Ptes
      BY <1>5, Entries
    <3>2. pte[p] \in [Pages -> Ptes]
      BY DEF Inv, TypeOK
    <3> QED BY <3>1, <3>2 DEF TextPte
  <2>2. pte' \in [Procs -> [Pages -> Ptes]]
    BY <1>1, <2>1 DEF Inv, TypeOK
  <2>3. refcnt' \in [Frames -> Nat]
    BY <1>1 DEF Granted, Inv, TypeOK
  <2>4. content' \in [Frames -> Values]
    BY <1>1, VmemAssumption DEF Zeroed, Inv, TypeOK
  <2>5. tlb' \in [Pages -> Ptes]
    BY <1>1, Entries DEF Flushed
  <2> QED BY <1>1, <2>2, <2>3, <2>4, <2>5 DEF Inv, TypeOK
<1>8. CountsCover'
  <2> SUFFICES ASSUME NEW f \in Frames
               PROVE  /\ Cardinality(Mapping(f)') <= refcnt'[f]
                      /\ \A a, b \in Mapping(f)' : a # b => pte'[a[1]][a[2]].ro
    BY DEF CountsCover
  <2>1. CASE f \in Range(m)
    <3>1. Mapping(f) = {} /\ refcnt'[f] = 1
      BY <1>1, <1>4, <2>1, FreshUnmapped DEF Granted, Fresh
    <3>2. PICK v \in Text : m[v] = f
      BY <1>4, <2>1 DEF Range
    <3>3. Mapping(f)' = {<<p, v>>}
      <4>1. \A r \in Procs, w \in Pages : pte'[r][w].frame = f => r = p /\ w = v
        <5> SUFFICES ASSUME NEW r \in Procs, NEW w \in Pages, pte'[r][w].frame = f
                     PROVE  r = p /\ w = v
          OBVIOUS
        <5>1. pte[r][w].frame # f
          <6>1. <<r, w>> \in Procs \X Pages /\ <<r, w>> \notin Mapping(f)
            BY <3>1
          <6> QED BY <6>1 DEF Mapping
        <5>2. r = p /\ w \in Text /\ pte'[r][w] = [frame |-> m[w], ro |-> FALSE]
          BY <1>6, <5>1
        <5>3. m[w] = f
          BY <5>2
        <5> QED BY <1>4, <3>2, <5>2, <5>3
      <4>2. v \in Pages /\ pte'[p][v] = [frame |-> f, ro |-> FALSE]
        BY <1>6, <3>2 DEF Pages
      <4>3. pte'[p][v].frame = f
        BY <4>2
      <4> QED BY <4>1, <4>2, <4>3 DEF Mapping
    <3>4. Cardinality(Mapping(f)') = 1
      BY <3>3, FS_Singleton
    <3>5. \A a, b \in Mapping(f)' : a = b
      BY <3>3
    <3> QED BY <3>1, <3>4, <3>5
  <2>2. CASE f \notin Range(m)
    <3>1. refcnt'[f] = refcnt[f] /\ refcnt[f] \in Nat
      BY <1>1, <2>2 DEF Granted, Inv, TypeOK
    <3>2. ASSUME NEW a \in Mapping(f)'
          PROVE  a \in Mapping(f) /\ pte'[a[1]][a[2]] = pte[a[1]][a[2]]
      <4>1. a \in Procs \X Pages /\ pte'[a[1]][a[2]].frame = f
        BY DEF Mapping
      <4>2. ~(a[1] = p /\ a[2] \in Text)
        <5>1. SUFFICES ASSUME a[1] = p, a[2] \in Text PROVE FALSE
          OBVIOUS
        <5>2. pte'[a[1]][a[2]] = [frame |-> m[a[2]], ro |-> FALSE]
          BY <1>6, <4>1, <5>1
        <5>3. m[a[2]] = f
          BY <4>1, <5>2
        <5> QED BY <1>4, <2>2, <5>1, <5>3
      <4>3. pte'[a[1]][a[2]] = pte[a[1]][a[2]]
        BY <1>6, <4>1, <4>2
      <4> QED BY <4>1, <4>3 DEF Mapping
    <3>3. Mapping(f)' \subseteq Mapping(f)
      BY <3>2
    <3>4. Mapping(f) \in SUBSET (Procs \X Pages)
      BY DEF Mapping
    <3>5. /\ Cardinality(Mapping(f)') <= Cardinality(Mapping(f))
          /\ Cardinality(Mapping(f)') \in Nat /\ Cardinality(Mapping(f)) \in Nat
      BY <3>3, <3>4, MappingsFinite
    <3>6. Cardinality(Mapping(f)) <= refcnt[f]
      BY DEF Inv, CountsCover
    <3>7. Cardinality(Mapping(f)') <= refcnt'[f]
      BY <3>1, <3>5, <3>6
    <3>8. \A a, b \in Mapping(f)' : a # b => pte'[a[1]][a[2]].ro
      BY <3>2 DEF Inv, CountsCover
    <3> QED BY <3>7, <3>8
  <2> QED BY <2>1, <2>2
<1> QED BY <1>1, <1>7, <1>8, Flushes DEF Inv

LEMMA ExitStep ==
    ASSUME Inv, NEW p \in Procs, Exit(p)
    PROVE  Inv'
<1>1. TypeOK'
  BY DEF Inv, TypeOK, Exit
<1> QED BY <1>1, TablesStay DEF Inv, Exit

(* Another process' tables, and nothing kept of the last one's. *)
LEMMA SwitchStep ==
    ASSUME Inv, NEW p \in Procs, Switch(p)
    PROVE  Inv'
<1>1. TypeOK'
  BY Entries DEF Inv, TypeOK, Switch, SwitchFlushed, Flushed
<1>2. tlb' = Flushed
  BY DEF Switch, SwitchFlushed
<1> QED BY <1>1, <1>2, CountsStay, Flushes DEF Inv, Switch

LEMMA WalkStep ==
    ASSUME Inv, NEW v \in Pages, Walk(v)
    PROVE  Inv'
<1>1. cur \in Procs /\ pte[cur][v] \in Ptes
  BY DEF Inv, TypeOK
<1>2. TypeOK'
  BY <1>1 DEF Inv, TypeOK, Walk
<1>3. WritesStayHome' /\ TlbBacked' /\ NothingKept'
  BY DEF Inv, TypeOK, Walk, WritesStayHome, TlbBacked, NothingKept
<1> QED BY <1>2, <1>3, CountsStay DEF Inv, Walk

LEMMA EvictStep ==
    ASSUME Inv, NEW v \in Pages, Evict(v)
    PROVE  Inv'
<1>1. TypeOK'
  BY Entries DEF Inv, TypeOK, Evict
<1>2. WritesStayHome' /\ TlbBacked' /\ NothingKept'
  BY DEF Inv, TypeOK, Evict, WritesStayHome, TlbBacked, NothingKept
<1> QED BY <1>1, <1>2, CountsStay DEF Inv, Evict

LEMMA Steps == Inv /\ [Next]_vars => Inv'
<1> SUFFICES ASSUME Inv, [Next]_vars PROVE Inv'
  OBVIOUS
<1>1. CASE UNCHANGED vars
  <2>1. TypeOK'
    BY <1>1 DEF Inv, TypeOK, vars
  <2> QED BY <1>1, <2>1, TablesStay DEF Inv, vars
<1>2. ASSUME NEW p \in Procs, Instr(p) PROVE Inv'
  BY <1>2, AccessStep, DemandPageStep, SegFaultStep, TakeOverStep, CopyOnWriteStep,
     FallThroughStep DEF Instr
<1>3. ASSUME NEW p \in Procs, Exec(p) \/ Exit(p) \/ Switch(p) PROVE Inv'
  BY <1>3, ExecStep, ExitStep, SwitchStep
<1>4. ASSUME NEW p \in Procs, NEW v \in Pages, NEW x \in Kinds, Start(p, v, x)
      PROVE  Inv'
  BY <1>4, StartStep
<1>5. ASSUME NEW p \in Procs, NEW c \in Procs, Fork(p, c) PROVE Inv'
  BY <1>5, ForkStep
<1>6. ASSUME NEW v \in Pages, Walk(v) \/ Evict(v) PROVE Inv'
  BY <1>6, WalkStep, EvictStep
<1>7. CASE Stopped
  BY <1>1, <1>7 DEF Stopped
<1> QED BY <1>1, <1>2, <1>3, <1>4, <1>5, <1>6, <1>7 DEF Next

(***************************************************************************)
(* The theorems.                                                           *)
(***************************************************************************)

(* The inductive invariant holds in every reachable state. *)
THEOREM InvHolds == Spec => []Inv
BY AtFirst, Steps, PTL DEF Spec

(* Page tables, TLB and counts have their types: no count runs below zero. *)
THEOREM TypeCorrect == Spec => []TypeOK
<1>1. Inv => TypeOK
  BY DEF Inv
<1> QED BY <1>1, InvHolds, PTL

(* A frame counted once has one mapping, a writable page no other mapping, *)
(* and no frame is granted while it is mapped, through any sequence of     *)
(* faults, forks, execs and exits of any number of processes.              *)
THEOREM CountsCovered == Spec => []CountsCover
<1>1. Inv => CountsCover
  BY DEF Inv
<1> QED BY <1>1, InvHolds, PTL

(* Whatever the TLB keeps over a fork, a write it still grants reaches     *)
(* the frame the writer has mapped.                                        *)
THEOREM WritesAtHome == Spec => []WritesStayHome
<1>1. Inv => WritesStayHome
  BY DEF Inv
<1> QED BY <1>1, InvHolds, PTL

(***************************************************************************)
(* The refinement: every process has a memory of its own.  Held is what    *)
(* the processes would read, the refinement mapping of mem.                *)
(***************************************************************************)
Held == [p \in Procs |-> [v \in Pages |->
           IF pte[p][v] = NoPte THEN Zero ELSE content[pte[p][v].frame]]]

(* What a process maps has been granted. *)
LEMMA MappedIs ==
    ASSUME Inv, NEW r \in Procs, NEW w \in Pages, pte[r][w] # NoPte
    PROVE  /\ pte[r][w].frame \in Frames
           /\ <<r, w>> \in Mapping(pte[r][w].frame)
           /\ refcnt[pte[r][w].frame] # 0
<1>1. pte[r][w] \in Ptes
  BY DEF Inv, TypeOK
<1>2. pte[r][w].frame \in Frames
  BY <1>1, Entries
<1>3. <<r, w>> \in Mapping(pte[r][w].frame)
  BY <1>2 DEF Mapping
<1> QED BY <1>2, <1>3, FreshUnmapped

LEMMA HeldAtFirst == Init => Memory!Init
<1> SUFFICES ASSUME Init PROVE Memory!Init
  OBVIOUS
<1>1. Inv
  BY AtFirst
<1>2. \A f \in Frames : refcnt[f] # 0 => content[f] = Zero
  BY DEF Init
<1>3. Held = [p \in Procs |-> [v \in Pages |-> Zero]]
  BY <1>1, <1>2, MappedIs DEF Held
<1>4. (~caches) \in BOOLEAN
  <2>1. caches \in BOOLEAN
    BY <1>1, VmemAssumption DEF Inv, TypeOK
  <2> QED BY <2>1, Zenon
<1> QED BY <1>3, <1>4 DEF Held, Init, Memory!Init

LEMMA StartHeld ==
    ASSUME Inv, NEW p \in Procs, NEW v \in Pages, NEW x \in Kinds, Start(p, v, x)
    PROVE  Memory!Start(p, v, x)
<1>1. Held' = Held
  BY DEF Held, Start
<1> QED BY <1>1 DEF Held, Start, Calling, Running, Memory!Start, Memory!Ready

(* A write that its own entry permits is to a page nobody else maps. *)
LEMMA AccessHeld ==
    ASSUME Inv, ~caches, NEW p \in Procs, NEW v \in Pages, NEW x \in Kinds,
           Access(p, v, x)
    PROVE  Memory!Done(p, v, x)
<1> DEFINE f == pte[p][v].frame
<1>1. /\ cur = p /\ proc[p] = "live" /\ want[p] = <<v, x>>
      /\ pte[p][v] # NoPte /\ (pte[p][v].ro => x = Read)
      /\ content' = IF x = Read THEN content ELSE [content EXCEPT ![f] = x]
      /\ want' = [want EXCEPT ![p] = Nothing]
      /\ UNCHANGED <<proc, pte>>
  BY DEF Access, Accessing, Running, Entry, Inv, NothingKept, Flushed
<1>2. f \in Frames /\ <<p, v>> \in Mapping(f)
  BY <1>1, MappedIs
<1> HIDE DEF f
<1>3. CASE x = Read
  <2>1. Held' = Held
    BY <1>1, <1>3 DEF Held
  <2> QED BY <1>1, <1>3, <2>1 DEF Held, Memory!Done, Memory!Wants
<1>4. CASE x # Read
  <2>1. content' = [content EXCEPT ![f] = x] /\ ~pte[p][v].ro
    BY <1>1, <1>4
  <2>2. ASSUME NEW r \in Procs, NEW w \in Pages, pte[r][w] # NoPte, pte[r][w].frame = f
        PROVE  r = p /\ w = v
    <3>1. <<r, w>> \in Mapping(f)
      BY <2>2, MappedIs
    <3>2. \A m, n \in Mapping(f) : m # n => pte[m[1]][m[2]].ro
      BY <1>2 DEF Inv, CountsCover
    <3>3. <<p, v>> # <<r, w>> => pte[<<p, v>>[1]][<<p, v>>[2]].ro
      BY <1>2, <3>1, <3>2
    <3> QED BY <2>1, <3>3
  <2>3. \A r \in Procs, w \in Pages :
          Held'[r][w] = IF r = p /\ w = v THEN x ELSE Held[r][w]
    <3> SUFFICES ASSUME NEW r \in Procs, NEW w \in Pages
                 PROVE  Held'[r][w] = IF r = p /\ w = v THEN x ELSE Held[r][w]
      OBVIOUS
    <3>1. /\ Held[r][w] = IF pte[r][w] = NoPte THEN Zero ELSE content[pte[r][w].frame]
          /\ Held'[r][w] = IF pte[r][w] = NoPte THEN Zero ELSE content'[pte[r][w].frame]
      BY <1>1 DEF Held
    <3>2. content \in [Frames -> Values]
      BY DEF Inv, TypeOK
    <3>3. CASE r = p /\ w = v
      BY <1>1, <1>2, <2>1, <3>1, <3>2, <3>3 DEF f
    <3>4. CASE ~(r = p /\ w = v)
      BY <2>1, <2>2, <3>1, <3>2, <3>4, MappedIs
    <3> QED BY <3>3, <3>4
  <2>4. Held' = [Held EXCEPT ![p][v] = x]
    <3>1. Held = [r \in Procs |-> [w \in Pages |-> Held[r][w]]]
      BY DEF Held
    <3>2. Held' = [r \in Procs |-> [w \in Pages |-> Held'[r][w]]]
      BY DEF Held
    <3>3. Held' = [r \in Procs |-> [w \in Pages |->
                     IF r = p /\ w = v THEN x ELSE Held[r][w]]]
      BY <2>3, <3>2, Zenon
    <3>4. [Held EXCEPT ![p][v] = x] = [r \in Procs |-> [w \in Pages |->
                     IF r = p /\ w = v THEN x ELSE Held[r][w]]]
      BY <3>1
    <3> QED BY <3>3, <3>4, Zenon
  <2> QED BY <1>1, <1>4, <2>4 DEF Held, Memory!Done, Memory!Wants
<1> QED BY <1>3, <1>4

LEMMA SegFaultHeld ==
    ASSUME Inv, NEW p \in Procs, NEW v \in Pages, NEW x \in Kinds, SegFault(p, v, x)
    PROVE  Memory!Refused(p, v, x)
<1>1. Held' = Held
  BY DEF Held, SegFault
<1> QED BY <1>1 DEF Held, SegFault, WriteFault, Accessing, Running,
                    Memory!Refused, Memory!Wants

(* No fault changes what anybody would read. *)
LEMMA DemandPageHeld ==
    ASSUME Inv, NEW p \in Procs, NEW v \in Pages, NEW x \in Kinds, DemandPage(p, v, x)
    PROVE  UNCHANGED <<proc, Held, want, caches>>
<1> DEFINE g == NextFresh
           e == [frame |-> g, ro |-> v \notin Data]
<1>1. g \in Frames /\ refcnt[g] = 0
  BY NextFreshFresh DEF DemandPage
<1> HIDE DEF g
<1>2. e # NoPte /\ e.frame = g
  BY <1>1, Entries
<1>3. pte[p][v] = NoPte
  BY EntryIs DEF DemandPage, Accessing, Running
<1>4. /\ pte' = [pte EXCEPT ![p][v] = e]
      /\ content' = [f \in Frames |-> IF f \in {g} THEN Zero ELSE content[f]]
      /\ UNCHANGED <<proc, want, caches>>
  BY DEF DemandPage, Zeroed, g
<1> HIDE DEF e
<1>5. \A r \in Procs, w \in Pages :
        pte'[r][w] = IF r = p /\ w = v THEN e ELSE pte[r][w]
  BY <1>4 DEF Inv, TypeOK
<1>6. ASSUME NEW r \in Procs, NEW w \in Pages
      PROVE  (IF pte'[r][w] = NoPte THEN Zero ELSE content'[pte'[r][w].frame])
               = IF pte[r][w] = NoPte THEN Zero ELSE content[pte[r][w].frame]
  <2>1. CASE r = p /\ w = v
    BY <1>1, <1>2, <1>3, <1>4, <1>5, <2>1
  <2>2. CASE ~(r = p /\ w = v)
    <3>1. pte'[r][w] = pte[r][w]
      BY <1>5, <2>2
    <3>2. pte[r][w] # NoPte => pte[r][w].frame \in Frames \ {g}
      BY <1>1, MappedIs
    <3> QED BY <1>4, <3>1, <3>2
  <2> QED BY <2>1, <2>2
<1>7. Held' = Held
  BY <1>6 DEF Held
<1> QED BY <1>4, <1>7

LEMMA TakeOverHeld ==
    ASSUME Inv, NEW p \in Procs, NEW v \in Pages, NEW x \in Kinds, TakeOver(p, v, x)
    PROVE  UNCHANGED <<proc, Held, want, caches>>
<1>1. WriteFault(p, v, x) /\ pte' = [pte EXCEPT ![p][v].ro = FALSE]
      /\ UNCHANGED <<proc, content, want, caches>>
  BY DEF TakeOver, Taken
<1>2. pte[p][v] \in [frame : Frames, ro : BOOLEAN] /\ pte[p][v] # NoPte
  BY <1>1, WriteFaultAt
<1>3. \A r \in Procs, w \in Pages :
        pte'[r][w] = IF r = p /\ w = v THEN [pte[p][v] EXCEPT !.ro = FALSE] ELSE pte[r][w]
  BY <1>1 DEF Inv, TypeOK
<1>4. /\ [pte[p][v] EXCEPT !.ro = FALSE].frame = pte[p][v].frame
      /\ [pte[p][v] EXCEPT !.ro = FALSE] # NoPte
  <2>1. [pte[p][v] EXCEPT !.ro = FALSE].frame = pte[p][v].frame
    BY <1>2
  <2> QED BY <1>2, <2>1, Entries
<1>5. \A r \in Procs, w \in Pages :
        /\ pte'[r][w] = NoPte <=> pte[r][w] = NoPte
        /\ pte'[r][w].frame = pte[r][w].frame
  BY <1>2, <1>3, <1>4
<1>6. Held' = Held
  BY <1>1, <1>5 DEF Held
<1> QED BY <1>1, <1>6

LEMMA CopyOnWriteHeld ==
    ASSUME Inv, NEW p \in Procs, NEW v \in Pages, NEW x \in Kinds, CopyOnWrite(p, v, x)
    PROVE  UNCHANGED <<proc, Held, want, caches>>
<1> DEFINE f == pte[p][v].frame
           g == NextFresh
           e == [frame |-> g, ro |-> FALSE]
<1>1. WriteFault(p, v, x) /\ Fresh # {}
      /\ content' = [content EXCEPT ![g] = content[f]]
      /\ pte' = [pte EXCEPT ![p][v] = e]
      /\ UNCHANGED <<proc, want, caches>>
  BY DEF CopyOnWrite, Copied
<1>2. f \in Frames /\ pte[p][v] # NoPte
  BY <1>1, WriteFaultAt
<1>3. g \in Frames /\ refcnt[g] = 0
  BY <1>1, NextFreshFresh
<1> HIDE DEF g
<1>4. e # NoPte /\ e.frame = g
  BY <1>3, Entries
<1> HIDE DEF e
<1>5. \A r \in Procs, w \in Pages :
        pte'[r][w] = IF r = p /\ w = v THEN e ELSE pte[r][w]
  BY <1>1 DEF Inv, TypeOK
<1>6. content \in [Frames -> Values]
  BY DEF Inv, TypeOK
<1>7. ASSUME NEW r \in Procs, NEW w \in Pages
      PROVE  (IF pte'[r][w] = NoPte THEN Zero ELSE content'[pte'[r][w].frame])
               = IF pte[r][w] = NoPte THEN Zero ELSE content[pte[r][w].frame]
  <2>1. CASE r = p /\ w = v
    BY <1>1, <1>2, <1>3, <1>4, <1>5, <1>6, <2>1
  <2>2. CASE ~(r = p /\ w = v)
    <3>1. pte'[r][w] = pte[r][w]
      BY <1>5, <2>2
    <3>2. pte[r][w] # NoPte => pte[r][w].frame \in Frames \ {g}
      BY <1>3, MappedIs
    <3> QED BY <1>1, <1>6, <3>1, <3>2
  <2> QED BY <2>1, <2>2
<1>8. Held' = Held
  BY <1>7 DEF Held
<1> QED BY <1>1, <1>8

(* The child would read what its parent would. *)
LEMMA ForkHeld ==
    ASSUME Inv, NEW p \in Procs, NEW c \in Procs, Fork(p, c)
    PROVE  Memory!Fork(p, c)
<1> DEFINE shared(v) == [pte[p][v] EXCEPT !.ro = TRUE]
<1>1. /\ proc[p] = "live" /\ want[p] = Nothing /\ proc[c] = "none"
      /\ proc' = [proc EXCEPT ![c] = "live"]
      /\ pte' = ShareAll(p, c) /\ UNCHANGED <<content, want>>
  BY DEF Fork, Calling, Running
<1>2. \A v \in Pages : pte[p][v] \in Ptes
  BY DEF Inv, TypeOK
<1>3. \A v \in Pages : shared(v).frame = pte[p][v].frame /\ shared(v) \in Ptes
  BY <1>2, Entries
<1>4. \A v \in Pages : shared(v) = NoPte <=> pte[p][v] = NoPte
  <2>1. \A e \in Ptes : e = NoPte <=> e.frame \notin Frames
    BY Entries
  <2> QED BY <1>2, <1>3, <2>1
<1>5. \A r \in Procs, v \in Pages :
        pte'[r][v] = IF r \in {p, c} THEN shared(v) ELSE pte[r][v]
  BY <1>1 DEF ShareAll, Inv, TypeOK
<1> HIDE DEF shared
<1>6. \A r \in Procs, w \in Pages :
        Held'[r][w] = IF r = c THEN Held[p][w] ELSE Held[r][w]
  BY <1>1, <1>3, <1>4, <1>5 DEF Held
<1>7. Held' = [Held EXCEPT ![c] = Held[p]]
  <2>1. /\ Held = [r \in Procs |-> [w \in Pages |-> Held[r][w]]]
        /\ Held' = [r \in Procs |-> [w \in Pages |-> Held'[r][w]]]
    BY DEF Held
  <2>2. Held' = [r \in Procs |-> [w \in Pages |->
                   IF r = c THEN Held[p][w] ELSE Held[r][w]]]
    BY <1>6, <2>1, Zenon
  <2>3. [Held EXCEPT ![c] = Held[p]] = [r \in Procs |-> [w \in Pages |->
                   IF r = c THEN Held[p][w] ELSE Held[r][w]]]
    BY <2>1
  <2> QED BY <2>2, <2>3, Zenon
<1> QED BY <1>1, <1>7 DEF Held, Memory!Fork, Memory!Ready

LEMMA ExecHeld ==
    ASSUME Inv, NEW p \in Procs, Exec(p)
    PROVE  Memory!Exec(p)
<1> DEFINE m == Placed(Fresh)
<1>1. /\ proc[p] = "live" /\ want[p] = Nothing
      /\ Cardinality(Fresh) >= Cardinality(Text) + Reserve
      /\ pte' = [pte EXCEPT ![p] = TextPte(@, m)]
      /\ content' = Zeroed(Range(m))
      /\ UNCHANGED <<proc, want>>
  BY DEF Exec, Calling, Running
<1>2. m \in Injection(Text, Fresh)
  BY <1>1, FreshFits, PlacedFits
<1> HIDE DEF m
<1>3. m \in [Text -> Fresh] /\ Range(m) \subseteq Fresh /\ \A v \in Text : m[v] \in Range(m)
  BY <1>2, RangeIn
<1>4. \A f \in Range(m) : f \in Frames /\ refcnt[f] = 0
  BY <1>3 DEF Fresh
<1>5. \A r \in Procs, v \in Pages :
        pte'[r][v] = IF r = p /\ v \in Text THEN [frame |-> m[v], ro |-> FALSE]
                                            ELSE pte[r][v]
  BY <1>1 DEF TextPte, Inv, TypeOK
<1>6. ASSUME NEW r \in Procs, NEW w \in Pages
      PROVE  Held'[r][w] = IF r = p /\ w \in Text THEN Zero ELSE Held[r][w]
  <2>1. /\ Held[r][w] = IF pte[r][w] = NoPte THEN Zero ELSE content[pte[r][w].frame]
        /\ Held'[r][w] = IF pte'[r][w] = NoPte THEN Zero ELSE content'[pte'[r][w].frame]
    BY DEF Held
  <2>2. CASE r = p /\ w \in Text
    <3>1. m[w] \in Range(m) /\ m[w] \in Frames
      BY <1>3, <1>4, <2>2
    <3>2. pte'[r][w] = [frame |-> m[w], ro |-> FALSE]
      BY <1>5, <2>2
    <3>3. pte'[r][w].frame = m[w]
      BY <3>2
    <3>4. content'[m[w]] = Zero
      BY <1>1, <3>1 DEF Zeroed
    <3> QED BY <2>1, <2>2, <3>3, <3>4
  <2>3. CASE ~(r = p /\ w \in Text)
    <3>1. pte'[r][w] = pte[r][w]
      BY <1>5, <2>3
    <3>2. pte[r][w] # NoPte => pte[r][w].frame \in Frames /\ pte[r][w].frame \notin Range(m)
      BY <1>4, MappedIs
    <3> QED BY <1>1, <2>1, <2>3, <3>1, <3>2 DEF Zeroed
  <2> QED BY <2>2, <2>3
<1>7. Held' = [Held EXCEPT ![p] = [v \in Pages |-> IF v \in Text THEN Zero ELSE @[v]]]
  <2>1. /\ Held = [r \in Procs |-> [w \in Pages |-> Held[r][w]]]
        /\ Held' = [r \in Procs |-> [w \in Pages |-> Held'[r][w]]]
    BY DEF Held
  <2>2. Held' = [r \in Procs |-> [w \in Pages |->
                   IF r = p /\ w \in Text THEN Zero ELSE Held[r][w]]]
    BY <1>6, <2>1, Zenon
  <2>3. [Held EXCEPT ![p] = [v \in Pages |-> IF v \in Text THEN Zero ELSE @[v]]]
          = [r \in Procs |-> [w \in Pages |->
               IF r = p /\ w \in Text THEN Zero ELSE Held[r][w]]]
    BY <2>1
  <2> QED BY <2>2, <2>3, Zenon
<1> QED BY <1>1, <1>7 DEF Held, Memory!Exec, Memory!Ready

LEMMA ExitHeld ==
    ASSUME Inv, NEW p \in Procs, Exit(p)
    PROVE  Memory!Exit(p)
<1>1. Held' = Held
  BY DEF Held, Exit
<1> QED BY <1>1 DEF Held, Exit, Calling, Running, Memory!Exit, Memory!Ready

LEMMA Stutters ==
    ASSUME UNCHANGED <<proc, Held, want, caches>>
    PROVE  UNCHANGED Memory!vars
BY DEF Held, Memory!vars

LEMMA StepsHeld ==
    ASSUME Inv, [Next]_vars
    PROVE  [Memory!Next]_(Memory!vars)
<1>1. UNCHANGED caches
  BY DEF Next, vars, Instr, Start, Access, DemandPage, SegFault, TakeOver, CopyOnWrite,
         FallThrough, Fork, Exec, Exit, Switch, Walk, Evict, Stopped
<1>2. CASE caches
  BY <1>1, <1>2 DEF Memory!Next
<1>3. CASE ~caches
  <2>1. CASE UNCHANGED vars
    BY <2>1 DEF Held, vars, Memory!vars
  <2>2. ASSUME NEW p \in Procs, Memory!Step(p) PROVE Memory!Next
    BY <1>1, <1>3, <2>2 DEF Memory!Next
  <2>3. ASSUME NEW p \in Procs, NEW v \in Pages, NEW x \in Kinds,
               Start(p, v, x) \/ Access(p, v, x) \/ SegFault(p, v, x)
        PROVE  Memory!Next
    <3>1. Memory!Step(p)
      BY <1>3, <2>3, StartHeld, AccessHeld, SegFaultHeld DEF Memory!Step
    <3> QED BY <2>2, <3>1
  <2>4. ASSUME NEW p \in Procs, NEW v \in Pages, NEW x \in Kinds,
               DemandPage(p, v, x) \/ TakeOver(p, v, x) \/ CopyOnWrite(p, v, x)
                 \/ FallThrough(p, v, x)
        PROVE  UNCHANGED Memory!vars
    <3>1. CASE FallThrough(p, v, x)
      BY <3>1 DEF FallThrough, Memory!vars
    <3> QED BY <2>4, <3>1, DemandPageHeld, TakeOverHeld, CopyOnWriteHeld, Stutters
  <2>5. ASSUME NEW p \in Procs, Exec(p) \/ Exit(p) PROVE Memory!Next
    <3>1. Memory!Step(p)
      BY <2>5, ExecHeld, ExitHeld DEF Memory!Step
    <3> QED BY <2>2, <3>1
  <2>6. ASSUME NEW p \in Procs, NEW c \in Procs, Fork(p, c) PROVE Memory!Next
    <3>1. Memory!Step(p)
      BY <2>6, ForkHeld DEF Memory!Step
    <3> QED BY <2>2, <3>1
  <2>7. ASSUME NEW p \in Procs, Switch(p) PROVE UNCHANGED Memory!vars
    BY <2>7 DEF Switch, Memory!vars
  <2>8. ASSUME NEW v \in Pages, Walk(v) \/ Evict(v) PROVE UNCHANGED Memory!vars
    BY <2>8 DEF Walk, Evict, Memory!vars
  <2>9. CASE Stopped
    BY <2>1, <2>9 DEF Stopped
  <2> QED BY <2>1, <2>3, <2>4, <2>5, <2>6, <2>7, <2>8, <2>9 DEF Next, Instr
<1> QED BY <1>2, <1>3

(* Sharing, copying on a write and demand paging are invisible: on a       *)
(* machine whose TLB keeps nothing, every process reads and writes a       *)
(* memory of its own.                                                      *)
THEOREM VmemImplements == Spec => Implements
BY HeldAtFirst, StepsHeld, InvHolds, PTL DEF Spec, Implements, Memory!Spec
=============================================================================
