---------------------------- MODULE FilesProofs ----------------------------
(***************************************************************************)
(* Proofs about module Files, for any processes, paths, archive and number *)
(* of calls: who shares a struct file with whom, whatever the kernel       *)
(* allocates from the same pool in between; the tree of vnodes and its     *)
(* mounts; the type of the state; what a path goes on naming; that the     *)
(* descriptors keep the promise of module FileStore; and, for an archive   *)
(* that fits, that the boot unpacks all of it and loses nothing.           *)
(***************************************************************************)
EXTENDS Files, FiniteSetTheorems, SequenceTheorems, TLAPS

(***************************************************************************)
(* The inductive invariant.  Exclusive alone is not inductive: a process   *)
(* is created with an empty table, and a struct file nobody holds is on    *)
(* the free list once at most, or it would be handed out again while held. *)
(***************************************************************************)
IsObject(r) == r = [vnode |-> r.vnode, pos |-> r.pos, free |-> r.free, use |-> r.use]

Tables ==
    /\ fd \in [Procs -> [Fds -> Objs \cup {NULL}]]
    /\ obj = [o \in Objs |-> obj[o]]
    /\ \A o \in Objs : IsObject(obj[o]) /\ obj[o].free \in Int

Unborn == \A p \in Procs \ live : \A d \in Fds : fd[p][d] = NULL

Held(F, o) == {h \in Procs \X Fds : F[h[1]][h[2]] = o}

(* An object that was not freed under a descriptor, held by the set H. *)
Owned(r, H) ==
    /\ r.free <= 1
    /\ H # {} => /\ r.free = 0 /\ r.use = "file"
                 /\ (\E h \in H : H = {h}) \/ (\E p \in Procs : H = {p} \X Stdio)

Inv == Tables /\ Unborn /\ \A o \in Objs \ tainted : Owned(obj[o], Held(fd, o))

(* A set of naturals that is not empty has a least element, Min. *)
Smaller == {ss \in Nat \X Nat : ss[1] < ss[2]}

LEMMA Least ==
    ASSUME NEW T \in SUBSET Nat, T # {}
    PROVE  \E x \in T : \A y \in T : x <= y
<1>1. IsWellFoundedOn(Smaller, Nat)
  BY NatLessThanWellFounded DEF OpToRel, Smaller
<1>2. PICK x \in T : \A y \in T : <<y, x>> \notin Smaller
  BY <1>1, WFMin
<1>3. \A y \in T : ~(y < x)
  BY <1>2 DEF Smaller
<1>4. \A y \in T : x <= y
  BY <1>3
<1> QED BY <1>4

LEMMA MinIn ==
    ASSUME NEW T \in SUBSET Nat, T # {}
    PROVE  Min(T) \in T /\ \A y \in T : Min(T) <= y
BY Least DEF Min

(* Counting up.  Sets stand in for properties. *)
LEMMA CountUp ==
    ASSUME NEW T, 0 \in T, \A n \in Nat : n \in T => n + 1 \in T
    PROVE  \A n \in Nat : n \in T
<1> DEFINE B == {n \in Nat : n \notin T}
<1> SUFFICES ASSUME B # {} PROVE FALSE
  OBVIOUS
<1>1. PICK m \in B : \A y \in B : m <= y
  BY Least
<1>2. m \in Nat /\ m \notin T
  BY <1>1
<1>3. m # 0 /\ m - 1 \in Nat
  BY <1>2
<1>4. m - 1 \in T
  BY <1>1, <1>3
<1> QED BY <1>2, <1>3, <1>4

(* A set of naturals with a bound has a greatest element, Max. *)
LEMMA MaxIn ==
    ASSUME NEW N \in Nat, NEW T \in SUBSET (0 .. N), T # {}
    PROVE  Max(T) \in T
<1> DEFINE R == {N - x : x \in T}
<1>1. R \in SUBSET Nat /\ R # {}
  <2>1. \A x \in T : N - x \in Nat
    OBVIOUS
  <2> QED BY <2>1
<1>2. PICK y \in R : \A z \in R : y <= z
  BY <1>1, Least
<1>3. PICK x \in T : y = N - x
  OBVIOUS
<1>4. \A z \in T : x >= z
  <2>1. SUFFICES ASSUME NEW z \in T PROVE x >= z
    OBVIOUS
  <2>2. N - z \in R
    OBVIOUS
  <2>3. y <= N - z
    BY <1>2, <2>2
  <2> QED BY <1>3, <2>3
<1> QED BY <1>4 DEF Max

(* kmalloc hands out what is on the free list. *)
LEMMA AvailableIsFree ==
    ASSUME NEW o \in Available
    PROVE  o \in Objs /\ obj[o].free > 0
<1>1. CASE o \in Freed
  BY <1>1 DEF Freed
<1>2. CASE o \notin Freed
  <2>1. Unused # {} /\ o = Min(Unused)
    BY <1>2 DEF Available
  <2>2. Unused \subseteq Nat
    BY FilesAssumption DEF Unused, Objs
  <2>3. o \in Unused
    BY <2>1, <2>2, MinIn
  <2> QED BY <2>3 DEF Unused
<1> QED BY <1>1, <1>2

LEMMA NullIsNoObject == NULL \notin Objs
BY FilesAssumption DEF NULL, Objs

LEMMA InitInv == Init => Inv
<1> SUFFICES ASSUME Init PROVE Inv
  OBVIOUS
<1>1. /\ obj = [o \in Objs |-> [vnode |-> NULL, pos |-> 0, free |-> 1, use |-> "none"]]
      /\ fd = [p \in Procs |-> [d \in Fds |-> NULL]]
  BY DEF Init
<1>2. \A p \in Procs, d \in Fds : fd[p][d] = NULL
  BY <1>1
<1>3. Tables
  BY <1>1 DEF Tables, IsObject
<1>4. Unborn
  BY <1>2 DEF Unborn
<1>5. \A o \in Objs : obj[o].free = 1 /\ Held(fd, o) = {}
  BY <1>1, <1>2, NullIsNoObject DEF Held
<1> QED BY <1>3, <1>4, <1>5 DEF Inv, Owned

(* Steps that move no struct file from hand to hand. *)
LEMMA Quiet ==
    ASSUME Inv, fd' = fd, tainted' = tainted, live' = live, obj' = [o \in Objs |-> obj'[o]],
           \A o \in Objs : IsObject(obj'[o]) /\ obj'[o].free = obj[o].free
                                             /\ obj'[o].use = obj[o].use
    PROVE  Inv'
<1>1. Tables' /\ Unborn'
  BY DEF Inv, Tables, Unborn, IsObject
<1>2. \A o \in Objs \ tainted' : Owned(obj'[o], Held(fd', o))
  BY DEF Inv, Owned
<1> QED BY <1>1, <1>2 DEF Inv, Owned, Held

(* The position of a struct file is no one else's. *)
LEMMA PosStep ==
    ASSUME Inv, NEW o \in Objs, NEW q, obj' = [obj EXCEPT ![o].pos = q],
           UNCHANGED <<fd, tainted, live>>
    PROVE  Inv'
<1>1. obj' = [x \in Objs |-> IF x = o THEN [obj[o] EXCEPT !.pos = q] ELSE obj[x]]
  BY DEF Inv, Tables
<1>2. IsObject(obj[o])
  BY DEF Inv, Tables
<1>3. [obj[o] EXCEPT !.pos = q]
        = [vnode |-> obj[o].vnode, pos |-> q, free |-> obj[o].free, use |-> obj[o].use]
  BY <1>2 DEF IsObject
<1>4. obj' = [x \in Objs |-> obj'[x]]
  BY <1>1
<1>5. ASSUME NEW x \in Objs
      PROVE  IsObject(obj'[x]) /\ obj'[x].free = obj[x].free /\ obj'[x].use = obj[x].use
  <2>1. CASE x = o
    BY <2>1, <1>1, <1>3 DEF IsObject
  <2>2. CASE x # o
    BY <2>2, <1>1 DEF Inv, Tables
  <2> QED BY <2>1, <2>2
<1> QED BY <1>4, <1>5, Quiet

(* tmpfs_open's struct file, before some descriptors are set to it. *)
LEMMA OpenedFacts ==
    ASSUME Inv, NEW o \in Available, NEW v, Opened(o, v)
    PROVE  /\ o \in Objs /\ obj' = [x \in Objs |-> obj'[x]]
           /\ \A x \in Objs : IsObject(obj'[x]) /\ obj'[x].free \in Int
           /\ \A x \in Objs \ {o} : obj'[x] = obj[x]
           /\ o \notin tainted => Held(fd, o) = {} /\ obj'[o].free = 0
           /\ obj'[o].use = "file"
<1>1. o \in Objs /\ obj[o].free > 0
  BY AvailableIsFree
<1>2. obj' = [x \in Objs |-> IF x = o
                THEN [vnode |-> v, pos |-> 0, free |-> obj[o].free - 1, use |-> "file"]
                ELSE obj[x]]
  BY DEF Opened, Inv, Tables
<1>3. obj[o].free \in Int
  BY <1>1 DEF Inv, Tables
<1>4. obj'[o] = [vnode |-> v, pos |-> 0, free |-> obj[o].free - 1, use |-> "file"]
  BY <1>1, <1>2
<1>5. ASSUME NEW x \in Objs
      PROVE  IsObject(obj'[x]) /\ obj'[x].free \in Int
  <2>1. CASE x = o
    BY <2>1, <1>3, <1>4 DEF IsObject
  <2>2. CASE x # o
    BY <2>2, <1>2 DEF Inv, Tables
  <2> QED BY <2>1, <2>2
<1>6. ASSUME o \notin tainted
      PROVE  Held(fd, o) = {} /\ obj'[o].free = 0
  <2>1. Owned(obj[o], Held(fd, o))
    BY <1>1, <1>6 DEF Inv
  <2>2. obj'[o].free = obj[o].free - 1
    BY <1>4
  <2> QED BY <1>1, <1>3, <2>1, <2>2 DEF Owned
<1>7. obj'[o].use = "file"
  BY <1>4
<1> QED BY <1>1, <1>2, <1>5, <1>6, <1>7

LEMMA OpenStep ==
    ASSUME Inv, NEW p \in live, p \in Procs, NEW v, EmptyFds(p) # {}, OpenNode(p, v),
           UNCHANGED <<live, tainted>>
    PROVE  Inv'
<1>1. PICK o \in Available : /\ Opened(o, v)
                             /\ fd' = [fd EXCEPT ![p][Min(EmptyFds(p))] = o]
  BY DEF OpenNode
<1> DEFINE k == Min(EmptyFds(p))
<1>2. k \in Fds /\ fd[p][k] = NULL
  <2>1. EmptyFds(p) \subseteq Nat
    BY FilesAssumption DEF EmptyFds, Fds
  <2>2. k \in EmptyFds(p)
    BY <2>1, MinIn
  <2> QED BY <2>2 DEF EmptyFds
<1>3. fd' = [fd EXCEPT ![p][k] = o]
  BY <1>1
<1> HIDE DEF k
<1>4. /\ o \in Objs /\ obj' = [x \in Objs |-> obj'[x]]
      /\ \A x \in Objs : IsObject(obj'[x]) /\ obj'[x].free \in Int
      /\ \A x \in Objs \ {o} : obj'[x] = obj[x]
      /\ o \notin tainted => Held(fd, o) = {} /\ obj'[o].free = 0
      /\ obj'[o].use = "file"
  BY <1>1, OpenedFacts
<1>5. /\ fd' \in [Procs -> [Fds -> Objs \cup {NULL}]]
      /\ fd'[p][k] = o
      /\ \A q \in Procs, d \in Fds : <<q, d>> # <<p, k>> => fd'[q][d] = fd[q][d]
  <2>1. fd' = [q \in Procs |-> IF q = p THEN [fd[p] EXCEPT ![k] = o] ELSE fd[q]]
    BY <1>3 DEF Inv, Tables
  <2>2. fd[p] \in [Fds -> Objs \cup {NULL}]
    BY DEF Inv, Tables
  <2>3. [fd[p] EXCEPT ![k] = o] \in [Fds -> Objs \cup {NULL}]
    BY <1>4, <2>2
  <2>4. fd'[p] = [fd[p] EXCEPT ![k] = o] /\ \A q \in Procs : q # p => fd'[q] = fd[q]
    BY <2>1
  <2>5. fd' \in [Procs -> [Fds -> Objs \cup {NULL}]]
    BY <2>1, <2>3 DEF Inv, Tables
  <2>6. fd'[p][k] = o /\ \A d \in Fds : d # k => fd'[p][d] = fd[p][d]
    BY <1>2, <2>2, <2>4
  <2> QED BY <2>4, <2>5, <2>6
<1>6. Tables'
  BY <1>4, <1>5 DEF Tables
<1>7. Unborn'
  BY <1>5 DEF Inv, Unborn
<1>8. ASSUME NEW x \in Objs \ tainted'
      PROVE  Owned(obj'[x], Held(fd', x))
  <2>1. CASE x = o
    <3>1. Held(fd, o) = {} /\ obj'[o].free = 0
      BY <1>4, <1>8, <2>1
    <3>2. Held(fd', o) = {<<p, k>>}
      <4>1. <<p, k>> \in Held(fd', o)
        BY <1>2, <1>5 DEF Held
      <4>2. ASSUME NEW h \in Procs \X Fds, fd'[h[1]][h[2]] = o
            PROVE  h = <<p, k>>
        <5>1. h = <<h[1], h[2]>> /\ h[1] \in Procs /\ h[2] \in Fds
          OBVIOUS
        <5>2. fd[h[1]][h[2]] # o
          BY <3>1 DEF Held
        <5> QED BY <1>5, <4>2, <5>1, <5>2
      <4> QED BY <4>1, <4>2 DEF Held
    <3> QED BY <1>4, <2>1, <3>1, <3>2 DEF Owned
  <2>2. CASE x # o
    <3>1. Held(fd', x) = Held(fd, x)
      <4>1. ASSUME NEW h \in Procs \X Fds
            PROVE  fd'[h[1]][h[2]] = x <=> fd[h[1]][h[2]] = x
        <5>1. h = <<h[1], h[2]>> /\ h[1] \in Procs /\ h[2] \in Fds
          OBVIOUS
        <5>2. CASE h = <<p, k>>
          BY <5>2, <1>2, <1>5, <1>8, <2>2, NullIsNoObject
        <5>3. CASE h # <<p, k>>
          BY <5>1, <5>3, <1>5
        <5> QED BY <5>2, <5>3
      <4> QED BY <4>1 DEF Held
    <3> QED BY <1>4, <1>8, <2>2, <3>1 DEF Inv
  <2> QED BY <2>1, <2>2
<1> QED BY <1>6, <1>7, <1>8 DEF Inv, Owned, Held

LEMMA CloseStep ==
    ASSUME Inv, NEW p \in Procs, NEW d \in Fds, Close(p, d)
    PROVE  Inv'
<1> DEFINE o == fd[p][d]
<1>1. /\ obj' = [obj EXCEPT ![o].use = "none", ![o].free = @ + 1]
      /\ fd' = [fd EXCEPT ![p][d] = NULL] /\ o # NULL /\ live' = live
      /\ tainted' = IF Holders(o) # {<<p, d>>} THEN tainted \cup {o} ELSE tainted
  BY DEF Close, OpenFile, Cleared
<1>2. o \in Objs
  BY <1>1 DEF Inv, Tables
<1>3. Holders(o) = Held(fd, o)
  BY DEF Holders, Held
<1> HIDE DEF o
<1>4. obj' = [x \in Objs |-> IF x = o
                THEN [obj[o] EXCEPT !.use = "none", !.free = @ + 1] ELSE obj[x]]
  BY <1>1, <1>2 DEF Inv, Tables
<1>5. obj'[o] = [vnode |-> obj[o].vnode, pos |-> obj[o].pos, free |-> obj[o].free + 1, use |-> "none"]
  <2>1. IsObject(obj[o])
    BY <1>2 DEF Inv, Tables
  <2>2. [obj[o] EXCEPT !.use = "none", !.free = @ + 1]
          = [vnode |-> obj[o].vnode, pos |-> obj[o].pos, free |-> obj[o].free + 1, use |-> "none"]
    <3> DEFINE r == obj[o]
               n == r.free + 1
    <3>1. r = [vnode |-> r.vnode, pos |-> r.pos, free |-> r.free, use |-> r.use]
      BY <2>1 DEF IsObject
    <3>2. [r EXCEPT !.use = "none", !.free = @ + 1] = [r EXCEPT !.use = "none", !.free = n]
      OBVIOUS
    <3> HIDE DEF r, n
    <3>a. [r EXCEPT !.use = "none"]
            = [vnode |-> r.vnode, pos |-> r.pos, free |-> r.free, use |-> "none"]
      BY <3>1
    <3>b. [r EXCEPT !.use = "none", !.free = n] = [[r EXCEPT !.use = "none"] EXCEPT !.free = n]
      OBVIOUS
    <3>3. [r EXCEPT !.use = "none", !.free = n]
            = [vnode |-> r.vnode, pos |-> r.pos, free |-> n, use |-> "none"]
      <4> DEFINE r2 == [r EXCEPT !.use = "none"]
                 m == r.free
      <4>1. r2 = [vnode |-> r.vnode, pos |-> r.pos, free |-> m, use |-> "none"]
        BY <3>a
      <4> HIDE DEF r2, m
      <4>2. [r2 EXCEPT !.free = n] = [vnode |-> r.vnode, pos |-> r.pos, free |-> n, use |-> "none"]
        BY <4>1
      <4> QED BY <3>b, <4>2 DEF r2
    <3> QED BY <3>2, <3>3 DEF r, n
  <2> QED BY <1>2, <1>4, <2>2
<1>6. ASSUME NEW x \in Objs
      PROVE  IsObject(obj'[x]) /\ obj'[x].free \in Int
  <2>1. CASE x = o
    <3>1. obj[o].free + 1 \in Int
      BY <1>2 DEF Inv, Tables
    <3> QED BY <2>1, <3>1, <1>5 DEF IsObject
  <2>2. CASE x # o
    BY <2>2, <1>4 DEF Inv, Tables
  <2> QED BY <2>1, <2>2
<1>7. /\ fd' \in [Procs -> [Fds -> Objs \cup {NULL}]]
      /\ fd'[p][d] = NULL
      /\ \A q \in Procs, e \in Fds : <<q, e>> # <<p, d>> => fd'[q][e] = fd[q][e]
  <2>1. fd' = [q \in Procs |-> IF q = p THEN [fd[p] EXCEPT ![d] = NULL] ELSE fd[q]]
    BY <1>1 DEF Inv, Tables
  <2>2. fd[p] \in [Fds -> Objs \cup {NULL}]
    BY DEF Inv, Tables
  <2>3. [fd[p] EXCEPT ![d] = NULL] \in [Fds -> Objs \cup {NULL}]
    BY <2>2
  <2>4. fd'[p] = [fd[p] EXCEPT ![d] = NULL] /\ \A q \in Procs : q # p => fd'[q] = fd[q]
    BY <2>1
  <2>5. fd' \in [Procs -> [Fds -> Objs \cup {NULL}]]
    BY <2>1, <2>3 DEF Inv, Tables
  <2>6. fd'[p][d] = NULL /\ \A e \in Fds : e # d => fd'[p][e] = fd[p][e]
    BY <2>2, <2>4
  <2> QED BY <2>4, <2>5, <2>6
<1>8. Tables'
  BY <1>4, <1>6, <1>7 DEF Tables
<1>9. Unborn'
  BY <1>1, <1>7 DEF Inv, Unborn
<1>10. \A x \in Objs : Held(fd', x) = Held(fd, x) \ {<<p, d>>}
  <2>1. SUFFICES ASSUME NEW x \in Objs, NEW h \in Procs \X Fds
                 PROVE  fd'[h[1]][h[2]] = x <=> fd[h[1]][h[2]] = x /\ h # <<p, d>>
    BY DEF Held
  <2>2. h = <<h[1], h[2]>> /\ h[1] \in Procs /\ h[2] \in Fds
    OBVIOUS
  <2>3. CASE h = <<p, d>>
    BY <2>3, <1>7, NullIsNoObject
  <2>4. CASE h # <<p, d>>
    BY <2>2, <2>4, <1>7
  <2> QED BY <2>3, <2>4
<1>11. ASSUME NEW x \in Objs \ tainted'
       PROVE  Owned(obj'[x], Held(fd', x))
  <2>1. Owned(obj[x], Held(fd, x))
    BY <1>1, <1>11 DEF Inv
  <2>2. CASE x = o
    <3>1. Held(fd, o) = {<<p, d>>}
      BY <1>1, <1>3, <1>11, <2>2
    <3>2. Held(fd', o) = {}
      BY <1>2, <1>10, <3>1
    <3>3. obj[o].free = 0
      BY <2>1, <2>2, <3>1 DEF Owned
    <3>4. obj'[o].free = 1
      BY <1>5, <3>3
    <3> QED BY <2>2, <3>2, <3>4 DEF Owned
  <2>3. CASE x # o
    <3>1. <<p, d>> \notin Held(fd, x)
      BY <2>3 DEF Held, o
    <3>2. Held(fd', x) = Held(fd, x)
      BY <1>10, <1>11, <3>1
    <3>3. obj'[x] = obj[x]
      BY <1>4, <1>11, <2>3
    <3> QED BY <2>1, <3>2, <3>3
  <2> QED BY <2>2, <2>3
<1> QED BY <1>8, <1>9, <1>11 DEF Inv, Owned, Held

LEMMA SpawnStep ==
    ASSUME Inv, NEW p \in Procs, Spawn(p)
    PROVE  Inv'
<1>1. p \notin live /\ live' = live \cup {p} /\ tainted' = tainted
  BY DEF Spawn
<1>2. \A d \in Fds : fd[p][d] = NULL
  BY <1>1 DEF Inv, Unborn
<1>3. CASE get_vnode(<<"dev", "uart">>).ret # OK
  <2>1. obj' = obj /\ fd' = fd
    BY <1>3 DEF Spawn
  <2> QED BY <1>1, <2>1 DEF Inv, Tables, Unborn, Held, Owned, IsObject
<1>4. CASE get_vnode(<<"dev", "uart">>).ret = OK
  <2>1. PICK o \in Available : /\ Opened(o, get_vnode(<<"dev", "uart">>).node)
                               /\ fd' = [fd EXCEPT ![p] = ChildFds(p, o)]
    BY <1>4 DEF Spawn
  <2>2. /\ o \in Objs /\ obj' = [x \in Objs |-> obj'[x]]
        /\ \A x \in Objs : IsObject(obj'[x]) /\ obj'[x].free \in Int
        /\ \A x \in Objs \ {o} : obj'[x] = obj[x]
        /\ o \notin tainted => Held(fd, o) = {} /\ obj'[o].free = 0
        /\ obj'[o].use = "file"
    BY <2>1, OpenedFacts
  <2>3. ChildFds(p, o) = [d \in Fds |-> IF d \in Stdio THEN o ELSE NULL]
    BY DEF ChildFds
  <2>4. Stdio \subseteq Fds
    BY FilesAssumption DEF Stdio, Fds
  <2>5. /\ fd' \in [Procs -> [Fds -> Objs \cup {NULL}]]
        /\ \A d \in Fds : fd'[p][d] = IF d \in Stdio THEN o ELSE NULL
        /\ \A q \in Procs : q # p => fd'[q] = fd[q]
    BY <2>1, <2>2, <2>3 DEF Inv, Tables
  <2>6. Tables'
    BY <2>2, <2>5 DEF Tables
  <2>7. Unborn'
    BY <1>1, <2>5 DEF Inv, Unborn
  <2>8. ASSUME NEW x \in Objs \ tainted'
        PROVE  Owned(obj'[x], Held(fd', x))
    <3>1. CASE x = o
      <4>1. Held(fd, o) = {} /\ obj'[o].free = 0
        BY <1>1, <2>2, <2>8, <3>1
      <4>2. Held(fd', o) = {p} \X Stdio
        <5>1. ASSUME NEW h \in Procs \X Fds
              PROVE  fd'[h[1]][h[2]] = o <=> h[1] = p /\ h[2] \in Stdio
          <6>1. h = <<h[1], h[2]>> /\ h[1] \in Procs /\ h[2] \in Fds
            OBVIOUS
          <6>2. CASE h[1] = p
            BY <2>2, <2>5, <6>1, <6>2, NullIsNoObject
          <6>3. CASE h[1] # p
            <7>1. fd[h[1]][h[2]] # o
              BY <4>1 DEF Held
            <7> QED BY <2>5, <6>1, <6>3, <7>1
          <6> QED BY <6>2, <6>3
        <5>2. \A h : h \in {p} \X Stdio <=> h \in Procs \X Fds /\ h[1] = p /\ h[2] \in Stdio
          BY <2>4
        <5> QED BY <5>1, <5>2 DEF Held
      <4> QED BY <2>2, <3>1, <4>1, <4>2 DEF Owned
    <3>2. CASE x # o
      <4>1. Held(fd', x) = Held(fd, x)
        <5>1. ASSUME NEW h \in Procs \X Fds
              PROVE  fd'[h[1]][h[2]] = x <=> fd[h[1]][h[2]] = x
          <6>1. h = <<h[1], h[2]>> /\ h[1] \in Procs /\ h[2] \in Fds
            OBVIOUS
          <6>2. CASE h[1] = p
            BY <1>2, <2>5, <2>8, <3>2, <6>1, <6>2, NullIsNoObject
          <6>3. CASE h[1] # p
            BY <2>5, <6>1, <6>3
          <6> QED BY <6>2, <6>3
        <5> QED BY <5>1 DEF Held
      <4> QED BY <1>1, <2>2, <2>8, <3>2, <4>1 DEF Inv
    <3> QED BY <3>1, <3>2
  <2> QED BY <2>6, <2>7, <2>8 DEF Inv, Owned, Held
<1> QED BY <1>3, <1>4

LEMMA KernelAllocatesStep ==
    ASSUME Inv, KernelAllocates
    PROVE  Inv'
<1>1. PICK S \in SUBSET Freed : Others(S)
  BY DEF KernelAllocates
<1>2. fd' = fd /\ live' = live /\ tainted' = tainted
  BY DEF KernelAllocates
<1>3. \A o \in S : o \in Objs /\ obj[o].free > 0
  BY DEF Freed
<1>4. obj' = [o \in Objs |-> IF o \in S THEN [obj[o] EXCEPT !.free = @ - 1, !.use = "other"]
                                        ELSE obj[o]]
  BY <1>1 DEF Others
<1>5. \A o \in Objs \ S : obj'[o] = obj[o]
  BY <1>4
<1>6. ASSUME NEW o \in S
      PROVE  IsObject(obj'[o]) /\ obj'[o].free = obj[o].free - 1
  <2> DEFINE r == obj[o]
             m == r.free
             n == m - 1
             r1 == [r EXCEPT !.free = n]
  <2>1. obj'[o] = [r EXCEPT !.free = @ - 1, !.use = "other"]
    BY <1>3, <1>4
  <2>2. obj'[o] = [r1 EXCEPT !.use = "other"]
    BY <2>1
  <2>3. r = [vnode |-> r.vnode, pos |-> r.pos, free |-> m, use |-> r.use]
    BY <1>3 DEF Inv, Tables, IsObject
  <2> HIDE DEF r, n, m
  <2>4. r1 = [vnode |-> r.vnode, pos |-> r.pos, free |-> n, use |-> r.use]
    BY <2>3
  <2> HIDE DEF r1
  <2>5. obj'[o] = [vnode |-> r.vnode, pos |-> r.pos, free |-> n, use |-> "other"]
    BY <2>2, <2>4
  <2> QED BY <2>5 DEF IsObject, n, m, r
<1>7. Tables'
  <2>1. obj' = [o \in Objs |-> obj'[o]]
    BY <1>4
  <2>2. ASSUME NEW o \in Objs
        PROVE  IsObject(obj'[o]) /\ obj'[o].free \in Int
    <3>1. IsObject(obj[o]) /\ obj[o].free \in Int
      BY DEF Inv, Tables
    <3> QED BY <3>1, <1>5, <1>6
  <2> QED BY <1>2, <2>1, <2>2 DEF Inv, Tables
<1>8. Unborn'
  BY <1>2 DEF Inv, Unborn
<1>9. ASSUME NEW o \in Objs \ tainted'
      PROVE  Owned(obj'[o], Held(fd', o))
  <2>1. Owned(obj[o], Held(fd, o)) /\ obj[o].free \in Int
    BY <1>2, <1>9 DEF Inv, Tables
  <2>2. CASE o \in S
    <3>1. Held(fd, o) = {}
      BY <1>3, <2>1, <2>2 DEF Owned
    <3>2. obj'[o].free <= 1
      BY <1>6, <2>1, <2>2 DEF Owned
    <3> QED BY <1>2, <3>1, <3>2 DEF Owned
  <2>3. CASE o \notin S
    BY <1>2, <1>5, <1>9, <2>1, <2>3
  <2> QED BY <2>2, <2>3
<1> QED BY <1>7, <1>8, <1>9 DEF Inv, Owned, Held

(* Everything else leaves struct files and descriptors alone. *)
LEMMA StillStep ==
    ASSUME Inv, UNCHANGED <<obj, fd, live, tainted>>
    PROVE  Inv'
BY DEF Inv, Tables, Unborn, Held, Owned, IsObject

LEMMA NextInv == Inv /\ [Next]_vars => Inv'
<1> SUFFICES ASSUME Inv, [Next]_vars PROVE Inv'
  OBVIOUS
<1>1. CASE BootStep \/ Booted \/ ListRunsAstray
  BY <1>1, StillStep DEF BootStep, Booted, ListRunsAstray, Derails
<1>2. CASE KernelAllocates
  BY <1>2, KernelAllocatesStep
<1>3. ASSUME NEW p \in Procs, Spawn(p) PROVE Inv'
  BY <1>3, SpawnStep
<1>4. ASSUME NEW p \in Procs, BadNumber(p) \/ MountUnknown(p) PROVE Inv'
  BY <1>4, StillStep DEF BadNumber, MountUnknown, Derails
<1>5. ASSUME NEW p \in Procs, NEW path \in Paths, NEW creat \in BOOLEAN, Open(p, path, creat)
      PROVE  Inv'
  <2>1. PICK v : OpenNode(p, v)
    BY <1>5 DEF Open
  <2>2. p \in live /\ EmptyFds(p) # {} /\ UNCHANGED <<live, tainted>>
    BY <1>5 DEF Open, Calling
  <2> QED BY <2>1, <2>2, OpenStep
<1>6. ASSUME NEW p \in Procs, NEW path \in Paths,
             MkdirCall(p, path) \/ Mount(p, path) \/ EmptyComponent(p, path)
      PROVE  Inv'
  BY <1>6, StillStep DEF MkdirCall, Mount, EmptyComponent, Derails
<1>7. ASSUME NEW p \in Procs, NEW d \in Fds, Close(p, d) PROVE Inv'
  BY <1>7, CloseStep
<1>8. ASSUME NEW p \in Procs, NEW d \in Fds, UseDangling(p, d) \/ SeekNotOpen(p, d)
      PROVE  Inv'
  BY <1>8, StillStep DEF UseDangling, SeekNotOpen, Derails
<1>9. ASSUME NEW p \in Procs, NEW d \in Fds,
             (\E s \in Bufs : WriteAstray(p, d, s)) \/ (\E n \in Lens : ReadAstray(p, d, n))
      PROVE  Inv'
  BY <1>9, StillStep DEF WriteAstray, ReadAstray, Derails
<1>10. ASSUME NEW p \in Procs, NEW d \in Fds, fd[p][d] # NULL
       PROVE  fd[p][d] \in Objs
  BY <1>10 DEF Inv, Tables
<1>11. ASSUME NEW p \in Procs, NEW d \in Fds, NEW s \in Bufs, Write(p, d, s) PROVE Inv'
  <2>1. /\ fd[p][d] # NULL /\ UNCHANGED <<fd, tainted, live>>
        /\ obj' = [obj EXCEPT ![fd[p][d]].pos = obj[fd[p][d]].pos + Len(s)]
    BY <1>11 DEF Write, OpenFile
  <2> QED BY <2>1, <1>10, PosStep
<1>12. ASSUME NEW p \in Procs, NEW d \in Fds, NEW n \in Lens, Read(p, d, n) PROVE Inv'
  <2>1. /\ fd[p][d] # NULL /\ UNCHANGED <<fd, tainted, live>>
        /\ obj' = [obj EXCEPT ![fd[p][d]].pos = obj[fd[p][d]].pos + n]
    BY <1>12 DEF Read, OpenFile
  <2> QED BY <2>1, <1>10, PosStep
<1>13. ASSUME NEW p \in Procs, NEW d \in Fds, NEW n \in Offsets, Seek(p, d, n) PROVE Inv'
  <2>1. /\ fd[p][d] # NULL /\ UNCHANGED <<fd, tainted, live>>
        /\ obj' = [obj EXCEPT ![fd[p][d]].pos = n]
    BY <1>13 DEF Seek, OpenFile
  <2> QED BY <2>1, <1>10, PosStep
<1>14. ASSUME NEW p \in Procs, NEW d \in Fds, NEW n \in Offsets, SeekWhence(p, d, n) PROVE Inv'
  <2>1. /\ fd[p][d] # NULL /\ UNCHANGED <<fd, tainted, live>>
        /\ obj' = [obj EXCEPT ![fd[p][d]].pos = n - 1]
    BY <1>14 DEF SeekWhence, OpenFile
  <2> QED BY <2>1, <1>10, PosStep
<1>15. CASE UNCHANGED vars
  BY <1>15, StillStep DEF vars
<1> QED BY <1>1, <1>2, <1>3, <1>4, <1>5, <1>6, <1>7, <1>8, <1>9, <1>11, <1>12, <1>13, <1>14, <1>15
        DEF Next

(* Struct files are shared only among the standard descriptors of one      *)
(* process, and none is free while it is held, except those freed under a  *)
(* descriptor (open_uart_fds, the close of svc_handler, vfs_close).        *)
THEOREM ExclusiveHolds == Spec => []Exclusive
<1>1. ASSUME Inv PROVE Exclusive
  <2>1. SUFFICES ASSUME NEW o \in Objs \ tainted, Holders(o) # {}
                 PROVE  /\ obj[o].free = 0 /\ obj[o].use = "file"
                        /\ \/ Cardinality(Holders(o)) = 1
                           \/ \E p \in Procs : Holders(o) = {p} \X Stdio
    BY DEF Exclusive
  <2>2. Holders(o) = Held(fd, o)
    BY DEF Holders, Held
  <2>3. Owned(obj[o], Holders(o))
    BY <1>1, <2>1, <2>2 DEF Inv
  <2>4. \A h : Cardinality({h}) = 1
    BY FS_Singleton
  <2> QED BY <2>1, <2>3, <2>4 DEF Owned
<1> QED BY <1>1, InitInv, NextInv, PTL DEF Spec

(***************************************************************************)
(* When the running kernel follows a bad pointer.                          *)
(***************************************************************************)
Forward ==
    \A o \in Objs : obj[o].pos \in Int /\ (obj[o].pos < 0 => misuse # {})

(* Misuse is not forgotten. *)
Kept == misuse \subseteq misuse'

(* A new position that is not before the file, or was set by a misuse. *)
LEMMA ForwardPos ==
    ASSUME Inv, Forward, Kept, NEW o \in Objs, NEW q \in Int, obj' = [obj EXCEPT ![o].pos = q],
           q < 0 => misuse' # {}
    PROVE  Forward'
<1>1. \A x \in Objs : x # o => obj'[x] = obj[x]
  BY DEF Inv, Tables
<1>2. obj'[o].pos = q
  <2>1. obj'[o] = [obj[o] EXCEPT !.pos = q]
    BY DEF Inv, Tables
  <2>2. obj[o] = [vnode |-> obj[o].vnode, pos |-> obj[o].pos,
                  free |-> obj[o].free, use |-> obj[o].use]
    BY DEF Inv, Tables, IsObject
  <2>3. [obj[o] EXCEPT !.pos = q].pos = q
    BY <2>2
  <2> QED BY <2>1, <2>3
<1>3. ASSUME NEW x \in Objs
      PROVE  obj'[x].pos \in Int /\ (obj'[x].pos < 0 => misuse' # {})
  <2>1. CASE x = o
    BY <2>1, <1>2
  <2>2. CASE x # o
    BY <2>2, <1>1 DEF Forward, Kept
  <2> QED BY <2>1, <2>2
<1> QED BY <1>3 DEF Forward

(* Steps that keep or reset positions. *)
LEMMA ForwardSame ==
    ASSUME Forward, Kept, \A o \in Objs : obj'[o].pos = obj[o].pos \/ obj'[o].pos = 0
    PROVE  Forward'
BY DEF Forward, Kept

LEMMA OpenedPos ==
    ASSUME Inv, NEW o, NEW v, Opened(o, v)
    PROVE  \A x \in Objs : obj'[x].pos = obj[x].pos \/ obj'[x].pos = 0
<1>1. obj' = [x \in Objs |-> IF x = o
                THEN [vnode |-> v, pos |-> 0, free |-> obj[o].free - 1, use |-> "file"]
                ELSE obj[x]]
  BY DEF Opened, Inv, Tables
<1> QED BY <1>1

LEMMA ClosePos ==
    ASSUME Inv, NEW p \in Procs, NEW d \in Fds, Close(p, d)
    PROVE  \A x \in Objs : obj'[x].pos = obj[x].pos
<1> DEFINE o == fd[p][d]
           r == [obj[o] EXCEPT !.use = "none"]
<1>1. obj' = [obj EXCEPT ![o].use = "none", ![o].free = @ + 1] /\ o # NULL
  BY DEF Close, OpenFile
<1>2. o \in Objs
  BY <1>1 DEF Inv, Tables
<1> HIDE DEF o
<1>3. obj[o] = [vnode |-> obj[o].vnode, pos |-> obj[o].pos, free |-> obj[o].free, use |-> obj[o].use]
  BY <1>2 DEF Inv, Tables, IsObject
<1>4. r = [vnode |-> obj[o].vnode, pos |-> obj[o].pos, free |-> obj[o].free, use |-> "none"]
  BY <1>3
<1>5. obj'[o] = [obj[o] EXCEPT !.use = "none", !.free = @ + 1]
  BY <1>1, <1>2 DEF Inv, Tables
<1>6. obj'[o] = [r EXCEPT !.free = obj[o].free + 1]
  BY <1>5
<1> HIDE DEF r
<1>7. obj'[o].pos = obj[o].pos
  <2> DEFINE n == obj[o].free + 1
  <2>1. obj'[o] = [r EXCEPT !.free = n]
    BY <1>6
  <2> HIDE DEF n
  <2> QED BY <2>1, <1>4
<1>8. \A x \in Objs : x # o => obj'[x] = obj[x]
  BY <1>1, <1>2 DEF Inv, Tables
<1> QED BY <1>7, <1>8

LEMMA OthersPos ==
    ASSUME Inv, KernelAllocates
    PROVE  \A x \in Objs : obj'[x].pos = obj[x].pos
<1>1. PICK S \in SUBSET Freed : Others(S)
  BY DEF KernelAllocates
<1>2. ASSUME NEW x \in Objs
      PROVE  obj'[x].pos = obj[x].pos
  <2> DEFINE r == obj[x]
             n == obj[x].free - 1
  <2>1. obj'[x] = IF x \in S THEN [[r EXCEPT !.free = n] EXCEPT !.use = "other"] ELSE r
    BY <1>1 DEF Others
  <2>2. r = [vnode |-> r.vnode, pos |-> r.pos, free |-> r.free, use |-> r.use]
    BY DEF Inv, Tables, IsObject
  <2> HIDE DEF r, n
  <2>3. [r EXCEPT !.free = n] = [vnode |-> r.vnode, pos |-> r.pos, free |-> n, use |-> r.use]
    BY <2>2
  <2>4. [[r EXCEPT !.free = n] EXCEPT !.use = "other"].pos = r.pos
    BY <2>3
  <2>5. obj'[x].pos = r.pos
    BY <2>1, <2>4
  <2> QED BY <2>5 DEF r
<1> QED BY <1>2

LEMMA MisuseKept == [Next]_vars => Kept
<1>1. CASE UNCHANGED misuse
  BY <1>1 DEF Kept
<1>2. CASE \E k : Misused(k)
  BY <1>2 DEF Kept, Misused
<1> SUFFICES ASSUME [Next]_vars, ~UNCHANGED misuse
             PROVE  \E k : Misused(k)
  BY <1>1, <1>2
<1>3. ~BootStep /\ ~Booted /\ ~KernelAllocates /\ ~ListRunsAstray /\ ~UNCHANGED vars
  BY DEF BootStep, Booted, KernelAllocates, ListRunsAstray, vars
<1>4. ASSUME NEW p \in Procs, Spawn(p) \/ BadNumber(p) \/ MountUnknown(p)
      PROVE  \E k : Misused(k)
  BY <1>4 DEF Spawn, BadNumber, MountUnknown
<1>5. ASSUME NEW p \in Procs, NEW path \in Paths,
             \/ \E creat \in BOOLEAN : Open(p, path, creat)
             \/ MkdirCall(p, path) \/ Mount(p, path) \/ EmptyComponent(p, path)
      PROVE  \E k : Misused(k)
  BY <1>5 DEF Open, MkdirCall, Mount, EmptyComponent
<1>6. ASSUME NEW p \in Procs, NEW d \in Fds, Close(p, d) \/ UseDangling(p, d) \/ SeekNotOpen(p, d)
      PROVE  \E k : Misused(k)
  BY <1>6 DEF Close, UseDangling, SeekNotOpen
<1>7. ASSUME NEW p \in Procs, NEW d \in Fds, NEW s \in Bufs, Write(p, d, s) \/ WriteAstray(p, d, s)
      PROVE  \E k : Misused(k)
  BY <1>7 DEF Write, WriteAstray
<1>8. ASSUME NEW p \in Procs, NEW d \in Fds, NEW n \in Lens, Read(p, d, n) \/ ReadAstray(p, d, n)
      PROVE  \E k : Misused(k)
  BY <1>8 DEF Read, ReadAstray
<1>9. ASSUME NEW p \in Procs, NEW d \in Fds, NEW n \in Offsets, Seek(p, d, n) \/ SeekWhence(p, d, n)
      PROVE  \E k : Misused(k)
  BY <1>9 DEF Seek, SeekWhence
<1> QED BY <1>3, <1>4, <1>5, <1>6, <1>7, <1>8, <1>9 DEF Next

LEMMA NextForward ==
    ASSUME Inv, Forward, [Next]_vars
    PROVE  Forward'
<1> Kept
  BY MisuseKept
<1>1. CASE UNCHANGED obj
  BY <1>1, ForwardSame
<1>2. ASSUME NEW p \in Procs, Spawn(p) PROVE Forward'
  <2>1. CASE UNCHANGED obj
    BY <2>1, <1>1
  <2>2. CASE \E o \in Available : \E v : Opened(o, v)
    BY <2>2, OpenedPos, ForwardSame
  <2> QED BY <1>2, <2>1, <2>2 DEF Spawn
<1>3. CASE KernelAllocates
  BY <1>3, OthersPos, ForwardSame
<1>4. ASSUME NEW p \in Procs, NEW path \in Paths, NEW creat \in BOOLEAN, Open(p, path, creat)
      PROVE  Forward'
  <2>1. PICK v : OpenNode(p, v)
    BY <1>4 DEF Open
  <2>2. PICK o \in Available : Opened(o, v)
    BY <2>1 DEF OpenNode
  <2> QED BY <2>2, OpenedPos, ForwardSame
<1>5. ASSUME NEW p \in Procs, NEW d \in Fds, Close(p, d) PROVE Forward'
  BY <1>5, ClosePos, ForwardSame
<1>6. ASSUME NEW p \in Procs, NEW d \in Fds, fd[p][d] # NULL
      PROVE  fd[p][d] \in Objs /\ obj[fd[p][d]].pos \in Int
  BY <1>6 DEF Inv, Tables, Forward
<1>7. ASSUME NEW p \in Procs, NEW d \in Fds, NEW s \in Bufs, Write(p, d, s) PROVE Forward'
  <2> DEFINE o == fd[p][d]
             q == obj[o].pos + Len(s)
  <2>1. o # NULL /\ obj' = [obj EXCEPT ![o].pos = q] /\ obj[o].pos >= 0
    BY <1>7 DEF Write, OpenFile
  <2>2. Len(s) \in Nat
    BY CallAssumption
  <2>3. o \in Objs /\ q \in Int /\ q >= 0
    BY <1>6, <2>1, <2>2
  <2> HIDE DEF o, q
  <2>4. q < 0 => misuse' # {}
    BY <2>3
  <2> QED BY <2>1, <2>3, <2>4, ForwardPos
<1>8. ASSUME NEW p \in Procs, NEW d \in Fds, NEW n \in Lens, Read(p, d, n) PROVE Forward'
  <2> DEFINE o == fd[p][d]
             q == obj[o].pos + n
  <2>1. o # NULL /\ obj' = [obj EXCEPT ![o].pos = q]
    BY <1>8 DEF Read, OpenFile
  <2>2. n \in Nat
    BY FilesAssumption
  <2>3. o \in Objs /\ q \in Int /\ (q < 0 => obj[o].pos < 0) /\ obj[o].pos \in Int
    BY <1>6, <2>1, <2>2
  <2>4. q < 0 => misuse' # {}
    BY <2>3 DEF Forward, Kept
  <2> HIDE DEF o, q
  <2> QED BY <2>1, <2>3, <2>4, ForwardPos
<1>9. ASSUME NEW p \in Procs, NEW d \in Fds, NEW n \in Offsets, Seek(p, d, n) PROVE Forward'
  <2>1. fd[p][d] \in Objs /\ obj' = [obj EXCEPT ![fd[p][d]].pos = n]
    BY <1>6, <1>9 DEF Seek, OpenFile
  <2>2. n \in Int /\ ~(n < 0)
    BY FilesAssumption
  <2> QED BY <2>1, <2>2, ForwardPos
<1>10. ASSUME NEW p \in Procs, NEW d \in Fds, NEW n \in Offsets, SeekWhence(p, d, n)
       PROVE  Forward'
  <2>1. fd[p][d] \in Objs /\ obj' = [obj EXCEPT ![fd[p][d]].pos = n - 1]
    BY <1>6, <1>10 DEF SeekWhence, OpenFile
  <2>2. n - 1 \in Int
    BY FilesAssumption
  <2>3. misuse' # {}
    BY <1>10 DEF SeekWhence, Misused
  <2> QED BY <2>1, <2>2, <2>3, ForwardPos
<1>11. CASE UNCHANGED vars
  BY <1>1, <1>11 DEF vars
<1>12. CASE BootStep \/ Booted \/ ListRunsAstray
  BY <1>1, <1>12 DEF BootStep, Booted, ListRunsAstray, Derails
<1>13. ASSUME NEW p \in Procs, BadNumber(p) \/ MountUnknown(p) PROVE Forward'
  BY <1>1, <1>13 DEF BadNumber, MountUnknown, Derails
<1>14. ASSUME NEW p \in Procs, NEW path \in Paths,
              MkdirCall(p, path) \/ Mount(p, path) \/ EmptyComponent(p, path)
       PROVE  Forward'
  BY <1>1, <1>14 DEF MkdirCall, Mount, EmptyComponent, Derails
<1>15. ASSUME NEW p \in Procs, NEW d \in Fds, UseDangling(p, d) \/ SeekNotOpen(p, d)
       PROVE  Forward'
  BY <1>1, <1>15 DEF UseDangling, SeekNotOpen, Derails
<1>16. ASSUME NEW p \in Procs, NEW d \in Fds,
              (\E s \in Bufs : WriteAstray(p, d, s)) \/ (\E n \in Lens : ReadAstray(p, d, n))
       PROVE  Forward'
  BY <1>1, <1>16 DEF WriteAstray, ReadAstray, Derails
<1> QED BY <1>2, <1>3, <1>4, <1>5, <1>7, <1>8, <1>9, <1>10, <1>11, <1>12, <1>13, <1>14,
           <1>15, <1>16 DEF Next

(* What makes the kernel follow a bad pointer once it runs. *)
Derailed == pc = "run" /\ pc' = "lost" => misuse' # {} \/ tainted' # {}

LEMMA NextDerailed ==
    ASSUME Inv, Forward, [Next]_vars
    PROVE  Derailed
<1> SUFFICES ASSUME pc = "run", pc' = "lost"
             PROVE  misuse' # {} \/ tainted' # {}
  BY DEF Derailed
<1> Kept
  BY MisuseKept
<1>1. CASE ListRunsAstray
  BY <1>1 DEF ListRunsAstray, BrokenList, Kept
<1>2. ASSUME NEW p \in Procs, NEW d \in Fds, UseDangling(p, d)
      PROVE  tainted' # {}
  <2>1. fd[p][d] # NULL /\ obj[fd[p][d]].use # "file" /\ tainted' = tainted
    BY <1>2 DEF UseDangling, OpenFile
  <2>2. fd[p][d] \in Objs
    BY <2>1 DEF Inv, Tables
  <2>3. <<p, d>> \in Held(fd, fd[p][d])
    BY DEF Held
  <2> QED BY <2>1, <2>2, <2>3 DEF Inv, Owned
<1>3. ASSUME NEW p \in Procs, NEW d \in Fds, NEW s \in Bufs, WriteAstray(p, d, s)
      PROVE  misuse' # {}
  <2>1. fd[p][d] \in Objs
    BY <1>3 DEF WriteAstray, OpenFile, Inv, Tables
  <2>2. obj[fd[p][d]].pos < 0 \/ misuse' = misuse \cup {"arguments"}
    BY <1>3 DEF WriteAstray, Misused
  <2> QED BY <2>1, <2>2 DEF Forward, Kept
<1>4. ASSUME NEW p \in Procs, BadNumber(p) \/ MountUnknown(p)
      PROVE  misuse' # {}
  BY <1>4 DEF BadNumber, MountUnknown, Misused
<1>5. ASSUME NEW p \in Procs, NEW path \in Paths, EmptyComponent(p, path)
      PROVE  misuse' # {}
  BY <1>5 DEF EmptyComponent, Misused
<1>6. ASSUME NEW p \in Procs, NEW d \in Fds, SeekNotOpen(p, d)
      PROVE  misuse' # {}
  BY <1>6 DEF SeekNotOpen, Misused
<1>7. ASSUME NEW p \in Procs, NEW d \in Fds, NEW s \in Bufs, Write(p, d, s) PROVE FALSE
  BY <1>7 DEF Write, Returns
<1>8. ASSUME NEW p \in Procs, NEW d \in Fds, NEW n \in Lens, Read(p, d, n) PROVE FALSE
  BY <1>8 DEF Read
<1>9. ASSUME NEW p \in Procs, NEW d \in Fds, NEW n \in Offsets, Seek(p, d, n) \/ SeekWhence(p, d, n)
      PROVE  FALSE
  BY <1>9 DEF Seek, SeekWhence, Returns
<1>10. ASSUME NEW p \in Procs, NEW d \in Fds, Close(p, d) PROVE FALSE
  BY <1>10 DEF Close, Returns
<1>11. ASSUME NEW p \in Procs, NEW path \in Paths,
              MkdirCall(p, path) \/ Mount(p, path) \/ \E creat \in BOOLEAN : Open(p, path, creat)
       PROVE  FALSE
  BY <1>11 DEF MkdirCall, Mount, Open, Returns
<1>12. ~KernelAllocates /\ ~BootStep /\ ~Booted
  BY DEF KernelAllocates, BootStep, Booted
<1>13. ASSUME NEW p \in Procs, Spawn(p) PROVE FALSE
  BY <1>13 DEF Spawn
<1>14. ~UNCHANGED vars
  BY DEF vars
<1>15. ASSUME NEW p \in Procs, NEW d \in Fds, NEW n \in Lens, ReadAstray(p, d, n)
       PROVE  misuse' # {}
  BY <1>15 DEF ReadAstray, Misused
<1> QED BY <1>1, <1>2, <1>3, <1>4, <1>5, <1>6, <1>7, <1>8, <1>9, <1>10, <1>11, <1>12, <1>13, <1>14,
           <1>15 DEF Next

(* The running kernel follows a bad pointer only after a program misused   *)
(* the calls or a struct file was freed under a descriptor, whatever the   *)
(* archive and the paths; a boot that derails is the archive's business.   *)
THEOREM RunsUnlessMisused == Spec => [][Derailed]_vars
<1>1. Init => Forward
  BY DEF Init, Forward
<1>2. Inv /\ Forward /\ [Next]_vars => Forward'
  BY NextForward
<1>3. Inv /\ Forward /\ [Next]_vars => [Derailed]_vars
  BY NextDerailed
<1> QED BY <1>1, <1>2, <1>3, InitInv, NextInv, PTL DEF Spec

(***************************************************************************)
(* The tree.                                                               *)
(***************************************************************************)
Kinds == {"none", "dir", "file"}
Alloc == {v \in Nodes : kind[v] # "none"}
IsSlot(e) == e = [name |-> e.name, next |-> e.next]

(* Nodes are taken in order. *)
Low == \A v, w \in Nodes : kind[v] = "none" /\ v < w => kind[w] = "none"

(* A slot in use is a directory's, and names a node; a free one has the    *)
(* name "".  No two slots in use of a directory have one name.             *)
Slotted ==
    \A v \in Nodes, i \in Slots :
        /\ IsSlot(entry[v][i])
        /\ entry[v][i].next = NULL => entry[v][i].name = ""
        /\ entry[v][i].next # NULL =>
              /\ entry[v][i].next \in Alloc /\ kind[v] = "dir" /\ entry[v][i].name # ""
              /\ \A j \in Slots : i # j => entry[v][j].name # entry[v][i].name

Mounted == \A v \in Nodes : mount[v] # NULL => kind[mount[v]] = "dir" /\ mount[v] > v

(* A node has one slot at most, a file has one, a root has none. *)
Parents ==
    \A v \in Nodes :
        /\ \A l, m \in Links(v) : l = m
        /\ kind[v] = "file" => Links(v) # {}
        /\ v = Root \/ (\E u \in Nodes : mount[u] = v) => Links(v) = {}

Shape ==
    /\ kind \in [Nodes -> Kinds]
    /\ mount \in [Nodes -> Nodes \cup {NULL}]
    /\ entry = [v \in Nodes |-> [i \in Slots |-> entry[v][i]]]
    /\ kind[Root] = "dir"

Trees == Shape /\ Low /\ Slotted /\ Mounted /\ Parents

LEMMA RootIn == Root \in Nodes /\ NULL \notin Nodes
BY FilesAssumption DEF Root, Nodes, NULL

LEMMA InitTrees == Init => Trees
<1> SUFFICES ASSUME Init PROVE Trees
  OBVIOUS
<1>1. /\ kind = [v \in Nodes |-> IF v = Root THEN "dir" ELSE "none"]
      /\ entry = [v \in Nodes |-> Empty] /\ mount = [v \in Nodes |-> NULL]
  BY DEF Init
<1>2. Shape
  BY <1>1, RootIn DEF Shape, Kinds, Empty
<1>3. Low
  BY <1>1, FilesAssumption DEF Low, Nodes, Root
<1>4. ASSUME NEW v \in Nodes, NEW i \in Slots
      PROVE  IsSlot(entry[v][i]) /\ entry[v][i].name = "" /\ entry[v][i].next = NULL
  <2> DEFINE e == entry[v][i]
  <2>1. e = [name |-> "", next |-> NULL]
    BY <1>1 DEF Empty
  <2> HIDE DEF e
  <2>2. e.name = "" /\ e.next = NULL
    BY <2>1
  <2> QED BY <2>1, <2>2 DEF IsSlot, e
<1>5. Slotted
  BY <1>4 DEF Slotted
<1>6. Mounted
  BY <1>1 DEF Mounted
<1>7. \A v \in Nodes : Links(v) = {}
  <2>1. SUFFICES ASSUME NEW v \in Nodes, NEW l \in Nodes \X Slots, entry[l[1]][l[2]].next = v
                 PROVE  FALSE
    BY DEF Links
  <2>2. l[1] \in Nodes /\ l[2] \in Slots
    BY <2>1
  <2> QED BY <1>4, <2>1, <2>2, RootIn
<1>8. Parents
  BY <1>1, <1>7, RootIn DEF Parents
<1> QED BY <1>2, <1>3, <1>5, <1>6, <1>8 DEF Trees

(* What a new node is: allocated after all others, nothing refers to it. *)
LEMMA FreshNode ==
    ASSUME Trees, Fresh # {}
    PROVE  LET n == Min(Fresh)
           IN /\ n \in Nodes /\ kind[n] = "none" /\ n # Root /\ n # NULL
              /\ \A v \in Alloc : v < n
              /\ \A v \in Nodes, i \in Slots : entry[v][i].next # n /\ entry[n][i].next = NULL
              /\ \A v \in Nodes : mount[v] # n
              /\ mount[n] = NULL
              /\ \A v \in Nodes : v < n => v \in Alloc
<1> DEFINE n == Min(Fresh)
<1>1. n \in Fresh /\ \A y \in Fresh : n <= y
  <2>1. Fresh \in SUBSET Nat
    BY FilesAssumption DEF Fresh, Nodes
  <2> QED BY <2>1, MinIn
<1> HIDE DEF n
<1>2. n \in Nodes /\ kind[n] = "none"
  BY <1>1 DEF Fresh
<1>3. n # Root /\ n # NULL
  BY <1>2, RootIn DEF Trees, Shape
<1>4. ASSUME NEW v \in Alloc PROVE v < n
  <2>1. v \in Nodes /\ kind[v] # "none" /\ v \in Nat /\ n \in Nat
    BY <1>2, FilesAssumption DEF Alloc, Nodes
  <2>2. ~(n < v)
    BY <1>2, <2>1 DEF Trees, Low
  <2> QED BY <1>2, <2>1, <2>2
<1>5. ASSUME NEW v \in Nodes, NEW i \in Slots
      PROVE  entry[v][i].next # n /\ entry[n][i].next = NULL
  BY <1>2, <1>3 DEF Trees, Slotted, Alloc
<1>6. ASSUME NEW v \in Nodes PROVE mount[v] # n
  BY <1>2, <1>3 DEF Trees, Mounted
<1>7. mount[n] = NULL
  <2>1. SUFFICES ASSUME mount[n] # NULL PROVE FALSE
    OBVIOUS
  <2>2. mount[n] \in Nodes /\ kind[mount[n]] = "dir" /\ mount[n] > n
    BY <1>2, <2>1 DEF Trees, Mounted, Shape
  <2>3. n < mount[n]
    BY <2>2, <1>2, FilesAssumption DEF Nodes
  <2> QED BY <1>2, <2>2, <2>3 DEF Trees, Low
<1>8. ASSUME NEW v \in Nodes, v < n PROVE v \in Alloc
  <2>1. v \notin Fresh
    BY <1>1, <1>2, <1>8, FilesAssumption DEF Nodes
  <2> QED BY <2>1 DEF Fresh, Alloc
<1> QED BY <1>2, <1>3, <1>4, <1>5, <1>6, <1>7, <1>8 DEF n

LEMMA PairParts ==
    ASSUME NEW A, NEW B, NEW l \in A \X B
    PROVE  l = <<l[1], l[2]>> /\ l[1] \in A /\ l[2] \in B
OBVIOUS

(* The new node is entered into a free slot of a directory (tmpfs_create,  *)
(* tmpfs_mkdir).                                                           *)
Entered(v, i, name, n, k) ==
    /\ kind' = [kind EXCEPT ![n] = k]
    /\ entry' = [entry EXCEPT ![v][i] = [name |-> name, next |-> n]]
    /\ mount' = mount

Grafted(v, i, name, n, k) ==
    /\ kind' \in [Nodes -> Kinds] /\ kind'[n] = k
    /\ \A u \in Nodes : u # n => kind'[u] = kind[u]
    /\ entry' = [u \in Nodes |-> [j \in Slots |-> entry'[u][j]]]
    /\ IsSlot(entry'[v][i]) /\ entry'[v][i].name = name /\ entry'[v][i].next = n
    /\ \A u \in Nodes, j \in Slots : <<u, j>> # <<v, i>> => entry'[u][j] = entry[u][j]

LEMMA EnteredFacts ==
    ASSUME Trees, Fresh # {}, NEW n \in Nodes, NEW k \in {"dir", "file"}, NEW name,
           NEW v \in Nodes, NEW i \in Slots, Entered(v, i, name, n, k)
    PROVE  Grafted(v, i, name, n, k)
<1>1. kind' \in [Nodes -> Kinds] /\ kind'[n] = k /\ \A u \in Nodes : u # n => kind'[u] = kind[u]
  BY DEF Trees, Shape, Entered, Kinds
<1> DEFINE e == [name |-> name, next |-> n]
<1>2. IsSlot(e) /\ e.name = name /\ e.next = n
  BY DEF IsSlot
<1>3. entry' = [entry EXCEPT ![v][i] = e]
  BY DEF Entered
<1> HIDE DEF e
<1>4. entry' = [u \in Nodes |-> IF u = v THEN [entry[v] EXCEPT ![i] = e] ELSE entry[u]]
  BY <1>3 DEF Trees, Shape
<1>5. \A u \in Nodes : entry[u] = [j \in Slots |-> entry[u][j]]
  BY DEF Trees, Shape
<1>6. entry'[v] = [j \in Slots |-> IF j = i THEN e ELSE entry[v][j]]
  <2>1. entry'[v] = [entry[v] EXCEPT ![i] = e]
    BY <1>4
  <2>2. entry[v] = [j \in Slots |-> entry[v][j]]
    BY <1>5
  <2> DEFINE f == entry[v]
  <2>3. f = [j \in Slots |-> f[j]] /\ entry'[v] = [f EXCEPT ![i] = e]
    BY <2>1, <2>2
  <2> HIDE DEF f
  <2>4. [f EXCEPT ![i] = e] = [j \in Slots |-> IF j = i THEN e ELSE f[j]]
    BY <2>3
  <2> QED BY <2>3, <2>4 DEF f
<1>7. \A u \in Nodes : u # v => entry'[u] = entry[u]
  BY <1>4
<1>8. \A u \in Nodes : entry'[u] = [j \in Slots |-> entry'[u][j]]
  <2>1. SUFFICES ASSUME NEW u \in Nodes PROVE entry'[u] = [j \in Slots |-> entry'[u][j]]
    OBVIOUS
  <2>2. CASE u = v
    BY <1>6, <2>2
  <2>3. CASE u # v
    BY <1>5, <1>7, <2>3
  <2> QED BY <2>2, <2>3
<1>9. entry' = [u \in Nodes |-> [j \in Slots |-> entry'[u][j]]]
  <2>1. entry' = [u \in Nodes |-> entry'[u]]
    BY <1>4
  <2> QED BY <1>8, <2>1
<1>10. entry'[v][i] = e
  BY <1>6
<1>11. \A u \in Nodes, j \in Slots : <<u, j>> # <<v, i>> => entry'[u][j] = entry[u][j]
  BY <1>6, <1>7
<1> QED BY <1>1, <1>2, <1>9, <1>10, <1>11 DEF Grafted

LEMMA EnteredTrees ==
    ASSUME Trees, Fresh # {}, NEW k \in {"dir", "file"}, NEW name, name # "",
           NEW v \in Nodes, kind[v] = "dir", NEW i \in FreeSlots(v),
           \A j \in Slots : entry[v][j].name # name,
           Entered(v, i, name, Min(Fresh), k)
    PROVE  Trees'
<1>0. PICK n : n = Min(Fresh)
  OBVIOUS
<1>1. /\ n \in Nodes /\ kind[n] = "none" /\ n # Root /\ n # NULL
      /\ \A u \in Alloc : u < n
      /\ \A u \in Nodes, j \in Slots : entry[u][j].next # n /\ entry[n][j].next = NULL
      /\ \A u \in Nodes : mount[u] # n
      /\ mount[n] = NULL
      /\ \A u \in Nodes : u < n => u \in Alloc
  BY <1>0, FreshNode
<1>2. i \in Slots /\ entry[v][i].next = NULL
  BY DEF FreeSlots
<1>3. Entered(v, i, name, n, k)
  BY <1>0
<1>a. Grafted(v, i, name, n, k)
  BY <1>1, <1>2, <1>3, EnteredFacts
<1>4. /\ kind' \in [Nodes -> Kinds] /\ kind'[n] = k
      /\ \A u \in Nodes : u # n => kind'[u] = kind[u]
      /\ entry' = [u \in Nodes |-> [j \in Slots |-> entry'[u][j]]]
      /\ IsSlot(entry'[v][i]) /\ entry'[v][i].name = name /\ entry'[v][i].next = n
      /\ \A u \in Nodes, j \in Slots : <<u, j>> # <<v, i>> => entry'[u][j] = entry[u][j]
  BY <1>a DEF Grafted
<1>5. mount' = mount
  BY <1>3 DEF Entered
<1>6. Shape'
  BY <1>1, <1>4, <1>5, RootIn DEF Trees, Shape
<1>7. n # v
  BY <1>1
<1>8. Low'
  <2>1. SUFFICES ASSUME NEW u \in Nodes, NEW w \in Nodes, kind'[u] = "none", u < w
                 PROVE  kind'[w] = "none"
    BY DEF Low
  <2>2. u # n /\ kind[u] = "none"
    BY <1>4, <2>1
  <2>3. kind[w] = "none"
    BY <2>1, <2>2 DEF Trees, Low
  <2>4. w # n
    BY <1>1, <2>1, <2>2 DEF Alloc
  <2> QED BY <1>4, <2>3, <2>4
<1>9. n \in Alloc' /\ Alloc \subseteq Alloc'
  BY <1>1, <1>4 DEF Alloc
<1>10. \A u \in Nodes, j \in Slots : entry[u][j].next # NULL =>
          /\ entry[u][j].next \in Alloc /\ kind[u] = "dir" /\ entry[u][j].name # ""
          /\ \A m \in Slots : j # m => entry[u][m].name # entry[u][j].name
  BY DEF Trees, Slotted
<1>11. Slotted'
  <2>1. SUFFICES ASSUME NEW u \in Nodes, NEW j \in Slots
                 PROVE  /\ IsSlot(entry'[u][j])
                        /\ entry'[u][j].next = NULL => entry'[u][j].name = ""
                        /\ entry'[u][j].next # NULL =>
                             /\ entry'[u][j].next \in Alloc' /\ kind'[u] = "dir"
                             /\ entry'[u][j].name # ""
                             /\ \A m \in Slots : j # m => entry'[u][m].name # entry'[u][j].name
    BY DEF Slotted
  <2>2. CASE <<u, j>> = <<v, i>>
    <3>1. kind'[v] = "dir"
      BY <1>4, <1>7
    <3>2. ASSUME NEW m \in Slots, m # i PROVE entry'[v][m].name # name
      <4>1. entry'[v][m] = entry[v][m]
        BY <1>4, <3>2
      <4> QED BY <4>1
    <3>3. IsSlot(entry'[v][i]) /\ entry'[v][i].name = name /\ entry'[v][i].next = n
      BY <1>4
    <3>4. u = v /\ j = i
      BY <2>2
    <3> HIDE <2>2
    <3> QED BY <1>1, <1>9, <3>1, <3>2, <3>3, <3>4
  <2>3. CASE <<u, j>> # <<v, i>>
    <3>1. entry'[u][j] = entry[u][j]
      BY <1>4, <2>3
    <3>2. IsSlot(entry[u][j]) /\ (entry[u][j].next = NULL => entry[u][j].name = "")
      BY DEF Trees, Slotted
    <3>3. ASSUME entry[u][j].next # NULL
          PROVE  /\ entry[u][j].next \in Alloc' /\ kind'[u] = "dir" /\ entry[u][j].name # ""
                 /\ \A m \in Slots : j # m => entry'[u][m].name # entry[u][j].name
      <4>1. /\ entry[u][j].next \in Alloc /\ kind[u] = "dir" /\ entry[u][j].name # ""
            /\ \A m \in Slots : j # m => entry[u][m].name # entry[u][j].name
        BY <1>10, <3>3
      <4>2. u # n
        BY <1>1, <4>1
      <4>3. kind'[u] = "dir"
        BY <1>4, <4>1, <4>2
      <4>4. ASSUME NEW m \in Slots, j # m PROVE entry'[u][m].name # entry[u][j].name
        <5>1. CASE <<u, m>> = <<v, i>>
          <6>1. u = v /\ m = i
            BY <5>1
          <6> QED BY <1>4, <6>1
        <5>2. CASE <<u, m>> # <<v, i>>
          BY <1>4, <4>1, <4>4, <5>2
        <5> QED BY <5>1, <5>2
      <4> QED BY <1>9, <4>1, <4>3, <4>4
    <3> QED BY <3>1, <3>2, <3>3
  <2> QED BY <2>2, <2>3
<1>12. Mounted'
  <2>1. SUFFICES ASSUME NEW u \in Nodes, mount[u] # NULL
                 PROVE  kind'[mount[u]] = "dir" /\ mount[u] > u
    BY <1>5 DEF Mounted
  <2>2. kind[mount[u]] = "dir" /\ mount[u] > u /\ mount[u] \in Nodes
    BY <2>1 DEF Trees, Mounted, Shape
  <2>3. mount[u] # n
    BY <1>1
  <2> QED BY <1>4, <2>2, <2>3
<1>13. Links(n)' = {<<v, i>>}
  <2>1. ASSUME NEW l \in Nodes \X Slots PROVE entry'[l[1]][l[2]].next = n <=> l = <<v, i>>
    <3>1. l = <<l[1], l[2]>> /\ l[1] \in Nodes /\ l[2] \in Slots
      BY PairParts
    <3>2. CASE l = <<v, i>>
      BY <1>4, <3>2
    <3>3. CASE l # <<v, i>>
      <4>1. entry'[l[1]][l[2]] = entry[l[1]][l[2]]
        BY <1>4, <3>1, <3>3
      <4>2. entry[l[1]][l[2]].next # n
        BY <1>1, <3>1
      <4> QED BY <3>3, <4>1, <4>2
    <3> QED BY <3>2, <3>3
  <2>2. Links(n)' = {l \in Nodes \X Slots : entry'[l[1]][l[2]].next = n}
    BY DEF Links
  <2>3. <<v, i>> \in Nodes \X Slots
    BY <1>2
  <2> QED BY <2>1, <2>2, <2>3
<1>14. ASSUME NEW u \in Nodes, u # n PROVE Links(u)' = Links(u)
  <2>1. ASSUME NEW l \in Nodes \X Slots
        PROVE  entry'[l[1]][l[2]].next = u <=> entry[l[1]][l[2]].next = u
    <3>1. l = <<l[1], l[2]>> /\ l[1] \in Nodes /\ l[2] \in Slots
      BY PairParts
    <3>2. CASE l = <<v, i>>
      <4>1. entry'[l[1]][l[2]].next = n /\ entry[l[1]][l[2]].next = NULL
        BY <1>2, <1>4, <3>2
      <4> QED BY <1>14, <4>1, RootIn
    <3>3. CASE l # <<v, i>>
      BY <1>4, <3>1, <3>3
    <3> QED BY <3>2, <3>3
  <2> QED BY <2>1 DEF Links
<1>15. Parents'
  <2>1. SUFFICES ASSUME NEW u \in Nodes
                 PROVE  /\ \A l, m \in Links(u)' : l = m
                        /\ kind'[u] = "file" => Links(u)' # {}
                        /\ u = Root \/ (\E x \in Nodes : mount'[x] = u) => Links(u)' = {}
    BY DEF Parents
  <2>2. CASE u = n
    BY <1>1, <1>5, <1>13, <2>2
  <2>3. CASE u # n
    <3>1. Links(u)' = Links(u) /\ kind'[u] = kind[u]
      BY <1>4, <1>14, <2>3
    <3>2. /\ \A l, m \in Links(u) : l = m
          /\ kind[u] = "file" => Links(u) # {}
          /\ u = Root \/ (\E x \in Nodes : mount[x] = u) => Links(u) = {}
      BY DEF Trees, Parents
    <3> QED BY <1>5, <3>1, <3>2
  <2> QED BY <2>2, <2>3
<1> QED BY <1>6, <1>8, <1>11, <1>12, <1>15 DEF Trees

(* The new root is mounted on a node (vfs_mount). *)
LEMMA MountedTrees ==
    ASSUME Trees, Fresh # {}, NEW v \in Alloc, UNCHANGED entry,
           kind' = [kind EXCEPT ![Min(Fresh)] = "dir"],
           mount' = [mount EXCEPT ![v] = Min(Fresh)]
    PROVE  Trees'
<1>0. PICK n : n = Min(Fresh)
  OBVIOUS
<1>1. /\ n \in Nodes /\ kind[n] = "none" /\ n # Root /\ n # NULL
      /\ \A u \in Alloc : u < n
      /\ \A u \in Nodes, j \in Slots : entry[u][j].next # n /\ entry[n][j].next = NULL
      /\ \A u \in Nodes : mount[u] # n
  BY <1>0, FreshNode
<1>2. kind' = [kind EXCEPT ![n] = "dir"] /\ mount' = [mount EXCEPT ![v] = n]
  BY <1>0
<1>3. v \in Nodes /\ kind[v] # "none" /\ v # n /\ v < n
  BY <1>1 DEF Alloc
<1>4. /\ kind' \in [Nodes -> Kinds] /\ kind'[n] = "dir"
      /\ \A u \in Nodes : u # n => kind'[u] = kind[u]
  BY <1>1, <1>2 DEF Trees, Shape, Kinds
<1>5. /\ mount' \in [Nodes -> Nodes \cup {NULL}] /\ mount'[v] = n
      /\ \A u \in Nodes : u # v => mount'[u] = mount[u]
  BY <1>1, <1>2, <1>3 DEF Trees, Shape
<1>6. Shape'
  BY <1>1, <1>4, <1>5, RootIn DEF Trees, Shape
<1>7. Low'
  <2>1. SUFFICES ASSUME NEW u \in Nodes, NEW w \in Nodes, kind'[u] = "none", u < w
                 PROVE  kind'[w] = "none"
    BY DEF Low
  <2>2. u # n /\ kind[u] = "none"
    BY <1>4, <2>1
  <2>3. kind[w] = "none"
    BY <2>1, <2>2 DEF Trees, Low
  <2>4. w # n
    <3>1. \A x \in Nodes : x < n => x \in Alloc
      BY <1>0, FreshNode
    <3> QED BY <2>1, <2>2, <3>1 DEF Alloc
  <2> QED BY <1>4, <2>3, <2>4
<1>8. Alloc \subseteq Alloc'
  BY <1>1, <1>4 DEF Alloc
<1>9. ASSUME NEW u \in Nodes, kind[u] = "dir" PROVE kind'[u] = "dir"
  BY <1>1, <1>4, <1>9
<1>10. Slotted'
  BY <1>8, <1>9 DEF Trees, Slotted
<1>11. Mounted'
  <2>1. SUFFICES ASSUME NEW u \in Nodes, mount'[u] # NULL
                 PROVE  kind'[mount'[u]] = "dir" /\ mount'[u] > u
    BY DEF Mounted
  <2>2. CASE u = v
    <3>1. v \in Nat /\ n \in Nat
      BY <1>1, <1>3, FilesAssumption DEF Nodes
    <3>2. n > v
      BY <1>3, <3>1
    <3> QED BY <1>4, <1>5, <2>2, <3>2
  <2>3. CASE u # v
    <3>1. kind[mount[u]] = "dir" /\ mount[u] > u /\ mount[u] \in Nodes /\ mount'[u] = mount[u]
      BY <1>5, <2>1, <2>3 DEF Trees, Mounted, Shape
    <3> QED BY <1>9, <3>1
  <2> QED BY <2>2, <2>3
<1>12. ASSUME NEW u \in Nodes PROVE Links(u)' = Links(u)
  BY DEF Links
<1>13. Links(n) = {}
  <2>1. ASSUME NEW l \in Nodes \X Slots PROVE entry[l[1]][l[2]].next # n
    <3>1. l[1] \in Nodes /\ l[2] \in Slots
      OBVIOUS
    <3> QED BY <1>1, <3>1
  <2> QED BY <2>1 DEF Links
<1>14. Parents'
  <2>1. SUFFICES ASSUME NEW u \in Nodes
                 PROVE  /\ \A l, m \in Links(u) : l = m
                        /\ kind'[u] = "file" => Links(u) # {}
                        /\ u = Root \/ (\E x \in Nodes : mount'[x] = u) => Links(u) = {}
    BY <1>12 DEF Parents
  <2>2. CASE u = n
    BY <1>4, <1>13, <2>2
  <2>3. CASE u # n
    BY <1>4, <1>5, <2>3 DEF Trees, Parents
  <2> QED BY <2>2, <2>3
<1> QED BY <1>6, <1>7, <1>10, <1>11, <1>14 DEF Trees

(***************************************************************************)
(* Lookup and get_vnode.                                                   *)
(***************************************************************************)
Answers == {OK, PATH_NOT_FOUND, FILE_FOUND, Abort}

LEMMA Answered ==
    /\ OK # PATH_NOT_FOUND /\ OK # FILE_FOUND /\ OK # Abort
    /\ PATH_NOT_FOUND # FILE_FOUND /\ PATH_NOT_FOUND # Abort
BY DEF OK, PATH_NOT_FOUND, FILE_FOUND, Abort

(* Nobody has this name in v. *)
NoSuch(v, name) == \A i \in Slots : entry[v][i].name # name

LEMMA LookupCases ==
    ASSUME NEW v \in Alloc, NEW name, Trees
    PROVE  \/ kind[v] = "file" /\ Lookup(v, name) = [ret |-> FILE_FOUND, node |-> v]
           \/ /\ kind[v] = "dir" /\ NoSuch(v, name)
              /\ Lookup(v, name) = [ret |-> PATH_NOT_FOUND, node |-> v]
           \/ /\ kind[v] = "dir"
              /\ \E i \in Slots :
                    /\ entry[v][i].name = name
                    /\ Lookup(v, name) = [ret |-> IF entry[v][i].next = NULL THEN Abort ELSE OK,
                                          node |-> entry[v][i].next]
<1>1. v \in Nodes /\ kind[v] \in {"dir", "file"}
  BY DEF Alloc, Trees, Shape, Kinds
<1>2. CASE kind[v] = "file"
  BY <1>2 DEF Lookup
<1>3. CASE kind[v] = "dir" /\ NoSuch(v, name)
  BY <1>3 DEF Lookup, NoSuch
<1>4. CASE kind[v] = "dir" /\ ~NoSuch(v, name)
  <2> DEFINE i == CHOOSE i \in Slots : entry[v][i].name = name
  <2>1. i \in Slots /\ entry[v][i].name = name
    BY <1>4 DEF NoSuch
  <2>2. Lookup(v, name) = [ret |-> IF entry[v][i].next = NULL THEN Abort ELSE OK,
                           node |-> entry[v][i].next]
    BY <1>4 DEF Lookup, NoSuch
  <2> HIDE DEF i
  <2> QED BY <1>4, <2>1, <2>2
<1> QED BY <1>1, <1>2, <1>3, <1>4

LEMMA LookupFacts ==
    ASSUME NEW v \in Alloc, NEW name, Trees
    PROVE  LET l == Lookup(v, name)
           IN /\ l.ret \in Answers
              /\ l.ret = OK => l.node \in Alloc
              /\ l.ret = PATH_NOT_FOUND => kind[v] = "dir" /\ NoSuch(v, name)
<1> DEFINE l == Lookup(v, name)
<1>1. ASSUME l = [ret |-> FILE_FOUND, node |-> v]
      PROVE  l.ret \in Answers /\ l.ret # OK /\ l.ret # PATH_NOT_FOUND
  <2>1. l.ret = FILE_FOUND
    BY <1>1
  <2> QED BY <2>1, Answered DEF Answers
<1>2. ASSUME l = [ret |-> PATH_NOT_FOUND, node |-> v]
      PROVE  l.ret \in Answers /\ l.ret # OK
  <2>1. l.ret = PATH_NOT_FOUND
    BY <1>2
  <2> QED BY <1>2, <2>1, Answered DEF Answers
<1>3. ASSUME NEW i \in Slots,
             l = [ret |-> IF entry[v][i].next = NULL THEN Abort ELSE OK, node |-> entry[v][i].next]
      PROVE  /\ l.ret \in Answers
             /\ l.ret = OK => l.node \in Alloc
             /\ l.ret # PATH_NOT_FOUND
  <2>1. l.ret = (IF entry[v][i].next = NULL THEN Abort ELSE OK) /\ l.node = entry[v][i].next
    BY <1>3
  <2>2. entry[v][i].next # NULL => entry[v][i].next \in Alloc
    BY DEF Trees, Slotted, Alloc
  <2> QED BY <2>1, <2>2, Answered DEF Answers
<1> HIDE DEF l
<1>4. \/ l = [ret |-> FILE_FOUND, node |-> v]
      \/ kind[v] = "dir" /\ NoSuch(v, name) /\ l = [ret |-> PATH_NOT_FOUND, node |-> v]
      \/ \E i \in Slots :
            l = [ret |-> IF entry[v][i].next = NULL THEN Abort ELSE OK, node |-> entry[v][i].next]
  BY LookupCases DEF l
<1>5. /\ l.ret \in Answers
      /\ l.ret = OK => l.node \in Alloc
      /\ l.ret = PATH_NOT_FOUND => kind[v] = "dir" /\ NoSuch(v, name)
  BY <1>1, <1>2, <1>3, <1>4
<1> QED BY <1>5 DEF l

(* Mounts are followed upwards, to newer nodes: the recursion ends. *)
FollowsIn(f, D) == f = [v \in D |-> IF mount[v] = NULL THEN v ELSE f[mount[v]]]

LEMMA FollowedDef ==
    ASSUME Trees
    PROVE  FollowsIn(Followed, Nodes)
<1> DEFINE Above(n) == {v \in Nodes : v + n > MaxNodes}
           T == {n \in Nat : \E f : FollowsIn(f, Above(n))}
<1>1. 0 \in T
  <2>1. Above(0) = {}
    BY FilesAssumption DEF Nodes
  <2> DEFINE f == [v \in {} |-> v]
  <2>2. FollowsIn(f, {})
    BY DEF FollowsIn
  <2> HIDE DEF f
  <2> QED BY <2>1, <2>2
<1>2. ASSUME NEW n \in Nat, n \in T PROVE n + 1 \in T
  <2>1. PICK f : FollowsIn(f, Above(n))
    BY <1>2
  <2> DEFINE g == [v \in Above(n + 1) |-> IF mount[v] = NULL THEN v ELSE f[mount[v]]]
  <2>2. ASSUME NEW v \in Above(n + 1), mount[v] # NULL
        PROVE  mount[v] \in Above(n) /\ mount[v] \in Above(n + 1)
    <3>1. mount[v] \in Nodes /\ mount[v] > v
      BY <2>2 DEF Trees, Mounted, Shape
    <3> QED BY <3>1, FilesAssumption DEF Nodes
  <2>3. ASSUME NEW u \in Above(n) PROVE u \in Above(n + 1) /\ g[u] = f[u]
    <3>1. u \in Above(n + 1)
      BY FilesAssumption DEF Nodes
    <3>2. f[u] = IF mount[u] = NULL THEN u ELSE f[mount[u]]
      BY <2>1 DEF FollowsIn
    <3> QED BY <3>1, <3>2
  <2>4. g = [v \in Above(n + 1) |-> IF mount[v] = NULL THEN v ELSE g[mount[v]]]
    <3>1. \A v \in Above(n + 1) : (IF mount[v] = NULL THEN v ELSE f[mount[v]])
                                    = (IF mount[v] = NULL THEN v ELSE g[mount[v]])
      BY <2>2, <2>3
    <3> QED BY <3>1
  <2>5. FollowsIn(g, Above(n + 1))
    BY <2>4 DEF FollowsIn
  <2> HIDE DEF g
  <2> QED BY <2>5
<1> HIDE DEF T
<1>3. MaxNodes \in T
  BY <1>1, <1>2, CountUp, FilesAssumption
<1>4. Above(MaxNodes) = Nodes
  BY FilesAssumption DEF Nodes
<1>5. PICK f : FollowsIn(f, Nodes)
  BY <1>3, <1>4 DEF T
<1>6. f = [v \in Nodes |-> IF mount[v] = NULL THEN v ELSE f[mount[v]]]
  BY <1>5 DEF FollowsIn
<1> QED BY <1>6 DEF Followed, FollowsIn

LEMMA FollowedFacts ==
    ASSUME Trees, NEW v \in Nodes
    PROVE  /\ Followed[v] = IF mount[v] = NULL THEN v ELSE Followed[mount[v]]
           /\ Followed[v] \in Nodes
           /\ v \in Alloc => Followed[v] \in Alloc
           /\ mount[Followed[v]] = NULL
<1>1. \A u \in Nodes : Followed[u] = IF mount[u] = NULL THEN u ELSE Followed[mount[u]]
  BY FollowedDef DEF FollowsIn
<1> DEFINE Good(u) == /\ Followed[u] \in Nodes
                      /\ u \in Alloc => Followed[u] \in Alloc
                      /\ mount[Followed[u]] = NULL
           T == {n \in Nat : \A u \in Nodes : u + n > MaxNodes => Good(u)}
<1>2. 0 \in T
  BY FilesAssumption DEF Nodes
<1>3. ASSUME NEW n \in Nat, n \in T PROVE n + 1 \in T
  <2>1. SUFFICES ASSUME NEW u \in Nodes, u + (n + 1) > MaxNodes PROVE Good(u)
    OBVIOUS
  <2>2. CASE mount[u] = NULL
    BY <1>1, <2>2
  <2>3. CASE mount[u] # NULL
    <3>1. mount[u] \in Nodes /\ mount[u] > u /\ mount[u] \in Alloc
      BY <2>3 DEF Trees, Mounted, Shape, Alloc
    <3>2. mount[u] + n > MaxNodes
      BY <2>1, <3>1, FilesAssumption DEF Nodes
    <3>3. Good(mount[u])
      BY <1>3, <3>1, <3>2
    <3> QED BY <1>1, <2>3, <3>1, <3>3
  <2> QED BY <2>2, <2>3
<1> HIDE DEF T
<1>4. MaxNodes \in T
  BY <1>2, <1>3, CountUp, FilesAssumption
<1>5. v + MaxNodes > MaxNodes
  BY FilesAssumption DEF Nodes
<1>6. Good(v)
  BY <1>4, <1>5 DEF T
<1> QED BY <1>1, <1>6

(* The walk of get_vnode after each of the first n components. *)
Start == [ret |-> OK, node |-> Root, used |-> 0]
WalksOn(w, path, n) ==
    w = [i \in 0 .. n |-> IF i = 0 THEN Start ELSE Walked(w[i - 1], path[i])]
Walk(path) == CHOOSE w : WalksOn(w, path, Len(path))

LEMMA WalkIs == \A path : get_vnode(path) = Walk(path)[Len(path)]
BY DEF get_vnode, Walk, WalksOn, Start

LEMMA WalkDef ==
    ASSUME NEW path, Len(path) \in Nat
    PROVE  /\ Walk(path)[0] = Start
           /\ \A i \in 1 .. Len(path) : Walk(path)[i] = Walked(Walk(path)[i - 1], path[i])
<1> DEFINE T == {n \in Nat : \E w : WalksOn(w, path, n)}
<1>1. 0 \in T
  <2> DEFINE w == [i \in 0 .. 0 |-> Start]
  <2>1. w = [i \in 0 .. 0 |-> IF i = 0 THEN Start ELSE Walked(w[i - 1], path[i])]
    OBVIOUS
  <2>2. WalksOn(w, path, 0)
    BY <2>1 DEF WalksOn
  <2> HIDE DEF w
  <2> QED BY <2>2
<1>2. ASSUME NEW n \in Nat, n \in T PROVE n + 1 \in T
  <2>1. PICK w : WalksOn(w, path, n)
    BY <1>2
  <2> DEFINE u == [i \in 0 .. n + 1 |-> IF i = 0 THEN Start ELSE Walked(w[i - 1], path[i])]
  <2>2. ASSUME NEW i \in 0 .. n PROVE i \in 0 .. n + 1 /\ u[i] = w[i]
    <3>1. w[i] = IF i = 0 THEN Start ELSE Walked(w[i - 1], path[i])
      BY <2>1 DEF WalksOn
    <3> QED BY <3>1
  <2>3. u = [i \in 0 .. n + 1 |-> IF i = 0 THEN Start ELSE Walked(u[i - 1], path[i])]
    <3>1. \A i \in 0 .. n + 1 : (IF i = 0 THEN Start ELSE Walked(w[i - 1], path[i]))
                                  = (IF i = 0 THEN Start ELSE Walked(u[i - 1], path[i]))
      <4>1. SUFFICES ASSUME NEW i \in 0 .. n + 1, i # 0
                     PROVE  Walked(w[i - 1], path[i]) = Walked(u[i - 1], path[i])
        OBVIOUS
      <4>2. i - 1 \in 0 .. n
        BY <4>1
      <4> QED BY <2>2, <4>2
    <3> QED BY <3>1
  <2>4. WalksOn(u, path, n + 1)
    BY <2>3 DEF WalksOn
  <2> HIDE DEF u
  <2> QED BY <2>4
<1> HIDE DEF T
<1>3. Len(path) \in T
  BY <1>1, <1>2, CountUp
<1>4. WalksOn(Walk(path), path, Len(path))
  BY <1>3 DEF T, Walk
<1> DEFINE w == Walk(path)
<1>5. w = [i \in 0 .. Len(path) |-> IF i = 0 THEN Start ELSE Walked(w[i - 1], path[i])]
  BY <1>4 DEF WalksOn
<1> HIDE DEF w
<1>6. /\ w[0] = Start
      /\ \A i \in 1 .. Len(path) : w[i] = Walked(w[i - 1], path[i])
  BY <1>5
<1> QED BY <1>6 DEF w

(* What the walk knows after i components. *)
Reached(r, path, i) ==
    /\ r.ret \in Answers /\ r.node \in Alloc /\ r.used \in 0 .. i
    /\ r.node = Root \/ mount[r.node] = NULL
    /\ r.ret = OK => r.used = i
    /\ r.ret = PATH_NOT_FOUND =>
          kind[r.node] = "dir" /\ r.used # 0 /\ NoSuch(r.node, path[r.used])

LEMMA ReachedStep ==
    ASSUME Trees, NEW path, NEW i \in Nat, NEW r, Reached(r, path, i)
    PROVE  Reached(Walked(r, path[i + 1]), path, i + 1)
<1> DEFINE l == Lookup(r.node, path[i + 1])
           x == [ret |-> l.ret, used |-> r.used + 1,
                 node |-> IF l.ret = OK THEN Followed[l.node] ELSE r.node]
<1>1. Walked(r, path[i + 1]) = IF r.ret # OK THEN r ELSE x
  <2>1. r.node \in Nodes
    BY DEF Reached, Alloc
  <2> QED BY <2>1 DEF Walked
<1>2. CASE r.ret # OK
  BY <1>1, <1>2 DEF Reached
<1>3. CASE r.ret = OK
  <2>1. /\ l.ret \in Answers
        /\ l.ret = OK => l.node \in Alloc
        /\ l.ret = PATH_NOT_FOUND => kind[r.node] = "dir" /\ NoSuch(r.node, path[i + 1])
    BY LookupFacts DEF Reached
  <2>2. r.used = i /\ r.node \in Alloc
    BY <1>3 DEF Reached
  <2> HIDE DEF l
  <2>3. /\ x.ret = l.ret /\ x.used = i + 1
        /\ x.node = IF l.ret = OK THEN Followed[l.node] ELSE r.node
    BY <2>2
  <2>4. l.ret = OK => Followed[l.node] \in Alloc /\ mount[Followed[l.node]] = NULL
    BY <2>1, FollowedFacts DEF Alloc
  <2>5. x.ret = PATH_NOT_FOUND => x.node = r.node
    BY <2>3, Answered
  <2> HIDE DEF x
  <2>a. x.node = Root \/ mount[x.node] = NULL
    BY <2>3, <2>4 DEF Reached
  <2>6. Reached(x, path, i + 1)
    BY <2>1, <2>2, <2>3, <2>4, <2>5, <2>a DEF Reached
  <2> QED BY <1>1, <1>3, <2>6
<1> QED BY <1>2, <1>3

LEMMA WalkFacts ==
    ASSUME Trees, NEW path, Len(path) \in Nat, NEW i \in 0 .. Len(path)
    PROVE  Reached(Walk(path)[i], path, i)
<1> DEFINE w == Walk(path)
           T == {n \in Nat : n <= Len(path) => Reached(w[n], path, n)}
<1>1. w[0] = Start /\ \A n \in 1 .. Len(path) : w[n] = Walked(w[n - 1], path[n])
  BY WalkDef
<1> HIDE DEF w
<1>2. 0 \in T
  <2>1. Root \in Alloc
    BY RootIn DEF Alloc, Trees, Shape
  <2>2. Start.ret = OK /\ Start.node = Root /\ Start.used = 0
    BY DEF Start
  <2>3. Reached(Start, path, 0)
    BY <2>1, <2>2, Answered DEF Reached, Answers
  <2> QED BY <1>1, <2>3
<1>3. ASSUME NEW n \in Nat, n \in T PROVE n + 1 \in T
  <2>1. SUFFICES ASSUME n + 1 <= Len(path) PROVE Reached(w[n + 1], path, n + 1)
    OBVIOUS
  <2>2. Reached(w[n], path, n)
    BY <1>3, <2>1
  <2>3. w[n + 1] = Walked(w[n], path[n + 1])
    <3>1. n + 1 \in 1 .. Len(path) /\ (n + 1) - 1 = n
      BY <2>1
    <3> QED BY <1>1, <3>1
  <2> QED BY <2>2, <2>3, ReachedStep
<1> HIDE DEF T
<1>4. i \in T
  BY <1>2, <1>3, CountUp
<1> QED BY <1>4 DEF T, w

LEMMA VnodeFacts ==
    ASSUME Trees, NEW path, Len(path) \in Nat
    PROVE  Reached(get_vnode(path), path, Len(path))
BY WalkIs, WalkFacts

(* What open, mkdir and mknod create has a name of its own. *)
LEMMA MissingFacts ==
    ASSUME Trees, NEW path, Len(path) \in Nat, Missing(path)
    PROVE  LET v == get_vnode(path).node
           IN /\ v \in Nodes /\ kind[v] = "dir" /\ NoSuch(v, Last(path))
              /\ \A i \in FreeSlots(v) : Last(path) # ""
<1> DEFINE g == get_vnode(path)
<1>1. Reached(g, path, Len(path)) /\ g.ret = PATH_NOT_FOUND /\ g.used = Len(path)
  BY VnodeFacts DEF Missing
<1> HIDE DEF g
<1>2. g.node \in Nodes /\ kind[g.node] = "dir" /\ NoSuch(g.node, path[Len(path)])
  BY <1>1 DEF Reached, Alloc
<1>3. Last(path) = path[Len(path)]
  BY DEF Last
<1>4. ASSUME NEW i \in FreeSlots(g.node) PROVE Last(path) # ""
  <2>1. i \in Slots /\ entry[g.node][i].name = ""
    BY <1>2 DEF FreeSlots, Trees, Slotted
  <2> QED BY <1>2, <1>3, <2>1 DEF NoSuch
<1> QED BY <1>2, <1>3, <1>4 DEF g

(* tmpfs_create and tmpfs_mkdir *)
LEMMA MadeEnters ==
    ASSUME Trees, NEW path, Len(path) \in Nat, Missing(path), Room(path),
           Create(path) \/ Mkdir(path), UNCHANGED mount
    PROVE  \E v \in Nodes, i \in Slots, k \in {"dir", "file"} :
              /\ kind[v] = "dir" /\ NoSuch(v, Last(path)) /\ Last(path) # ""
              /\ i \in FreeSlots(v) /\ Fresh # {} /\ Entered(v, i, Last(path), Min(Fresh), k)
<1> DEFINE v == get_vnode(path).node
           i == IF Create(path) THEN Max(FreeSlots(v)) ELSE Min(FreeSlots(v))
           k == IF Create(path) THEN "file" ELSE "dir"
<1>1. v \in Nodes /\ kind[v] = "dir" /\ NoSuch(v, Last(path)) /\ \A j \in FreeSlots(v) : Last(path) # ""
  BY MissingFacts
<1>2. FreeSlots(v) # {} /\ FreeSlots(v) \in SUBSET (0 .. MaxEntry) /\ MaxEntry \in Nat
  BY FilesAssumption DEF Room, FreeSlots, Slots
<1>3. FreeSlots(v) \in SUBSET Nat
  BY <1>2
<1>4. i \in FreeSlots(v)
  BY <1>2, <1>3, MaxIn, MinIn
<1>5. Entered(v, i, Last(path), Min(Fresh), k) /\ Fresh # {}
  BY DEF Create, Mkdir, NewNode, Linked, Entered
<1>6. k \in {"dir", "file"} /\ i \in Slots
  BY <1>4 DEF FreeSlots
<1> HIDE DEF v, i, k
<1> QED BY <1>1, <1>4, <1>5, <1>6

LEMMA MadeTrees ==
    ASSUME Trees, NEW path, Len(path) \in Nat, Missing(path), Room(path),
           Create(path) \/ Mkdir(path), UNCHANGED mount
    PROVE  Trees'
<1>1. PICK v \in Nodes, i \in Slots, k \in {"dir", "file"} :
              /\ kind[v] = "dir" /\ NoSuch(v, Last(path)) /\ Last(path) # ""
              /\ i \in FreeSlots(v) /\ Fresh # {} /\ Entered(v, i, Last(path), Min(Fresh), k)
  BY MadeEnters
<1>2. \A j \in Slots : entry[v][j].name # Last(path)
  BY <1>1 DEF NoSuch
<1> QED BY <1>1, <1>2, EnteredTrees

(***************************************************************************)
(* The types, and the tree, are kept.                                      *)
(***************************************************************************)
Sized ==
    /\ data \in [Nodes -> Seq(Int)]
    /\ \A v \in Nodes : Len(data[v]) <= MaxPos /\ (data[v] # <<>> => kind[v] = "file")

ObjectType == [vnode : Nodes \cup {NULL}, pos : -1 .. MaxPos, free : Nat,
               use : {"none", "file", "other"}]
ObjTypes == obj \in [Objs -> ObjectType]

Rest ==
    /\ ops \in [Nodes -> {"tmpfs", "uart", "frame"}]
    /\ live \subseteq Procs /\ tainted \subseteq Objs
    /\ pc \in {"boot", "run", "lost"} /\ calls \in Nat

Types == Inv /\ Trees /\ Sized /\ ObjTypes /\ Rest

(* The steps of the boot: the directories and devices of the kernel, and   *)
(* the entries of the archive.                                             *)
Words == STRING \cup {"initramfs", "dev", "uart", "framebuffer"}

LEMMA BootIs ==
    /\ Len(Archive) \in Nat /\ Len(Boot) = Len(Archive) + 4
    /\ Boot[1] = Step(<<"initramfs">>, "dir", <<>>)
    /\ \A i \in 1 .. Len(Archive) : Boot[i + 1] = Archive[i]
    /\ Boot[Len(Archive) + 2] = Step(<<"dev">>, "dir", <<>>)
    /\ Boot[Len(Archive) + 3] = Step(<<"dev", "uart">>, "uart", <<>>)
    /\ Boot[Len(Archive) + 4] = Step(<<"dev", "framebuffer">>, "frame", <<>>)
<1> DEFINE A == Step(<<"initramfs">>, "dir", <<>>)
           B == Step(<<"dev">>, "dir", <<>>)
           C == Step(<<"dev", "uart">>, "uart", <<>>)
           D == Step(<<"dev", "framebuffer">>, "frame", <<>>)
           L == Len(Archive)
           R == {A, B, C, D} \cup {Archive[i] : i \in 1 .. L}
<1>1. Archive = [i \in 1 .. L |-> Archive[i]] /\ L \in Nat
  BY CallAssumption
<1>2. Boot = (<<A>> \o Archive) \o <<B, C, D>>
  BY DEF Boot
<1> HIDE DEF A, B, C, D
<1>3. Archive \in Seq(R) /\ <<A>> \in Seq(R) /\ <<B, C, D>> \in Seq(R)
  BY <1>1
<1> HIDE DEF R
<1> DEFINE X == <<A>> \o Archive
<1>4. X \in Seq(R) /\ Len(X) = L + 1 /\ X[1] = A
      /\ \A i \in 1 .. L : X[i + 1] = Archive[i]
  BY <1>1, <1>3
<1>5. Boot = X \o <<B, C, D>>
  BY <1>2
<1> HIDE DEF X
<1>6. /\ Len(Boot) = L + 4
      /\ \A i \in 1 .. (L + 1) : Boot[i] = X[i]
      /\ Boot[L + 2] = B /\ Boot[L + 3] = C /\ Boot[L + 4] = D
  BY <1>1, <1>3, <1>4, <1>5
<1>7. \A i \in 1 .. L : Boot[i + 1] = Archive[i]
  <2>1. SUFFICES ASSUME NEW i \in 1 .. L PROVE Boot[i + 1] = Archive[i]
    OBVIOUS
  <2>2. i + 1 \in 1 .. (L + 1)
    BY <1>1
  <2> QED BY <1>4, <1>6, <2>2
<1>8. Boot[1] = A
  <2>1. 1 \in 1 .. (L + 1)
    BY <1>1
  <2> QED BY <1>4, <1>6, <2>1
<1> QED BY <1>1, <1>6, <1>7, <1>8 DEF A, B, C, D

LEMMA ArchiveIs ==
    ASSUME NEW i \in 1 .. Len(Archive)
    PROVE  /\ Archive[i].path \in Seq(STRING) /\ Archive[i].what \in {"dir", "file"}
           /\ Archive[i].data \in Seq(Nat) /\ Len(Archive[i].data) <= MaxPos
<1> DEFINE R == [path : Seq(STRING), what : {"dir", "file"}, data : Seq(Nat)]
<1>1. Archive \in Seq(R)
  BY CallAssumption
<1> HIDE DEF R
<1>2. Archive[i] \in R
  BY <1>1
<1> QED BY <1>2, CallAssumption DEF R

(* The kinds of step. *)
LEMMA BootCases ==
    ASSUME NEW i \in 1 .. Len(Boot)
    PROVE  \/ i = 1 /\ Boot[i] = Step(<<"initramfs">>, "dir", <<>>)
           \/ (i - 1) \in 1 .. Len(Archive) /\ Boot[i] = Archive[i - 1]
           \/ i = Len(Archive) + 2 /\ Boot[i] = Step(<<"dev">>, "dir", <<>>)
           \/ i = Len(Archive) + 3 /\ Boot[i] = Step(<<"dev", "uart">>, "uart", <<>>)
           \/ i = Len(Archive) + 4 /\ Boot[i] = Step(<<"dev", "framebuffer">>, "frame", <<>>)
<1>1. CASE (i - 1) \in 1 .. Len(Archive)
  <2>1. PICK k : k = i - 1
    OBVIOUS
  <2>2. i = k + 1 /\ k \in 1 .. Len(Archive)
    BY <1>1, <2>1
  <2> QED BY <2>1, <2>2, BootIs
<1>2. CASE (i - 1) \notin 1 .. Len(Archive)
  <2>1. i \in {1, Len(Archive) + 2, Len(Archive) + 3, Len(Archive) + 4}
    BY <1>2, BootIs
  <2> QED BY <2>1, BootIs
<1> QED BY <1>1, <1>2

LEMMA StepPaths ==
    ASSUME NEW i \in 1 .. Len(Boot)
    PROVE  /\ Boot[i].path \in Seq(Words)
           /\ Boot[i].what \in {"dir", "file", "uart", "frame"}
           /\ Boot[i].what = "file" => Boot[i].data \in Seq(Int) /\ Len(Boot[i].data) <= MaxPos
<1> DEFINE Good(e) == /\ e.path \in Seq(Words)
                      /\ e.what \in {"dir", "file", "uart", "frame"}
                      /\ e.what = "file" => e.data \in Seq(Int) /\ Len(e.data) <= MaxPos
<1>1. /\ Good(Step(<<"initramfs">>, "dir", <<>>)) /\ Good(Step(<<"dev">>, "dir", <<>>))
      /\ Good(Step(<<"dev", "uart">>, "uart", <<>>))
      /\ Good(Step(<<"dev", "framebuffer">>, "frame", <<>>))
  <2>1. /\ <<"initramfs">> \in Seq(Words) /\ <<"dev">> \in Seq(Words)
        /\ <<"dev", "uart">> \in Seq(Words) /\ <<"dev", "framebuffer">> \in Seq(Words)
    BY DEF Words
  <2> QED BY <2>1 DEF Step
<1>2. ASSUME NEW k \in 1 .. Len(Archive) PROVE Good(Archive[k])
  <2>1. Archive[k].path \in Seq(Words)
    <3>1. STRING \subseteq Words
      BY DEF Words
    <3> QED BY <3>1, ArchiveIs, SeqMonotonic
  <2>2. Archive[k].data \in Seq(Int)
    BY ArchiveIs, SeqMonotonic
  <2> QED BY <2>1, <2>2, ArchiveIs
<1> HIDE DEF Good
<1>3. Good(Boot[i])
  BY <1>1, <1>2, BootCases
<1> QED BY <1>3 DEF Good

LEMMA BootEntry ==
    ASSUME NEW n \in Nat, n < Len(Boot)
    PROVE  LET e == Boot[n + 1]
           IN /\ Len(e.path) \in Nat
              /\ e.what = "file" => e.data \in Seq(Int) /\ Len(e.data) <= MaxPos
<1>1. n + 1 \in 1 .. Len(Boot)
  BY BootIs
<1>2. Boot[n + 1].path \in Seq(Words)
  BY <1>1, StepPaths
<1>3. Len(Boot[n + 1].path) \in Nat
  BY <1>2
<1> QED BY <1>1, <1>3, StepPaths

LEMMA WrittenFacts ==
    ASSUME NEW buf \in Seq(Int), NEW q \in Nat, NEW s \in Seq(Int)
    PROVE  /\ Written(buf, q, s) \in Seq(Int)
           /\ Len(Written(buf, q, s)) = IF Len(buf) < q + Len(s) THEN q + Len(s) ELSE Len(buf)
<1> DEFINE to == IF Len(buf) < q + Len(s) THEN Grown(buf, q + Len(s)) ELSE buf
<1>1. Len(buf) \in Nat /\ Len(s) \in Nat /\ \A k \in 1 .. Len(s) : s[k] \in Int
  OBVIOUS
<1>2. ASSUME NEW c \in Nat PROVE Grown(buf, c) \in Seq(Int) /\ Len(Grown(buf, c)) = c
  <2> DEFINE g(k) == IF k <= Len(buf) THEN buf[k] ELSE 0
  <2>1. \A k \in 1 .. c : g(k) \in Int
    BY <1>1
  <2>2. Grown(buf, c) = [k \in 1 .. c |-> g(k)]
    BY DEF Grown
  <2> HIDE DEF g
  <2> QED BY <2>1, <2>2
<1>3. /\ to \in Seq(Int)
      /\ Len(to) = IF Len(buf) < q + Len(s) THEN q + Len(s) ELSE Len(buf)
  <2> DEFINE c == q + Len(s)
  <2>1. c \in Nat
    BY <1>1
  <2>2. Grown(buf, c) \in Seq(Int) /\ Len(Grown(buf, c)) = c
    BY <1>2, <2>1
  <2>3. to = IF Len(buf) < c THEN Grown(buf, c) ELSE buf
    OBVIOUS
  <2> HIDE DEF to, c
  <2>4. to \in Seq(Int) /\ Len(to) = IF Len(buf) < c THEN c ELSE Len(buf)
    BY <2>2, <2>3
  <2> QED BY <2>4 DEF c
<1> HIDE DEF to
<1>4. Written(buf, q, s)
        = [k \in 1 .. Len(to) |-> IF k \in (q + 1) .. (q + Len(s)) THEN s[k - q] ELSE to[k]]
  BY DEF Written, to
<1> DEFINE h(k) == IF k \in (q + 1) .. (q + Len(s)) THEN s[k - q] ELSE to[k]
<1>5. \A k \in 1 .. Len(to) : h(k) \in Int
  <2>1. SUFFICES ASSUME NEW k \in 1 .. Len(to) PROVE h(k) \in Int
    OBVIOUS
  <2>2. to[k] \in Int
    BY <1>3
  <2>3. k \in (q + 1) .. (q + Len(s)) => k - q \in 1 .. Len(s)
    BY <1>1, <1>3
  <2> QED BY <1>1, <2>2, <2>3
<1>6. Written(buf, q, s) = [k \in 1 .. Len(to) |-> h(k)] /\ Len(to) \in Nat
  BY <1>3, <1>4
<1> HIDE DEF h
<1>7. Written(buf, q, s) \in Seq(Int) /\ Len(Written(buf, q, s)) = Len(to)
  BY <1>5, <1>6
<1> QED BY <1>3, <1>7

(* One buffer is written, within the bound, and it is a file's. *)
LEMMA SizedWrite ==
    ASSUME Sized, NEW v \in Nodes, NEW q \in Nat, NEW s \in Seq(Int), q + Len(s) <= MaxPos,
           data' = [data EXCEPT ![v] = Written(data[v], q, s)], kind'[v] = "file",
           \A u \in Nodes : kind[u] = "file" => kind'[u] = "file"
    PROVE  Sized'
<1> DEFINE b == Written(data[v], q, s)
<1>1. data[v] \in Seq(Int) /\ Len(data[v]) <= MaxPos
  BY DEF Sized
<1>2. b \in Seq(Int) /\ Len(b) = IF Len(data[v]) < q + Len(s) THEN q + Len(s) ELSE Len(data[v])
  BY <1>1, WrittenFacts
<1>3. Len(b) <= MaxPos
  BY <1>1, <1>2
<1>4. data' = [data EXCEPT ![v] = b]
  OBVIOUS
<1> HIDE DEF b
<1>5. data' \in [Nodes -> Seq(Int)] /\ data'[v] = b /\ \A u \in Nodes : u # v => data'[u] = data[u]
  BY <1>2, <1>4 DEF Sized
<1>6. ASSUME NEW u \in Nodes
      PROVE  Len(data'[u]) <= MaxPos /\ (data'[u] # <<>> => kind'[u] = "file")
  <2>1. CASE u = v
    BY <1>3, <1>5, <2>1
  <2>2. CASE u # v
    BY <1>5, <2>2 DEF Sized
  <2> QED BY <2>1, <2>2
<1> QED BY <1>5, <1>6 DEF Sized

LEMMA SizedSame ==
    ASSUME Sized, UNCHANGED data, \A u \in Nodes : kind[u] = "file" => kind'[u] = "file"
    PROVE  Sized'
BY DEF Sized

(* A node that was taken has the kind asked for; the others keep theirs. *)
LEMMA TakenKinds ==
    ASSUME Trees, Fresh # {}, NEW k, kind' = [kind EXCEPT ![Min(Fresh)] = k]
    PROVE  /\ Min(Fresh) \in Nodes /\ kind'[Min(Fresh)] = k
           /\ \A u \in Nodes : kind[u] # "none" => kind'[u] = kind[u]
<1> DEFINE n == Min(Fresh)
<1>1. n \in Nodes /\ kind[n] = "none"
  BY FreshNode
<1>2. kind' = [kind EXCEPT ![n] = k]
  OBVIOUS
<1> HIDE DEF n
<1>3. kind'[n] = k /\ \A u \in Nodes : u # n => kind'[u] = kind[u]
  BY <1>1, <1>2 DEF Trees, Shape
<1>4. \A u \in Nodes : kind[u] # "none" => kind'[u] = kind[u]
  BY <1>1, <1>3
<1> QED BY <1>1, <1>3, <1>4 DEF n

LEMMA StillTrees ==
    ASSUME Trees, UNCHANGED <<kind, entry, mount>>
    PROVE  Trees'
<1>1. kind' = kind /\ entry' = entry /\ mount' = mount
  OBVIOUS
<1>2. Shape' /\ Low' /\ Mounted'
  BY <1>1 DEF Trees, Shape, Low, Mounted
<1>3. Slotted'
  <2>1. Alloc' = Alloc
    BY <1>1 DEF Alloc
  <2>2. SUFFICES ASSUME NEW v \in Nodes, NEW i \in Slots
                 PROVE  /\ IsSlot(entry'[v][i])
                        /\ entry'[v][i].next = NULL => entry'[v][i].name = ""
                        /\ entry'[v][i].next # NULL =>
                             /\ entry'[v][i].next \in Alloc' /\ kind'[v] = "dir"
                             /\ entry'[v][i].name # ""
                             /\ \A j \in Slots : i # j => entry'[v][j].name # entry'[v][i].name
    BY DEF Slotted
  <2>3. /\ IsSlot(entry[v][i])
        /\ entry[v][i].next = NULL => entry[v][i].name = ""
        /\ entry[v][i].next # NULL =>
             /\ entry[v][i].next \in Alloc /\ kind[v] = "dir"
             /\ entry[v][i].name # ""
             /\ \A j \in Slots : i # j => entry[v][j].name # entry[v][i].name
    BY DEF Trees, Slotted
  <2> QED BY <1>1, <2>1, <2>3
<1>4. ASSUME NEW u \in Nodes PROVE Links(u)' = Links(u)
  BY <1>1 DEF Links
<1>5. Parents'
  BY <1>1, <1>4 DEF Trees, Parents
<1> QED BY <1>2, <1>3, <1>5 DEF Trees

LEMMA PathLen == \A path \in Paths : Len(path) \in Nat
BY CallAssumption

(* The tree changes by open, mkdir and mount, and in the boot. *)
LEMMA BootTrees ==
    ASSUME Trees, calls \in Nat, BootStep
    PROVE  Trees'
<1> DEFINE e == Boot[calls + 1]
<1>1. calls < Len(Boot) /\ (BootDir(e) \/ BootFile(e) \/ BootDevice(e))
  BY DEF BootStep
<1>2. Len(e.path) \in Nat
  BY <1>1, BootEntry
<1> HIDE DEF e
<1>3. ASSUME Missing(e.path), Room(e.path), Create(e.path) \/ Mkdir(e.path), UNCHANGED mount
      PROVE  Trees'
  BY <1>2, <1>3, MadeTrees
<1>4. ASSUME UNCHANGED <<kind, entry, mount>> PROVE Trees'
  BY <1>4, StillTrees
<1>5. CASE BootDir(e)
  <2>1. CASE Missing(e.path) /\ Room(e.path)
    BY <1>3, <1>5, <2>1 DEF BootDir
  <2>2. CASE ~(Missing(e.path) /\ Room(e.path))
    BY <1>4, <1>5, <2>2 DEF BootDir, tree
  <2> QED BY <2>1, <2>2
<1>6. CASE BootDevice(e)
  <2>1. CASE Missing(e.path) /\ Room(e.path)
    BY <1>3, <1>6, <2>1 DEF BootDevice
  <2>2. CASE ~(Missing(e.path) /\ Room(e.path))
    BY <1>4, <1>6, <2>2 DEF BootDevice, tree
  <2> QED BY <2>1, <2>2
<1>7. CASE BootFile(e)
  <2>1. \/ UNCHANGED tree
        \/ Missing(e.path) /\ Room(e.path) /\ Create(e.path) /\ UNCHANGED mount
    BY <1>7 DEF BootFile
  <2> QED BY <1>3, <1>4, <2>1 DEF tree
<1> QED BY <1>1, <1>5, <1>6, <1>7

LEMMA MountTrees ==
    ASSUME Trees, NEW p \in Procs, NEW path \in Paths, Mount(p, path)
    PROVE  Trees'
<1> DEFINE v == get_vnode(path).node
<1>1. v \in Alloc
  BY PathLen, VnodeFacts DEF Reached
<1>2. /\ Fresh # {} /\ UNCHANGED entry /\ kind' = [kind EXCEPT ![Min(Fresh)] = "dir"]
      /\ mount' = [mount EXCEPT ![v] = Min(Fresh)]
  BY DEF Mount, NewNode
<1> HIDE DEF v
<1> QED BY <1>1, <1>2, MountedTrees

LEMMA OpenTrees ==
    ASSUME Trees, NEW p \in Procs, NEW path \in Paths, NEW creat, Open(p, path, creat)
    PROVE  Trees'
<1>1. \/ UNCHANGED tree
      \/ Missing(path) /\ Room(path) /\ Create(path) /\ UNCHANGED mount
  BY DEF Open
<1>2. CASE UNCHANGED tree
  BY <1>2, StillTrees DEF tree
<1>3. CASE Missing(path) /\ Room(path) /\ Create(path) /\ UNCHANGED mount
  BY <1>3, PathLen, MadeTrees
<1> QED BY <1>1, <1>2, <1>3

LEMMA NextTrees ==
    ASSUME Trees, calls \in Nat, [Next]_vars
    PROVE  Trees'
<1>1. ASSUME UNCHANGED tree PROVE Trees'
  BY <1>1, StillTrees DEF tree
<1>2. CASE BootStep
  BY <1>2, BootTrees
<1>3. CASE Booted \/ KernelAllocates \/ ListRunsAstray \/ UNCHANGED vars
  BY <1>1, <1>3 DEF Booted, KernelAllocates, ListRunsAstray, Derails, vars
<1>4. ASSUME NEW p \in Procs, Spawn(p) \/ BadNumber(p) \/ MountUnknown(p) PROVE Trees'
  BY <1>1, <1>4 DEF Spawn, BadNumber, MountUnknown, Derails
<1>5. ASSUME NEW p \in Procs, NEW path \in Paths, NEW creat \in BOOLEAN, Open(p, path, creat)
      PROVE  Trees'
  BY <1>5, OpenTrees
<1>6. ASSUME NEW p \in Procs, NEW path \in Paths, MkdirCall(p, path) PROVE Trees'
  <2>1. Missing(path) /\ Room(path) /\ Mkdir(path) /\ UNCHANGED mount
    BY <1>6 DEF MkdirCall
  <2> QED BY <2>1, PathLen, MadeTrees
<1>7. ASSUME NEW p \in Procs, NEW path \in Paths, Mount(p, path) PROVE Trees'
  BY <1>7, MountTrees
<1>8. ASSUME NEW p \in Procs, NEW path \in Paths, EmptyComponent(p, path) PROVE Trees'
  BY <1>1, <1>8 DEF EmptyComponent, Derails
<1>9. ASSUME NEW p \in Procs, NEW d \in Fds, Close(p, d) \/ UseDangling(p, d) \/ SeekNotOpen(p, d)
      PROVE  Trees'
  BY <1>1, <1>9 DEF Close, UseDangling, SeekNotOpen, Derails
<1>10. ASSUME NEW p \in Procs, NEW d \in Fds, NEW s \in Bufs, Write(p, d, s) \/ WriteAstray(p, d, s)
       PROVE  Trees'
  BY <1>1, <1>10 DEF Write, WriteAstray, Derails
<1>11. ASSUME NEW p \in Procs, NEW d \in Fds, NEW n \in Lens, Read(p, d, n) \/ ReadAstray(p, d, n)
       PROVE  Trees'
  BY <1>1, <1>11 DEF Read, ReadAstray, Derails
<1>12. ASSUME NEW p \in Procs, NEW d \in Fds, NEW n \in Offsets, Seek(p, d, n) \/ SeekWhence(p, d, n)
       PROVE  Trees'
  BY <1>1, <1>12 DEF Seek, SeekWhence
<1> QED BY <1>2, <1>3, <1>4, <1>5, <1>6, <1>7, <1>8, <1>9, <1>10, <1>11, <1>12 DEF Next

LEMMA NextCalls ==
    ASSUME calls \in Nat, [Next]_vars
    PROVE  calls' \in Nat
<1>1. CASE calls' = calls \/ calls' = calls + 1 \/ calls' = 0
  BY <1>1
<1> SUFFICES ASSUME [Next]_vars PROVE calls' = calls \/ calls' = calls + 1 \/ calls' = 0
  BY <1>1
<1>2. CASE BootStep \/ Booted \/ KernelAllocates \/ ListRunsAstray \/ UNCHANGED vars
  BY <1>2 DEF BootStep, Booted, KernelAllocates, ListRunsAstray, Derails, vars
<1>3. ASSUME NEW p \in Procs, Spawn(p) \/ BadNumber(p) \/ MountUnknown(p)
      PROVE  calls' = calls
  BY <1>3 DEF Spawn, BadNumber, MountUnknown, Derails
<1>4. ASSUME NEW p \in Procs, NEW path \in Paths,
             \/ \E creat \in BOOLEAN : Open(p, path, creat)
             \/ MkdirCall(p, path) \/ Mount(p, path) \/ EmptyComponent(p, path)
      PROVE  calls' = calls \/ calls' = calls + 1
  BY <1>4 DEF Open, MkdirCall, Mount, EmptyComponent, Derails, Returns
<1>5. ASSUME NEW p \in Procs, NEW d \in Fds,
             \/ Close(p, d) \/ UseDangling(p, d) \/ SeekNotOpen(p, d)
             \/ \E s \in Bufs : Write(p, d, s) \/ WriteAstray(p, d, s)
             \/ \E n \in Lens : Read(p, d, n) \/ ReadAstray(p, d, n)
             \/ \E n \in Offsets : Seek(p, d, n) \/ SeekWhence(p, d, n)
      PROVE  calls' = calls \/ calls' = calls + 1
  BY <1>5 DEF Close, UseDangling, SeekNotOpen, Write, WriteAstray, Read, ReadAstray, Seek, SeekWhence,
              Derails, Returns
<1> QED BY <1>2, <1>3, <1>4, <1>5 DEF Next

(* The nodes form trees: what open, mkdir and mount create takes a free    *)
(* slot of a directory under a name no one else has there (tmpfs_create,   *)
(* tmpfs_mkdir), which get_vnode and strtok's leftover state see to.       *)
THEOREM TreeHolds == Spec => []Tree
<1>1. ASSUME Trees PROVE Tree
  <2>1. ASSUME NEW v \in Nodes
        PROVE  Cardinality(Links(v)) \in
                 CASE kind[v] = "file" -> {1}
                   [] kind[v] = "dir" /\ v # Root /\ v \notin Range(mount) -> {0, 1}
                   [] OTHER -> {0}
    <3>1. /\ \A l, m \in Links(v) : l = m
          /\ kind[v] = "file" => Links(v) # {}
          /\ v = Root \/ (\E u \in Nodes : mount[u] = v) => Links(v) = {}
      BY <1>1 DEF Trees, Parents
    <3>2. kind[v] = "none" => Links(v) = {}
      <4>1. SUFFICES ASSUME kind[v] = "none", NEW l \in Nodes \X Slots, entry[l[1]][l[2]].next = v
                     PROVE  FALSE
        BY DEF Links
      <4>2. l[1] \in Nodes /\ l[2] \in Slots
        OBVIOUS
      <4> QED BY <1>1, <4>1, <4>2, RootIn DEF Trees, Slotted, Alloc
    <3>3. v \in Range(mount) <=> \E u \in Nodes : mount[u] = v
      BY <1>1 DEF Range, Trees, Shape
    <3>4. Cardinality({}) = 0 /\ \A l : Cardinality({l}) = 1
      BY FS_EmptySet, FS_Singleton
    <3>5. Links(v) = {} \/ \E l : Links(v) = {l}
      BY <3>1
    <3>6. Cardinality(Links(v)) \in {0, 1} /\ (Links(v) # {} => Cardinality(Links(v)) = 1)
          /\ (Links(v) = {} => Cardinality(Links(v)) = 0)
      BY <3>4, <3>5
    <3>7. kind[v] \in Kinds
      BY <1>1 DEF Trees, Shape
    <3>8. CASE kind[v] = "file"
      BY <3>1, <3>6, <3>8
    <3>9. CASE kind[v] = "dir" /\ v # Root /\ v \notin Range(mount)
      BY <3>6, <3>9
    <3>10. CASE kind[v] = "none" \/ (kind[v] = "dir" /\ (v = Root \/ v \in Range(mount)))
      <4>1. Links(v) = {}
        BY <3>1, <3>2, <3>3, <3>10
      <4> QED BY <3>6, <3>10, <4>1
    <3> QED BY <3>7, <3>8, <3>9, <3>10 DEF Kinds
  <2>2. ASSUME NEW v \in Nodes, NEW i \in Slots, NEW j \in Slots
        PROVE  /\ entry[v][i].next # NULL => kind[v] = "dir" /\ entry[v][i].name # ""
               /\ i # j /\ entry[v][i].next # NULL => entry[v][i].name # entry[v][j].name
    BY <1>1 DEF Trees, Slotted
  <2>3. \A v \in Nodes : mount[v] # NULL => kind[mount[v]] = "dir" /\ mount[v] > v
    BY <1>1 DEF Trees, Mounted
  <2> QED BY <2>1, <2>2, <2>3 DEF Tree
<1>2. Init => calls \in Nat
  BY DEF Init
<1>3. Trees /\ calls \in Nat /\ [Next]_vars => Trees' /\ (calls \in Nat)'
  BY NextTrees, NextCalls
<1> QED BY <1>1, <1>2, <1>3, InitTrees, PTL DEF Spec

(***************************************************************************)
(* The types of the rest.                                                  *)
(***************************************************************************)
LEMMA InitTypes == Init => Types
<1> SUFFICES ASSUME Init PROVE Types
  OBVIOUS
<1>1. data = [v \in Nodes |-> <<>>] /\ ops = [v \in Nodes |-> "tmpfs"]
      /\ live = {} /\ tainted = {} /\ pc = "boot" /\ calls = 0
  BY DEF Init
<1>2. Sized
  <2>1. <<>> \in Seq(Int) /\ Len(<<>>) = 0
    OBVIOUS
  <2> QED BY <1>1, <2>1, FilesAssumption DEF Sized
<1>3. Rest
  BY <1>1 DEF Rest
<1>4. ObjTypes
  <2>1. obj = [o \in Objs |-> [vnode |-> NULL, pos |-> 0, free |-> 1, use |-> "none"]]
    BY DEF Init
  <2>2. [vnode |-> NULL, pos |-> 0, free |-> 1, use |-> "none"] \in ObjectType
    BY FilesAssumption DEF ObjectType
  <2> QED BY <2>1, <2>2 DEF ObjTypes
<1> QED BY <1>2, <1>3, <1>4, InitInv, InitTrees DEF Types

LEMMA ObjPos ==
    ASSUME ObjTypes, NEW o \in Objs, NEW q \in -1 .. MaxPos, obj' = [obj EXCEPT ![o].pos = q]
    PROVE  ObjTypes'
<1> DEFINE r == obj[o]
<1>1. r \in ObjectType
  BY DEF ObjTypes
<1>2. [r EXCEPT !.pos = q] \in ObjectType
  <2> HIDE DEF r
  <2> QED BY <1>1 DEF ObjectType
<1> QED BY <1>2 DEF ObjTypes

LEMMA ObjOpened ==
    ASSUME ObjTypes, NEW o \in Available, NEW v \in Nodes, Opened(o, v)
    PROVE  ObjTypes'
<1> DEFINE r == [vnode |-> v, pos |-> 0, free |-> obj[o].free - 1, use |-> "file"]
<1>1. o \in Objs /\ obj[o].free > 0
  BY AvailableIsFree
<1>2. obj[o].free \in Nat
  BY <1>1 DEF ObjTypes, ObjectType
<1>3. obj[o].free - 1 \in Nat /\ 0 \in -1 .. MaxPos
  BY <1>1, <1>2, FilesAssumption
<1>4. r \in ObjectType
  BY <1>3 DEF ObjectType
<1>5. obj' = [obj EXCEPT ![o] = r]
  BY <1>1 DEF Opened, ObjTypes
<1> HIDE DEF r
<1> QED BY <1>4, <1>5 DEF ObjTypes

LEMMA ObjClosed ==
    ASSUME Inv, ObjTypes, NEW p \in Procs, NEW d \in Fds, Close(p, d)
    PROVE  ObjTypes'
<1> DEFINE o == fd[p][d]
           r == obj[o]
           n == r.free + 1
<1>1. o \in Objs
  BY DEF Close, OpenFile, Inv, Tables
<1>2. r \in ObjectType
  BY <1>1 DEF ObjTypes
<1>3. r.free \in Nat
  BY <1>2 DEF ObjectType
<1>4. n \in Nat
  BY <1>3
<1>5. obj' = [obj EXCEPT ![o] = [[r EXCEPT !.use = "none"] EXCEPT !.free = n]]
  BY <1>1 DEF Close, ObjTypes
<1>6. [[r EXCEPT !.use = "none"] EXCEPT !.free = n] \in ObjectType
  <2> HIDE DEF r, n
  <2>1. [r EXCEPT !.use = "none"] \in ObjectType
    BY <1>2 DEF ObjectType
  <2> DEFINE x == [r EXCEPT !.use = "none"]
  <2>2. x \in ObjectType
    BY <2>1
  <2> HIDE DEF x
  <2>3. [x EXCEPT !.free = n] \in ObjectType
    BY <1>4, <2>2 DEF ObjectType
  <2> QED BY <2>3 DEF x
<1> DEFINE y == [[r EXCEPT !.use = "none"] EXCEPT !.free = n]
<1>7. y \in ObjectType /\ obj' = [obj EXCEPT ![o] = y]
  BY <1>5, <1>6
<1> HIDE DEF y, o, r, n
<1> QED BY <1>1, <1>7 DEF ObjTypes

LEMMA ObjOthers ==
    ASSUME ObjTypes, KernelAllocates
    PROVE  ObjTypes'
<1>1. PICK S \in SUBSET Freed : Others(S)
  BY DEF KernelAllocates
<1>2. ASSUME NEW o \in Objs PROVE obj'[o] \in ObjectType
  <2> DEFINE r == obj[o]
             n == r.free - 1
  <2>1. obj'[o] = IF o \in S THEN [[r EXCEPT !.free = n] EXCEPT !.use = "other"] ELSE r
    BY <1>1 DEF Others
  <2>2. r \in ObjectType
    BY DEF ObjTypes
  <2>3. o \in S => n \in Nat
    <3>1. r.free \in Nat
      BY <2>2 DEF ObjectType
    <3> QED BY <3>1 DEF Freed
  <2> HIDE DEF r, n
  <2>4. ASSUME o \in S PROVE [[r EXCEPT !.free = n] EXCEPT !.use = "other"] \in ObjectType
    <3> DEFINE x == [r EXCEPT !.free = n]
    <3>1. x \in ObjectType
      BY <2>2, <2>3, <2>4 DEF ObjectType
    <3> HIDE DEF x
    <3>2. [x EXCEPT !.use = "other"] \in ObjectType
      BY <3>1 DEF ObjectType
    <3> QED BY <3>2 DEF x
  <2> QED BY <2>1, <2>2, <2>4
<1>3. obj' = [o \in Objs |-> obj'[o]]
  BY <1>1 DEF Others
<1> QED BY <1>2, <1>3 DEF ObjTypes

LEMMA BootTypes ==
    ASSUME Types, BootStep
    PROVE  Sized' /\ ops' \in [Nodes -> {"tmpfs", "uart", "frame"}] /\ pc' \in {"boot", "lost"}
<1> DEFINE e == Boot[calls + 1]
<1>1. calls < Len(Boot) /\ (BootDir(e) \/ BootFile(e) \/ BootDevice(e)) /\ calls \in Nat
      /\ pc = "boot"
  BY DEF BootStep, Types, Rest
<1>2. /\ Len(e.path) \in Nat
      /\ e.what = "file" => e.data \in Seq(Int) /\ Len(e.data) <= MaxPos
  BY <1>1, BootEntry
<1> HIDE DEF e
<1>3. Trees /\ Sized /\ ops \in [Nodes -> {"tmpfs", "uart", "frame"}]
  BY DEF Types, Rest
<1>4. ASSUME UNCHANGED kind \/ (Fresh # {} /\ \E k : NewNode(k)) PROVE
         \A u \in Nodes : kind[u] = "file" => kind'[u] = "file"
  BY <1>3, <1>4, TakenKinds DEF NewNode
<1>5. CASE BootDir(e)
  <2>1. UNCHANGED <<data, pc, ops>> /\ (UNCHANGED kind \/ (Fresh # {} /\ \E k : NewNode(k)))
    BY <1>5 DEF BootDir, Mkdir, tree
  <2> QED BY <1>1, <1>3, <1>4, <2>1, SizedSame
<1>6. CASE BootDevice(e)
  <2>1. UNCHANGED <<data, pc>> /\ (UNCHANGED kind \/ (Fresh # {} /\ \E k : NewNode(k)))
    BY <1>6 DEF BootDevice, Create, tree
  <2>2. ops' \in [Nodes -> {"tmpfs", "uart", "frame"}]
    <3>1. e.what \in {"uart", "frame"}
          /\ (ops' = ops \/ ops' = [ops EXCEPT ![Min(Fresh)] = e.what])
      BY <1>6 DEF BootDevice, tree
    <3> DEFINE n == Min(Fresh)
    <3> HIDE DEF n
    <3>2. ops' = ops \/ ops' = [ops EXCEPT ![n] = e.what]
      BY <3>1 DEF n
    <3> QED BY <1>3, <3>1, <3>2
  <2> QED BY <1>1, <1>3, <1>4, <2>1, <2>2, SizedSame
<1>7. CASE BootFile(e)
  <2>1. e.data \in Seq(Int) /\ 0 + Len(e.data) <= MaxPos /\ UNCHANGED ops /\ 0 \in Nat
    BY <1>2, <1>7 DEF BootFile, tree
  <2> DEFINE v == get_vnode(e.path).node
  <2>2. CASE kind[v] = "file" /\ Unpacked(v, e) /\ UNCHANGED <<tree, pc>>
    <3>1. v \in Nodes
      BY <1>2, <1>3, VnodeFacts DEF Reached, Alloc
    <3>2. UNCHANGED kind /\ data' = [data EXCEPT ![v] = Written(data[v], 0, e.data)]
      BY <2>2, <3>1, <1>3 DEF tree, Unpacked, Sized
    <3> HIDE DEF v
    <3>3. Sized'
      BY <1>3, <2>1, <2>2, <3>1, <3>2, SizedWrite
    <3> QED BY <1>1, <1>3, <2>1, <2>2, <3>3
  <2>3. CASE Create(e.path) /\ Unpacked(Min(Fresh), e) /\ UNCHANGED pc
    <3>1. Fresh # {} /\ kind' = [kind EXCEPT ![Min(Fresh)] = "file"]
      BY <2>3 DEF Create, NewNode
    <3>2. PICK n : n = Min(Fresh)
      OBVIOUS
    <3>3. n \in Nodes /\ kind'[n] = "file" /\ \A u \in Nodes : kind[u] = "file" => kind'[u] = "file"
      BY <1>3, <3>1, <3>2, TakenKinds
    <3>4. data' = [data EXCEPT ![n] = Written(data[n], 0, e.data)]
      BY <2>3, <3>2, <3>3, <1>3 DEF Unpacked, Sized
    <3>5. Sized'
      BY <1>3, <2>1, <3>3, <3>4, SizedWrite
    <3> QED BY <1>1, <1>3, <2>1, <2>3, <3>5
  <2>4. CASE pc' = "lost" /\ UNCHANGED <<tree, data>>
    BY <1>3, <2>1, <2>4, SizedSame DEF tree
  <2> QED BY <1>7, <2>2, <2>3, <2>4 DEF BootFile
<1> QED BY <1>1, <1>5, <1>6, <1>7

(* Calls that write no buffer. *)
LEMMA StillTypes ==
    ASSUME Types, UNCHANGED <<data, ops, live, tainted>>, pc' \in {pc, "run", "lost"},
           \A u \in Nodes : kind[u] = "file" => kind'[u] = "file"
    PROVE  Sized' /\ (ops \in [Nodes -> {"tmpfs", "uart", "frame"}])'
           /\ (live \subseteq Procs)' /\ (tainted \subseteq Objs)'
           /\ (pc \in {"boot", "run", "lost"})'
<1>1. Sized'
  BY SizedSame DEF Types
<1> QED BY <1>1 DEF Types, Rest

LEMMA NextTypes ==
    ASSUME Types, [Next]_vars
    PROVE  Types'
<1>1. Inv' /\ Trees' /\ calls' \in Nat
  BY NextInv, NextTrees, NextCalls DEF Types, Rest
<1>2. /\ Trees /\ Sized /\ ObjTypes /\ Rest /\ Inv
  BY DEF Types
<1>3. ASSUME Sized', ObjTypes', ops' \in [Nodes -> {"tmpfs", "uart", "frame"}],
             live' \subseteq Procs, tainted' \subseteq Objs, pc' \in {"boot", "run", "lost"}
      PROVE  Types'
  BY <1>1, <1>3 DEF Types, Rest
<1>4. ASSUME UNCHANGED <<data, ops, live, tainted>>, pc' \in {pc, "run", "lost"}, ObjTypes',
             \A u \in Nodes : kind[u] = "file" => kind'[u] = "file"
      PROVE  Types'
  BY <1>3, <1>4, StillTypes
<1>5. ASSUME UNCHANGED <<data, ops, live, tainted, kind>>, pc' \in {pc, "run", "lost"}, ObjTypes'
      PROVE  Types'
  BY <1>4, <1>5
<1>6. ASSUME UNCHANGED obj PROVE ObjTypes'
  BY <1>2, <1>6 DEF ObjTypes
<1>7. ASSUME UNCHANGED kind \/ (Fresh # {} /\ \E k : NewNode(k)) PROVE
         \A u \in Nodes : kind[u] = "file" => kind'[u] = "file"
  BY <1>2, <1>7, TakenKinds DEF NewNode
<1>8. CASE BootStep
  <2>1. UNCHANGED <<obj, live, tainted>>
    BY <1>8 DEF BootStep
  <2>2. Sized' /\ ops' \in [Nodes -> {"tmpfs", "uart", "frame"}] /\ pc' \in {"boot", "lost"}
    BY <1>8, BootTypes
  <2> QED BY <1>2, <1>3, <1>6, <2>1, <2>2 DEF Rest
<1>9. CASE Booted \/ ListRunsAstray
  BY <1>5, <1>6, <1>9 DEF Booted, ListRunsAstray, Derails, tree
<1>10. CASE KernelAllocates
  BY <1>2, <1>5, <1>10, ObjOthers DEF KernelAllocates, tree
<1>11. ASSUME NEW p \in Procs, BadNumber(p) \/ MountUnknown(p) PROVE Types'
  BY <1>5, <1>6, <1>11 DEF BadNumber, MountUnknown, Derails, tree
<1>12. ASSUME NEW path, Len(path) \in Nat PROVE get_vnode(path).node \in Nodes
  BY <1>2, <1>12, VnodeFacts DEF Reached, Alloc
<1>13. ASSUME NEW p \in Procs, Spawn(p) PROVE Types'
  <2>1. UNCHANGED <<data, ops, tainted, pc, kind>> /\ live' = live \cup {p}
    BY <1>13 DEF Spawn, tree
  <2>2. Sized'
    BY <1>2, <2>1, SizedSame
  <2>3. ObjTypes'
    <3>1. CASE UNCHANGED obj
      BY <1>6, <3>1
    <3>2. ASSUME NEW o \in Available, Opened(o, get_vnode(<<"dev", "uart">>).node) PROVE ObjTypes'
      <4>1. Len(<<"dev", "uart">>) \in Nat
        OBVIOUS
      <4>2. get_vnode(<<"dev", "uart">>).node \in Nodes
        BY <1>12, <4>1
      <4> QED BY <1>2, <3>2, <4>2, ObjOpened
    <3> QED BY <1>13, <3>1, <3>2 DEF Spawn
  <2> QED BY <1>2, <1>3, <2>1, <2>2, <2>3 DEF Rest
<1>14. ASSUME NEW p \in Procs, NEW path \in Paths, NEW creat \in BOOLEAN, Open(p, path, creat)
       PROVE  Types'
  <2>1. /\ UNCHANGED <<data, ops, live, tainted, pc>>
        /\ UNCHANGED kind \/ (Fresh # {} /\ \E k : NewNode(k))
    BY <1>14 DEF Open, Create, Returns, tree
  <2>2. \E v \in Nodes, o \in Available : Opened(o, v)
    <3>1. get_vnode(path).node \in Nodes
      BY <1>12, PathLen
    <3>2. Fresh # {} => Min(Fresh) \in Nodes
      BY <1>2, FreshNode
    <3> QED BY <1>14, <3>1, <3>2 DEF Open, OpenNode, Create
  <2>3. ObjTypes'
    BY <1>2, <2>2, ObjOpened
  <2> QED BY <1>4, <1>7, <2>1, <2>3
<1>15. ASSUME NEW p \in Procs, NEW path \in Paths, MkdirCall(p, path) \/ Mount(p, path)
       PROVE  Types'
  <2>1. /\ UNCHANGED <<data, ops, live, tainted, pc, obj>>
        /\ UNCHANGED kind \/ (Fresh # {} /\ \E k : NewNode(k))
    BY <1>15 DEF MkdirCall, Mkdir, Mount, Returns, tree
  <2> QED BY <1>4, <1>6, <1>7, <2>1
<1>16. ASSUME NEW p \in Procs, NEW path \in Paths, EmptyComponent(p, path) PROVE Types'
  BY <1>5, <1>6, <1>16 DEF EmptyComponent, Derails, tree
<1>17. ASSUME NEW p \in Procs, NEW d \in Fds, fd[p][d] # NULL
       PROVE  /\ fd[p][d] \in Objs /\ obj[fd[p][d]].pos \in -1 .. MaxPos
              /\ obj[fd[p][d]].vnode \in Nodes \cup {NULL}
  <2>1. fd[p][d] \in Objs
    BY <1>2, <1>17 DEF Inv, Tables
  <2>2. obj[fd[p][d]] \in ObjectType
    BY <1>2, <2>1 DEF ObjTypes
  <2> QED BY <2>1, <2>2 DEF ObjectType
<1>18. ASSUME NEW p \in Procs, NEW d \in Fds, Close(p, d) PROVE Types'
  <2>1. ObjTypes'
    BY <1>2, <1>18, ObjClosed
  <2>2. UNCHANGED <<data, ops, live, pc, kind>> /\ (tainted' = tainted \/ tainted' = tainted \cup {fd[p][d]})
        /\ fd[p][d] # NULL
    BY <1>18 DEF Close, OpenFile, Returns, tree
  <2>3. Sized'
    BY <1>2, <2>2, SizedSame
  <2> QED BY <1>2, <1>3, <1>17, <2>1, <2>2, <2>3 DEF Rest
<1>19. ASSUME NEW p \in Procs, NEW d \in Fds, UseDangling(p, d) \/ SeekNotOpen(p, d) PROVE Types'
  BY <1>5, <1>6, <1>19 DEF UseDangling, SeekNotOpen, Derails, tree
<1>20. ASSUME NEW p \in Procs, NEW d \in Fds,
              (\E s \in Bufs : WriteAstray(p, d, s)) \/ (\E n \in Lens : ReadAstray(p, d, n))
       PROVE  Types'
  BY <1>5, <1>6, <1>20 DEF WriteAstray, ReadAstray, Derails, tree
<1>21. ASSUME NEW p \in Procs, NEW d \in Fds, NEW s \in Bufs, Write(p, d, s) PROVE Types'
  <2> DEFINE o == fd[p][d]
             v == obj[o].vnode
             q == obj[o].pos
  <2>1. o # NULL /\ obj' = [obj EXCEPT ![o].pos = q + Len(s)] /\ q >= 0
        /\ UNCHANGED <<kind, ops, live, tainted, pc>>
        /\ \/ UNCHANGED data /\ q + Len(s) <= FbSize
           \/ /\ kind[v] = "file" /\ q + Len(s) <= MaxPos
              /\ data' = [data EXCEPT ![v] = Written(data[v], q, s)]
    BY <1>21 DEF Write, OpenFile, Returns, tree
  <2>2. o \in Objs /\ q \in -1 .. MaxPos /\ v \in Nodes \cup {NULL}
    BY <1>17, <2>1
  <2>3. s \in Seq(Nat) /\ Len(s) \in Nat
    BY CallAssumption
  <2>4. s \in Seq(Int)
    BY <2>3, SeqMonotonic
  <2>5. q + Len(s) \in -1 .. MaxPos /\ q \in Nat
    <3> HIDE DEF q
    <3>1. FbSize \in Nat /\ MaxPos \in Nat /\ FbSize <= MaxPos
      BY FilesAssumption
    <3>2. q \in Nat
      BY <2>1, <2>2, <3>1
    <3>3. q + Len(s) <= FbSize \/ q + Len(s) <= MaxPos
      BY <2>1
    <3> QED BY <2>3, <3>1, <3>2, <3>3
  <2>6. ObjTypes'
    <3> HIDE DEF q, o
    <3> DEFINE m == q + Len(s)
    <3>1. m \in -1 .. MaxPos /\ obj' = [obj EXCEPT ![o].pos = m]
      BY <2>1, <2>5
    <3> HIDE DEF m
    <3> QED BY <1>2, <2>2, <3>1, ObjPos
  <2>7. Sized'
    <3>1. CASE UNCHANGED data
      BY <1>2, <2>1, <3>1, SizedSame
    <3>2. CASE v = NULL /\ data' = [data EXCEPT ![v] = Written(data[v], q, s)]
      <4>1. data' = data
        BY <1>2, <3>2, RootIn DEF Sized
      <4> QED BY <3>1, <4>1
    <3>3. CASE /\ v \in Nodes /\ kind[v] = "file" /\ q + Len(s) <= MaxPos
               /\ data' = [data EXCEPT ![v] = Written(data[v], q, s)]
      <4>1. kind'[v] = "file" /\ \A u \in Nodes : kind[u] = "file" => kind'[u] = "file"
        BY <2>1, <3>3
      <4> HIDE DEF v, q
      <4> QED BY <1>2, <2>4, <2>5, <3>3, <4>1, SizedWrite
    <3> QED BY <2>1, <2>2, <3>1, <3>2, <3>3
  <2> HIDE DEF o, v, q
  <2> QED BY <1>2, <1>3, <2>1, <2>6, <2>7 DEF Rest
<1>22. ASSUME NEW p \in Procs, NEW d \in Fds, NEW q \in -1 .. MaxPos, fd[p][d] # NULL,
              obj' = [obj EXCEPT ![fd[p][d]].pos = q]
       PROVE  ObjTypes'
  BY <1>2, <1>17, <1>22, ObjPos
<1>23. ASSUME NEW p \in Procs, NEW d \in Fds, NEW n \in Lens, Read(p, d, n) PROVE Types'
  <2> DEFINE q == obj[fd[p][d]].pos
             m == q + n
  <2>1. fd[p][d] # NULL /\ obj' = [obj EXCEPT ![fd[p][d]].pos = m] /\ m <= MaxPos
        /\ UNCHANGED <<data, ops, live, tainted, kind, pc>>
    BY <1>23 DEF Read, OpenFile, tree
  <2>2. q \in -1 .. MaxPos /\ n \in Nat /\ MaxPos \in Nat
    BY <1>17, <2>1, FilesAssumption
  <2>3. m \in -1 .. MaxPos
    BY <2>1, <2>2
  <2> HIDE DEF m
  <2> QED BY <1>5, <1>22, <2>1, <2>3
<1>24. ASSUME NEW p \in Procs, NEW d \in Fds, NEW n \in Offsets, Seek(p, d, n) PROVE Types'
  <2>1. fd[p][d] # NULL /\ obj' = [obj EXCEPT ![fd[p][d]].pos = n]
        /\ UNCHANGED <<data, ops, live, tainted, kind, pc>>
    BY <1>24 DEF Seek, OpenFile, Returns, tree
  <2>2. n \in -1 .. MaxPos
    BY FilesAssumption
  <2> QED BY <1>5, <1>22, <2>1, <2>2
<1>25. ASSUME NEW p \in Procs, NEW d \in Fds, NEW n \in Offsets, SeekWhence(p, d, n) PROVE Types'
  <2> DEFINE m == n - 1
  <2>1. fd[p][d] # NULL /\ obj' = [obj EXCEPT ![fd[p][d]].pos = m]
        /\ UNCHANGED <<data, ops, live, tainted, kind, pc>>
    BY <1>25 DEF SeekWhence, OpenFile, Returns, tree
  <2>2. m \in -1 .. MaxPos
    BY FilesAssumption
  <2> HIDE DEF m
  <2> QED BY <1>5, <1>22, <2>1, <2>2
<1>26. CASE UNCHANGED vars
  BY <1>5, <1>6, <1>26 DEF vars, tree
<1> QED BY <1>8, <1>9, <1>10, <1>11, <1>13, <1>14, <1>15, <1>16, <1>18, <1>19, <1>20, <1>21,
           <1>23, <1>24, <1>25, <1>26 DEF Next

(* Buffers end within the bound and are files', descriptors name objects   *)
(* of the pool, positions are -1 at least, and no object is on the free    *)
(* list less than zero times (tmpfs_write, __lseek64, kmalloc).            *)
THEOREM TypeCorrect == Spec => []TypeOK
<1>1. ASSUME Types PROVE TypeOK
  <2>1. kind \in [Nodes -> Kinds] /\ mount \in [Nodes -> Nodes \cup {NULL}]
    BY <1>1 DEF Types, Trees, Shape
  <2>2. ASSUME NEW v \in Nodes, NEW i \in Slots PROVE entry[v][i].next \in Nodes \cup {NULL}
    BY <1>1 DEF Types, Trees, Slotted, Alloc
  <2>3. ASSUME NEW o \in Objs
        PROVE  /\ obj[o].vnode \in Nodes \cup {NULL} /\ obj[o].pos \in -1 .. MaxPos
               /\ obj[o].free \in Nat /\ obj[o].use \in {"none", "file", "other"}
    <3>1. obj[o] \in ObjectType
      BY <1>1 DEF Types, ObjTypes
    <3> QED BY <3>1 DEF ObjectType
  <2>4. fd \in [Procs -> [Fds -> Objs \cup {NULL}]]
    BY <1>1 DEF Types, Inv, Tables
  <2> QED BY <1>1, <2>1, <2>2, <2>3, <2>4 DEF TypeOK, Types, Sized, Rest, Kinds
<1> QED BY <1>1, InitTypes, NextTypes, PTL DEF Spec

(***************************************************************************)
(* What a path names.                                                      *)
(***************************************************************************)
(* A name in use is found, whichever slot has it. *)
Finds ==
    \A v \in Nodes, i \in Slots : entry[v][i].next # NULL =>
        Lookup(v, entry[v][i].name) = [ret |-> OK, node |-> entry[v][i].next]

LEMMA TreesFind == Trees => Finds
<1> SUFFICES ASSUME Trees, NEW v \in Nodes, NEW i \in Slots, entry[v][i].next # NULL
             PROVE  Lookup(v, entry[v][i].name) = [ret |-> OK, node |-> entry[v][i].next]
  BY DEF Finds
<1> DEFINE c == entry[v][i].name
<1>1. /\ kind[v] = "dir"
      /\ \A j \in Slots : i # j => entry[v][j].name # c
  BY DEF Trees, Slotted
<1>2. v \in Alloc
  BY <1>1 DEF Alloc
<1>3. \E j \in Slots : /\ entry[v][j].name = c
                       /\ Lookup(v, c) = [ret |-> IF entry[v][j].next = NULL THEN Abort ELSE OK,
                                          node |-> entry[v][j].next]
  <2>1. ~NoSuch(v, c)
    BY DEF NoSuch
  <2>2. kind[v] # "file"
    BY <1>1
  <2> HIDE DEF c
  <2> QED BY <1>2, <2>1, <2>2, LookupCases
<1>4. PICK j \in Slots : /\ entry[v][j].name = c
                         /\ Lookup(v, c) = [ret |-> IF entry[v][j].next = NULL THEN Abort ELSE OK,
                                            node |-> entry[v][j].next]
  BY <1>3
<1>5. j = i
  BY <1>1, <1>4
<1> QED BY <1>4, <1>5

(* What lookup found, it finds by a slot in use. *)
LEMMA FoundBySlot ==
    ASSUME Trees, NEW v \in Alloc, NEW c, Lookup(v, c).ret = OK
    PROVE  \E i \in Slots : /\ entry[v][i].name = c /\ entry[v][i].next # NULL
                            /\ Lookup(v, c) = [ret |-> OK, node |-> entry[v][i].next]
<1> DEFINE l == Lookup(v, c)
<1>1. \/ l = [ret |-> FILE_FOUND, node |-> v]
      \/ l = [ret |-> PATH_NOT_FOUND, node |-> v]
      \/ \E i \in Slots : /\ entry[v][i].name = c
                          /\ l = [ret |-> IF entry[v][i].next = NULL THEN Abort ELSE OK,
                                  node |-> entry[v][i].next]
  BY LookupCases
<1>2. l.ret = OK
  OBVIOUS
<1> HIDE DEF l
<1>3. PICK i \in Slots : /\ entry[v][i].name = c
                         /\ l = [ret |-> IF entry[v][i].next = NULL THEN Abort ELSE OK,
                                 node |-> entry[v][i].next]
  BY <1>1, <1>2, Answered
<1>4. l.ret = IF entry[v][i].next = NULL THEN Abort ELSE OK
  BY <1>3
<1>5. entry[v][i].next # NULL
  BY <1>2, <1>4, Answered
<1> QED BY <1>3, <1>5 DEF l

(* Names in use stay in use, for the same node. *)
LEMMA LookupSame ==
    ASSUME Trees, Trees',
           \A u \in Nodes, j \in Slots : entry[u][j].next # NULL => entry'[u][j] = entry[u][j]
    PROVE  \A v \in Alloc : \A c : Lookup(v, c).ret = OK => Lookup(v, c)' = Lookup(v, c)
<1>1. Finds'
  BY TreesFind, PTL
<1>2. SUFFICES ASSUME NEW v \in Alloc, NEW c, Lookup(v, c).ret = OK
               PROVE  Lookup(v, c)' = Lookup(v, c)
  OBVIOUS
<1>3. PICK i \in Slots : /\ entry[v][i].name = c /\ entry[v][i].next # NULL
                         /\ Lookup(v, c) = [ret |-> OK, node |-> entry[v][i].next]
  BY <1>2, FoundBySlot
<1>4. v \in Nodes
  BY DEF Alloc
<1>5. entry'[v][i] = entry[v][i]
  BY <1>3, <1>4
<1>6. ASSUME NEW x, x = entry'[v][i].name, entry'[v][i].next # NULL
      PROVE  Lookup(v, x)' = [ret |-> OK, node |-> entry'[v][i].next]
  BY <1>1, <1>4, <1>6 DEF Finds
<1> QED BY <1>3, <1>5, <1>6

Walks(path) ==
    /\ Walk(path)[0] = Start
    /\ \A i \in 1 .. Len(path) : Walk(path)[i] = Walked(Walk(path)[i - 1], path[i])
    /\ get_vnode(path) = Walk(path)[Len(path)]
AllWalk == \A path : Len(path) \in Nat => Walks(path)

LEMMA AllPathsWalk == AllWalk
BY WalkIs, WalkDef DEF AllWalk, Walks
LEMMA AllPathsWalkAfter == AllWalk'
BY AllPathsWalk, PTL

(* A walk that succeeds succeeded all the way. *)
LEMMA OkBefore ==
    ASSUME NEW path, Len(path) \in Nat, get_vnode(path).ret = OK, NEW i \in 0 .. Len(path)
    PROVE  Walk(path)[i].ret = OK
<1> DEFINE w == Walk(path)
           T == {n \in Nat : n <= Len(path) => w[Len(path) - n].ret = OK}
<1>1. /\ \A k \in 1 .. Len(path) : w[k] = Walked(w[k - 1], path[k])
      /\ get_vnode(path) = w[Len(path)]
  BY AllPathsWalk DEF AllWalk, Walks
<1> HIDE DEF w
<1>2. 0 \in T
  <2>1. Len(path) - 0 = Len(path)
    OBVIOUS
  <2> QED BY <1>1, <2>1
<1>3. ASSUME NEW n \in Nat, n \in T PROVE n + 1 \in T
  <2>1. SUFFICES ASSUME n + 1 <= Len(path), w[Len(path) - (n + 1)].ret # OK PROVE FALSE
    OBVIOUS
  <2> DEFINE k == Len(path) - n
  <2>2. k \in 1 .. Len(path) /\ k - 1 = Len(path) - (n + 1) /\ n <= Len(path)
    BY <2>1
  <2>3. w[k].ret = OK
    BY <1>3, <2>2
  <2> HIDE DEF k
  <2>4. w[k - 1].ret # OK
    BY <2>1, <2>2
  <2>5. w[k] = w[k - 1]
    BY <1>1, <2>2, <2>4 DEF Walked
  <2> QED BY <2>3, <2>4, <2>5
<1> HIDE DEF T
<1>4. Len(path) - i \in T
  BY <1>2, <1>3, CountUp
<1>5. Len(path) - (Len(path) - i) = i
  OBVIOUS
<1> QED BY <1>4, <1>5 DEF T, w

(* The walk of a prefix is a prefix of the walk. *)
LEMMA PrefixWalk ==
    ASSUME NEW path, NEW S, path \in Seq(S), NEW i \in 0 .. Len(path)
    PROVE  get_vnode(SubSeq(path, 1, i)) = Walk(path)[i]
<1> DEFINE q == SubSeq(path, 1, i)
           T == {n \in Nat : n <= i => Walk(q)[n] = Walk(path)[n]}
<1>1. Len(q) = i /\ \A k \in 1 .. i : q[k] = path[k]
  OBVIOUS
<1>2. Len(q) \in Nat /\ Len(path) \in Nat
  BY <1>1
<1> HIDE DEF q
<1>3. Walks(q) /\ Walks(path)
  BY <1>2, AllPathsWalk DEF AllWalk
<1>4. 0 \in T
  BY <1>3 DEF Walks
<1>5. ASSUME NEW n \in Nat, n \in T PROVE n + 1 \in T
  <2>1. SUFFICES ASSUME n + 1 <= i PROVE Walk(q)[n + 1] = Walk(path)[n + 1]
    OBVIOUS
  <2>2. n + 1 \in 1 .. Len(q) /\ n + 1 \in 1 .. Len(path) /\ (n + 1) - 1 = n /\ n <= i
    BY <1>1, <1>2, <2>1
  <2>3. Walk(q)[n] = Walk(path)[n]
    BY <1>5, <2>2
  <2>4. Walk(q)[n + 1] = Walked(Walk(q)[n], q[n + 1])
    BY <1>3, <2>2 DEF Walks
  <2>5. Walk(path)[n + 1] = Walked(Walk(path)[n], path[n + 1])
    BY <1>3, <2>2 DEF Walks
  <2>6. q[n + 1] = path[n + 1]
    BY <1>1, <2>1
  <2> QED BY <2>3, <2>4, <2>5, <2>6
<1> HIDE DEF T
<1>6. i \in T
  BY <1>4, <1>5, CountUp
<1>7. Walk(q)[i] = Walk(path)[i]
  BY <1>6 DEF T
<1> QED BY <1>1, <1>3, <1>7 DEF Walks, q

(* The root is no entry and nowhere mounted. *)
LEMMA RootApart ==
    ASSUME Trees, NEW v \in Nodes
    PROVE  mount[v] # Root /\ \A i \in Slots : entry[v][i].next # Root
<1>1. Links(Root) = {} /\ Root \in Nodes
  BY RootIn DEF Trees, Parents
<1>2. ASSUME NEW i \in Slots PROVE entry[v][i].next # Root
  <2>1. <<v, i>> \in Nodes \X Slots
    OBVIOUS
  <2>2. <<v, i>> \notin Links(Root)
    BY <1>1
  <2> QED BY <2>1, <2>2 DEF Links
<1>3. mount[v] # Root
  <2>1. SUFFICES ASSUME mount[v] = Root PROVE FALSE
    OBVIOUS
  <2>2. Root > v /\ v \in 1 .. MaxNodes
    BY <2>1, RootIn DEF Trees, Mounted, Nodes
  <2> QED BY <2>2, FilesAssumption DEF Root
<1> QED BY <1>2, <1>3

(* A mount changes where the mounts below it lead only if they led to the  *)
(* node that it covers.                                                    *)
LEMMA FollowedSame ==
    ASSUME Trees, Trees', NEW v \in Nodes, mount[v] = NULL \/ v = Root,
           \A u \in Nodes : u # v => mount'[u] = mount[u],
           NEW u \in Nodes, u # Root, Followed[u] # v
    PROVE  Followed'[u] = Followed[u]
<1>1. \A x \in Nodes : Followed[x] = IF mount[x] = NULL THEN x ELSE Followed[mount[x]]
  BY FollowedDef DEF FollowsIn
<1>2. \A x \in Nodes : Followed'[x] = IF mount'[x] = NULL THEN x ELSE Followed'[mount'[x]]
  <2>1. FollowsIn(Followed, Nodes)'
    BY FollowedDef, PTL
  <2> QED BY <2>1 DEF FollowsIn
<1> DEFINE T == {n \in Nat : \A x \in Nodes :
                    x + n > MaxNodes /\ x # Root /\ Followed[x] # v => Followed'[x] = Followed[x]}
<1>3. 0 \in T
  BY FilesAssumption DEF Nodes
<1>4. ASSUME NEW n \in Nat, n \in T PROVE n + 1 \in T
  <2>1. SUFFICES ASSUME NEW x \in Nodes, x + (n + 1) > MaxNodes, x # Root, Followed[x] # v
                 PROVE  Followed'[x] = Followed[x]
    OBVIOUS
  <2>2. x # v
    BY <1>1, <2>1
  <2>3. mount'[x] = mount[x]
    BY <2>2
  <2>4. CASE mount[x] = NULL
    BY <1>1, <1>2, <2>3, <2>4
  <2>5. CASE mount[x] # NULL
    <3>1. mount[x] \in Nodes /\ mount[x] > x
      BY <2>5 DEF Trees, Mounted, Shape
    <3>2. mount[x] # Root
      BY RootApart
    <3>3. mount[x] + n > MaxNodes
      BY <2>1, <3>1, FilesAssumption DEF Nodes
    <3>4. Followed[x] = Followed[mount[x]] /\ Followed'[x] = Followed'[mount[x]]
      BY <1>1, <1>2, <2>3, <2>5
    <3> QED BY <1>4, <2>1, <3>1, <3>2, <3>3, <3>4
  <2> QED BY <2>4, <2>5
<1> HIDE DEF T
<1>5. MaxNodes \in T
  BY <1>3, <1>4, CountUp, FilesAssumption
<1>6. u + MaxNodes > MaxNodes
  BY FilesAssumption DEF Nodes
<1> QED BY <1>5, <1>6 DEF T

(* A path keeps its meaning if on its way lookups give what they gave, and *)
(* mounts lead where they led.                                             *)
LEMMA WalkSame ==
    ASSUME Trees, NEW path, Len(path) \in Nat, get_vnode(path).ret = OK,
           \A v \in Alloc : \A c : Lookup(v, c).ret = OK => Lookup(v, c)' = Lookup(v, c),
           \A i \in 0 .. Len(path), u \in Nodes :
               u # Root /\ Followed[u] = Walk(path)[i].node => Followed'[u] = Followed[u]
    PROVE  get_vnode(path)' = get_vnode(path)
<1>1. Walks(path)
  BY AllPathsWalk DEF AllWalk
<1>2. PICK x : x = Walk(path)'
  OBVIOUS
<1>3. /\ x[0] = Start
      /\ \A i \in 1 .. Len(path) : x[i] = Walked(x[i - 1], path[i])'
      /\ get_vnode(path)' = x[Len(path)]
  BY <1>2, AllPathsWalkAfter DEF AllWalk, Walks
<1>4. PICK w : w = Walk(path)
  OBVIOUS
<1>5. /\ w[0] = Start
      /\ \A i \in 1 .. Len(path) : w[i] = Walked(w[i - 1], path[i])
      /\ get_vnode(path) = w[Len(path)]
  BY <1>1, <1>4 DEF Walks
<1>6. \A i \in 0 .. Len(path) : w[i].ret = OK /\ w[i].node \in Alloc
  BY <1>4, OkBefore, WalkFacts DEF Reached
<1> DEFINE T == {n \in Nat : n <= Len(path) => x[n] = w[n]}
<1>7. 0 \in T
  BY <1>3, <1>5
<1>8. ASSUME NEW n \in Nat, n \in T PROVE n + 1 \in T
  <2>1. SUFFICES ASSUME n + 1 <= Len(path) PROVE x[n + 1] = w[n + 1]
    OBVIOUS
  <2>2. n + 1 \in 1 .. Len(path) /\ (n + 1) - 1 = n /\ n \in 0 .. Len(path) /\ n + 1 \in 0 .. Len(path)
    BY <2>1
  <2>3. PICK r, c : r = w[n] /\ c = path[n + 1]
    OBVIOUS
  <2>4. /\ x[n] = r /\ r.ret = OK /\ r.node \in Alloc
        /\ w[n + 1] = Walked(r, c) /\ w[n + 1].ret = OK
    BY <1>5, <1>6, <1>8, <2>1, <2>2, <2>3
  <2>5. x[n + 1] = Walked(r, c)'
    BY <1>3, <2>2, <2>3, <2>4
  <2>6. PICK l : l = Lookup(r.node, c)
    OBVIOUS
  <2> r.node \in Nodes
    BY <2>4 DEF Alloc
  <2>7. w[n + 1] = [ret |-> l.ret, used |-> r.used + 1,
                    node |-> IF l.ret = OK THEN Followed[l.node] ELSE r.node]
    BY <2>4, <2>6 DEF Walked
  <2>8. l.ret = OK
    BY <2>4, <2>7
  <2>9. Lookup(r.node, c)' = l
    BY <2>4, <2>6, <2>8
  <2>10. Walked(r, c)' = [ret |-> l.ret, used |-> r.used + 1,
                          node |-> IF l.ret = OK THEN Followed'[l.node] ELSE r.node]
    BY <2>4, <2>9 DEF Walked
  <2>11. Followed'[l.node] = Followed[l.node]
    <3>1. l.node \in Nodes /\ l.node # Root
      <4>1. PICK i \in Slots : l = [ret |-> OK, node |-> entry[r.node][i].next]
                               /\ entry[r.node][i].next # NULL
        BY <2>4, <2>6, <2>8, FoundBySlot
      <4>2. r.node \in Nodes
        BY <2>4 DEF Alloc
      <4>3. entry[r.node][i].next \in Nodes
        BY <4>1, <4>2 DEF Trees, Slotted, Alloc
      <4> QED BY <4>1, <4>2, <4>3, RootApart
    <3>2. Followed[l.node] = Walk(path)[n + 1].node
      BY <1>4, <2>7, <2>8
    <3> QED BY <2>2, <3>1, <3>2
  <2> QED BY <2>5, <2>7, <2>10, <2>11
<1> HIDE DEF T
<1>9. Len(path) \in T
  BY <1>7, <1>8, CountUp
<1>10. x[Len(path)] = w[Len(path)]
  BY <1>9 DEF T
<1> QED BY <1>3, <1>5, <1>10

(* What a step does to the tree: nothing, or it adds a node in a free      *)
(* slot, or it mounts one on a node that a path led to.                    *)
Grows == \E v \in Nodes, i \in Slots : \E name :
            \E n \in Nodes, k \in {"dir", "file"} :
                entry[v][i].next = NULL /\ Fresh # {} /\ Entered(v, i, name, n, k)
Covers == \E v \in Nodes, n \in Nodes :
             /\ mount[v] = NULL \/ v = Root
             /\ n # NULL /\ mount' = [mount EXCEPT ![v] = n]
             /\ entry' = entry /\ \A u \in Alloc : kind'[u] = kind[u]

LEMMA MadeGrows ==
    ASSUME Trees, NEW path, Len(path) \in Nat, Missing(path), Room(path),
           Create(path) \/ Mkdir(path), UNCHANGED mount
    PROVE  Grows
<1>1. PICK v \in Nodes, i \in Slots, k \in {"dir", "file"} :
              i \in FreeSlots(v) /\ Fresh # {} /\ Entered(v, i, Last(path), Min(Fresh), k)
  BY MadeEnters
<1>2. entry[v][i].next = NULL /\ Min(Fresh) \in Nodes
  BY <1>1, FreshNode DEF FreeSlots
<1> QED BY <1>1, <1>2 DEF Grows

LEMMA TreeSteps ==
    ASSUME Trees, calls \in Nat, Next, tree' # tree
    PROVE  Grows \/ Covers
<1>1. CASE BootStep
  <2> DEFINE e == Boot[calls + 1]
  <2>1. calls < Len(Boot) /\ (BootDir(e) \/ BootFile(e) \/ BootDevice(e))
    BY <1>1 DEF BootStep
  <2>2. Len(e.path) \in Nat
    BY <2>1, BootEntry
  <2> HIDE DEF e
  <2>3. Missing(e.path) /\ Room(e.path) /\ (Create(e.path) \/ Mkdir(e.path)) /\ UNCHANGED mount
    <3>1. CASE BootDir(e)
      BY <3>1 DEF BootDir
    <3>2. CASE BootFile(e)
      BY <3>2 DEF BootFile
    <3>3. CASE BootDevice(e)
      BY <3>3 DEF BootDevice
    <3> QED BY <2>1, <3>1, <3>2, <3>3
  <2> QED BY <2>2, <2>3, MadeGrows
<1>2. ASSUME NEW p \in Procs, NEW path \in Paths, NEW creat \in BOOLEAN, Open(p, path, creat)
      PROVE  Grows
  <2>1. Missing(path) /\ Room(path) /\ Create(path) /\ UNCHANGED mount
    BY <1>2 DEF Open
  <2> QED BY <2>1, PathLen, MadeGrows
<1>3. ASSUME NEW p \in Procs, NEW path \in Paths, MkdirCall(p, path) PROVE Grows
  <2>1. Missing(path) /\ Room(path) /\ Mkdir(path) /\ UNCHANGED mount
    BY <1>3 DEF MkdirCall
  <2> QED BY <2>1, PathLen, MadeGrows
<1>4. ASSUME NEW p \in Procs, NEW path \in Paths, Mount(p, path) PROVE Covers
  <2> DEFINE v == get_vnode(path).node
  <2>1. v \in Alloc /\ (v = Root \/ mount[v] = NULL)
    BY PathLen, VnodeFacts DEF Reached
  <2>2. /\ Fresh # {} /\ UNCHANGED entry /\ kind' = [kind EXCEPT ![Min(Fresh)] = "dir"]
        /\ mount' = [mount EXCEPT ![v] = Min(Fresh)]
    BY <1>4 DEF Mount, NewNode
  <2>3. Min(Fresh) \in Nodes /\ Min(Fresh) # NULL
        /\ \A u \in Nodes : kind[u] # "none" => kind'[u] = kind[u]
    BY <2>2, FreshNode, TakenKinds
  <2> HIDE DEF v
  <2> QED BY <2>1, <2>2, <2>3 DEF Covers, Alloc
<1>5. ~Booted /\ ~KernelAllocates /\ ~ListRunsAstray
  BY DEF Booted, KernelAllocates, ListRunsAstray, Derails, tree
<1>6. ASSUME NEW p \in Procs PROVE ~Spawn(p) /\ ~BadNumber(p) /\ ~MountUnknown(p)
  BY DEF Spawn, BadNumber, MountUnknown, Derails, tree
<1>7. ASSUME NEW p \in Procs, NEW path \in Paths PROVE ~EmptyComponent(p, path)
  BY DEF EmptyComponent, Derails, tree
<1>8. ASSUME NEW p \in Procs, NEW d \in Fds
      PROVE  ~Close(p, d) /\ ~UseDangling(p, d) /\ ~SeekNotOpen(p, d)
  BY DEF Close, UseDangling, SeekNotOpen, Derails, tree
<1>9. ASSUME NEW p \in Procs, NEW d \in Fds, NEW s \in Bufs PROVE ~Write(p, d, s) /\ ~WriteAstray(p, d, s)
  BY DEF Write, WriteAstray, Derails, tree
<1>10. ASSUME NEW p \in Procs, NEW d \in Fds, NEW n \in Lens
       PROVE  ~Read(p, d, n) /\ ~ReadAstray(p, d, n)
  BY DEF Read, ReadAstray, Derails, tree
<1>11. ASSUME NEW p \in Procs, NEW d \in Fds, NEW n \in Offsets
       PROVE ~Seek(p, d, n) /\ ~SeekWhence(p, d, n)
  BY DEF Seek, SeekWhence, tree
<1> QED BY <1>1, <1>2, <1>3, <1>4, <1>5, <1>6, <1>7, <1>8, <1>9, <1>10, <1>11 DEF Next

LEMMA GrowsSame ==
    ASSUME Trees, Trees', Grows, NEW path, Len(path) \in Nat, get_vnode(path).ret = OK
    PROVE  get_vnode(path)' = get_vnode(path)
<1>0. PICK v \in Nodes, i \in Slots : \E name : \E n \in Nodes, k \in {"dir", "file"} :
         entry[v][i].next = NULL /\ Fresh # {} /\ Entered(v, i, name, n, k)
  BY DEF Grows
<1>1. PICK name : \E n \in Nodes, k \in {"dir", "file"} :
         entry[v][i].next = NULL /\ Fresh # {} /\ Entered(v, i, name, n, k)
  BY <1>0
<1>a. PICK n \in Nodes, k \in {"dir", "file"} :
         entry[v][i].next = NULL /\ Fresh # {} /\ Entered(v, i, name, n, k)
  BY <1>1
<1>b. Grafted(v, i, name, n, k)
  BY <1>a, EnteredFacts
<1>2. \A u \in Nodes, j \in Slots : <<u, j>> # <<v, i>> => entry'[u][j] = entry[u][j]
  BY <1>b DEF Grafted
<1>3. \A u \in Nodes, j \in Slots : entry[u][j].next # NULL => entry'[u][j] = entry[u][j]
  BY <1>a, <1>2
<1>4. \A u \in Alloc : \A c : Lookup(u, c).ret = OK => Lookup(u, c)' = Lookup(u, c)
  BY <1>3, LookupSame
<1>5. Followed' = Followed
  BY <1>a DEF Entered, Followed
<1> QED BY <1>4, <1>5, WalkSame

LEMMA CoversSame ==
    ASSUME Trees, Trees', NEW path \in Paths, get_vnode(path).ret = OK,
           get_vnode(path)' # get_vnode(path), Covers
    PROVE  \E i \in 0 .. Len(path) :
              LET v == get_vnode(SubSeq(path, 1, i)).node
              IN mount'[v] # mount[v] /\ mount[v] = NULL
<1>1. PICK v \in Nodes, n \in Nodes :
             /\ mount[v] = NULL \/ v = Root
             /\ n # NULL /\ mount' = [mount EXCEPT ![v] = n]
             /\ entry' = entry /\ \A u \in Alloc : kind'[u] = kind[u]
  BY DEF Covers
<1>2. mount'[v] = n /\ \A u \in Nodes : u # v => mount'[u] = mount[u]
  BY <1>1 DEF Trees, Shape
<1>3. Len(path) \in Nat /\ path \in Seq(STRING)
  BY CallAssumption
<1>4. \A u \in Alloc : \A c : Lookup(u, c).ret = OK => Lookup(u, c)' = Lookup(u, c)
  BY <1>1, LookupSame
<1>5. PICK i \in 0 .. Len(path), u \in Nodes :
         u # Root /\ Followed[u] = Walk(path)[i].node /\ Followed'[u] # Followed[u]
  BY <1>3, <1>4, WalkSame
<1>6. Followed[u] = v
  BY <1>1, <1>2, <1>5, FollowedSame
<1>7. mount[v] = NULL
  BY <1>5, <1>6, FollowedFacts
<1>8. get_vnode(SubSeq(path, 1, i)).node = v
  BY <1>3, <1>5, <1>6, PrefixWalk
<1> QED BY <1>1, <1>2, <1>7, <1>8, RootIn

(* What a path names it names for good, unless a mount covers a node on    *)
(* the way: nothing is unlinked or renamed, and creation takes free slots  *)
(* and new names (get_vnode, tmpfs_create, tmpfs_mkdir, vfs_mount).        *)
THEOREM PathsAreKept == Spec => PathsStay
<1> DEFINE Stays ==
      tree' # tree => \A path \in Paths :
         LET g == get_vnode(path)
         IN g.ret = OK /\ get_vnode(path)' # g =>
              \E i \in 0 .. Len(path) :
                 LET v == get_vnode(SubSeq(path, 1, i)).node
                 IN mount'[v] # mount[v] /\ mount[v] = NULL
<1>1. Trees /\ calls \in Nat /\ [Next]_vars => [Stays]_vars
  <2>1. SUFFICES ASSUME Trees, calls \in Nat, Next, tree' # tree, NEW path \in Paths,
                        get_vnode(path).ret = OK, get_vnode(path)' # get_vnode(path)
                 PROVE  \E i \in 0 .. Len(path) :
                           LET v == get_vnode(SubSeq(path, 1, i)).node
                           IN mount'[v] # mount[v] /\ mount[v] = NULL
    OBVIOUS
  <2>2. Trees'
    BY <2>1, NextTrees
  <2>3. ~Grows
    BY <2>1, <2>2, PathLen, GrowsSame
  <2>4. Covers
    BY <2>1, <2>3, TreeSteps
  <2> QED BY <2>1, <2>2, <2>4, CoversSame
<1>2. Init => calls \in Nat
  BY DEF Init
<1>3. Trees /\ calls \in Nat /\ [Next]_vars => Trees' /\ (calls \in Nat)'
  BY NextTrees, NextCalls
<1> QED BY <1>1, <1>2, <1>3, InitTrees, PTL DEF Spec, PathsStay

(***************************************************************************)
(* The promise of the descriptors.                                         *)
(***************************************************************************)
(* A struct file names a node that exists, or was never opened. *)
Named == \A o \in Objs : obj[o].vnode \in Alloc \/ (obj[o].vnode = NULL /\ obj[o].use # "file")

(* Devices have no buffer: none exists when the archive is unpacked. *)
Blank == \A v \in Nodes : ops[v] # "tmpfs" => data[v] = <<>>
Early ==
    /\ pc = "boot" => live = {} /\ got = <<>>
    /\ pc = "boot" /\ calls <= Len(Archive) + 2 => \A v \in Nodes : ops[v] = "tmpfs"

KindsKept == \A u \in Nodes : kind[u] # "none" => kind'[u] = kind[u]

LEMMA KindsStay ==
    ASSUME Trees, UNCHANGED kind \/ (Fresh # {} /\ \E k : NewNode(k))
    PROVE  KindsKept
BY TakenKinds DEF NewNode, KindsKept

(* What the calls do to the objects, field by field. *)
LEMMA MovedFields ==
    ASSUME Inv, NEW o \in Objs, NEW q, obj' = [obj EXCEPT ![o].pos = q]
    PROVE  /\ \A x \in Objs : obj'[x].vnode = obj[x].vnode /\ obj'[x].use = obj[x].use
           /\ \A x \in Objs : x # o => obj'[x].pos = obj[x].pos
           /\ obj'[o].pos = q
<1>1. obj[o] = [vnode |-> obj[o].vnode, pos |-> obj[o].pos, free |-> obj[o].free, use |-> obj[o].use]
  BY DEF Inv, Tables, IsObject
<1>2. obj'[o] = [obj[o] EXCEPT !.pos = q]
  BY DEF Inv, Tables
<1>3. [obj[o] EXCEPT !.pos = q]
        = [vnode |-> obj[o].vnode, pos |-> q, free |-> obj[o].free, use |-> obj[o].use]
  BY <1>1
<1>4. \A x \in Objs : x # o => obj'[x] = obj[x]
  BY DEF Inv, Tables
<1> QED BY <1>2, <1>3, <1>4

LEMMA ClosedFields ==
    ASSUME Inv, NEW p \in Procs, NEW d \in Fds, Close(p, d)
    PROVE  \A x \in Objs : obj'[x].vnode = obj[x].vnode /\ obj'[x].pos = obj[x].pos
                           /\ obj'[x].use \in {obj[x].use, "none"}
<1> DEFINE o == fd[p][d]
           r == obj[o]
           r2 == [r EXCEPT !.use = "none"]
           n == r.free + 1
<1>1. obj' = [obj EXCEPT ![o].use = "none", ![o].free = @ + 1] /\ o \in Objs
  BY DEF Close, OpenFile, Inv, Tables
<1>2. r = [vnode |-> r.vnode, pos |-> r.pos, free |-> r.free, use |-> r.use]
  BY <1>1 DEF Inv, Tables, IsObject
<1>3. obj'[o] = [r2 EXCEPT !.free = n] /\ \A x \in Objs : x # o => obj'[x] = obj[x]
  BY <1>1 DEF Inv, Tables
<1> HIDE DEF n
<1>4. r2 = [vnode |-> r.vnode, pos |-> r.pos, free |-> r.free, use |-> "none"]
  <2> HIDE DEF r
  <2> QED BY <1>2
<1>5. [r2 EXCEPT !.free = n] = [vnode |-> r.vnode, pos |-> r.pos, free |-> n, use |-> "none"]
  <2> HIDE DEF r2, r
  <2> QED BY <1>4
<1>6. obj'[o].vnode = r.vnode /\ obj'[o].pos = r.pos /\ obj'[o].use = "none"
  <2> HIDE DEF r2, r, o
  <2> QED BY <1>3, <1>5
<1> QED BY <1>3, <1>6

LEMMA OtherFields ==
    ASSUME Inv, NEW S \in SUBSET Freed, Others(S)
    PROVE  /\ \A x \in Objs : obj'[x].vnode = obj[x].vnode /\ obj'[x].pos = obj[x].pos
                              /\ obj'[x].use \in {obj[x].use, "other"}
           /\ \A x \in Objs \ S : obj'[x] = obj[x]
<1>1. ASSUME NEW x \in Objs
      PROVE  /\ obj'[x].vnode = obj[x].vnode /\ obj'[x].pos = obj[x].pos
             /\ obj'[x].use \in {obj[x].use, "other"}
  <2> DEFINE r == obj[x]
             n == r.free - 1
             y == [r EXCEPT !.free = n]
  <2>1. obj'[x] = IF x \in S THEN [y EXCEPT !.use = "other"] ELSE r
    BY DEF Others
  <2>2. r = [vnode |-> r.vnode, pos |-> r.pos, free |-> r.free, use |-> r.use]
    BY DEF Inv, Tables, IsObject
  <2> HIDE DEF n, r
  <2>3. y = [vnode |-> r.vnode, pos |-> r.pos, free |-> n, use |-> r.use]
    BY <2>2
  <2> HIDE DEF y
  <2>4. [y EXCEPT !.use = "other"] = [vnode |-> r.vnode, pos |-> r.pos, free |-> n, use |-> "other"]
    BY <2>3
  <2>5. obj'[x].vnode = r.vnode /\ obj'[x].pos = r.pos /\ obj'[x].use \in {r.use, "other"}
    BY <2>1, <2>4
  <2> QED BY <2>5 DEF r
<1>2. \A x \in Objs \ S : obj'[x] = obj[x]
  BY DEF Others
<1> QED BY <1>1, <1>2

LEMMA NewFields ==
    ASSUME Inv, NEW o \in Available, NEW v, Opened(o, v)
    PROVE  /\ o \in Objs
           /\ obj'[o].vnode = v /\ obj'[o].pos = 0 /\ obj'[o].use = "file"
           /\ \A x \in Objs : x # o => obj'[x] = obj[x]
<1>1. o \in Objs
  BY AvailableIsFree
<1>2. obj' = [x \in Objs |-> IF x = o
                THEN [vnode |-> v, pos |-> 0, free |-> obj[o].free - 1, use |-> "file"]
                ELSE obj[x]]
  BY DEF Opened, Inv, Tables
<1> QED BY <1>1, <1>2

LEMMA NamedSame ==
    ASSUME Named, KindsKept,
           \A x \in Objs : obj'[x].vnode = obj[x].vnode /\ obj'[x].use \in {obj[x].use, "none", "other"}
    PROVE  Named'
BY DEF Named, KindsKept, Alloc

LEMMA NamedOpened ==
    ASSUME Inv, Named, KindsKept, NEW v \in Nodes, kind'[v] # "none", NEW o \in Available, Opened(o, v)
    PROVE  Named'
<1>1. ASSUME NEW x \in Objs PROVE obj'[x].vnode \in Alloc' \/ (obj'[x].vnode = NULL /\ obj'[x].use # "file")
  <2>1. CASE x = o
    BY <2>1, NewFields DEF Alloc
  <2>2. CASE x # o
    BY <2>2, NewFields DEF Named, KindsKept, Alloc
  <2> QED BY <2>1, <2>2
<1> QED BY <1>1 DEF Named

LEMMA NextNamed ==
    ASSUME Types, Named, [Next]_vars
    PROVE  Named'
<1> Inv /\ Trees
  BY DEF Types
<1>1. ASSUME UNCHANGED obj, KindsKept PROVE Named'
  BY <1>1, NamedSame
<1>2. ASSUME UNCHANGED obj, UNCHANGED kind PROVE Named'
  BY <1>1, <1>2 DEF KindsKept
<1>3. ASSUME NEW path, Len(path) \in Nat
      PROVE  get_vnode(path).node \in Nodes /\ kind[get_vnode(path).node] # "none"
  BY <1>3, VnodeFacts DEF Reached, Alloc
<1>4. CASE BootStep
  <2>1. PICK e : BootDir(e) \/ BootFile(e) \/ BootDevice(e)
    BY <1>4 DEF BootStep
  <2>2. UNCHANGED kind \/ (Fresh # {} /\ \E k : NewNode(k))
    BY <2>1 DEF BootDir, BootFile, BootDevice, Create, Mkdir, tree
  <2> QED BY <1>1, <1>4, <2>2, KindsStay DEF BootStep
<1>5. CASE Booted \/ ListRunsAstray \/ UNCHANGED vars
  BY <1>2, <1>5 DEF Booted, ListRunsAstray, Derails, tree, vars
<1>6. CASE KernelAllocates
  <2>1. PICK S \in SUBSET Freed : Others(S)
    BY <1>6 DEF KernelAllocates
  <2>2. KindsKept
    BY <1>6 DEF KernelAllocates, tree, KindsKept
  <2> QED BY <2>1, <2>2, OtherFields, NamedSame
<1>7. ASSUME NEW p \in Procs, BadNumber(p) \/ MountUnknown(p) PROVE Named'
  BY <1>2, <1>7 DEF BadNumber, MountUnknown, Derails, tree
<1>8. ASSUME NEW p \in Procs, Spawn(p) PROVE Named'
  <2>1. CASE UNCHANGED obj
    BY <1>2, <1>8, <2>1 DEF Spawn, tree
  <2>2. ASSUME NEW o \in Available, Opened(o, get_vnode(<<"dev", "uart">>).node) PROVE Named'
    <3>1. Len(<<"dev", "uart">>) \in Nat
      OBVIOUS
    <3>2. PICK v : v = get_vnode(<<"dev", "uart">>).node
      OBVIOUS
    <3>3. v \in Nodes /\ kind[v] # "none" /\ UNCHANGED kind
      BY <1>3, <1>8, <3>1, <3>2 DEF Spawn, tree
    <3>4. KindsKept /\ kind'[v] # "none"
      BY <3>3 DEF KindsKept
    <3> QED BY <2>2, <3>2, <3>3, <3>4, NamedOpened
  <2> QED BY <1>8, <2>1, <2>2 DEF Spawn
<1>9. ASSUME NEW p \in Procs, NEW path \in Paths, NEW creat \in BOOLEAN, Open(p, path, creat)
      PROVE  Named'
  <2>1. UNCHANGED kind \/ (Fresh # {} /\ \E k : NewNode(k))
    BY <1>9 DEF Open, Create, tree
  <2>2. KindsKept
    BY <2>1, KindsStay
  <2>3. PICK v \in Nodes, o \in Available : Opened(o, v) /\ kind'[v] # "none"
    <3>1. CASE get_vnode(path).ret = OK /\ OpenNode(p, get_vnode(path).node)
      <4>1. kind[get_vnode(path).node] # "none" /\ get_vnode(path).node \in Nodes
        BY <1>3, PathLen
      <4>2. kind'[get_vnode(path).node] # "none"
        BY <2>2, <4>1 DEF KindsKept
      <4> QED BY <3>1, <4>1, <4>2 DEF OpenNode
    <3>2. CASE Create(path) /\ OpenNode(p, Min(Fresh))
      <4>1. Fresh # {} /\ kind' = [kind EXCEPT ![Min(Fresh)] = "file"]
        BY <3>2 DEF Create, NewNode
      <4>2. Min(Fresh) \in Nodes /\ kind'[Min(Fresh)] = "file"
        BY <4>1, TakenKinds
      <4> QED BY <3>2, <4>2 DEF OpenNode
    <3> QED BY <1>9, <3>1, <3>2 DEF Open
  <2> QED BY <2>2, <2>3, NamedOpened
<1>10. ASSUME NEW p \in Procs, NEW path \in Paths,
              MkdirCall(p, path) \/ Mount(p, path) \/ EmptyComponent(p, path)
       PROVE  Named'
  <2>1. UNCHANGED obj /\ (UNCHANGED kind \/ (Fresh # {} /\ \E k : NewNode(k)))
    BY <1>10 DEF MkdirCall, Mkdir, Mount, EmptyComponent, Derails, tree
  <2> QED BY <1>1, <2>1, KindsStay
<1>11. ASSUME NEW p \in Procs, NEW d \in Fds, Close(p, d) PROVE Named'
  <2>1. KindsKept
    BY <1>11 DEF Close, tree, KindsKept
  <2> QED BY <1>11, <2>1, ClosedFields, NamedSame
<1>12. ASSUME NEW p \in Procs, NEW d \in Fds, fd[p][d] # NULL PROVE fd[p][d] \in Objs
  BY <1>12 DEF Inv, Tables
<1>13. ASSUME UNCHANGED kind, NEW o \in Objs, NEW q, obj' = [obj EXCEPT ![o].pos = q]
       PROVE  Named'
  <2>1. KindsKept
    BY <1>13 DEF KindsKept
  <2> QED BY <1>13, <2>1, MovedFields, NamedSame
<1>14. ASSUME NEW p \in Procs, NEW d \in Fds, NEW s \in Bufs, Write(p, d, s) PROVE Named'
  <2>1. PICK q : q = obj[fd[p][d]].pos + Len(s)
    OBVIOUS
  <2>2. UNCHANGED kind /\ fd[p][d] # NULL /\ obj' = [obj EXCEPT ![fd[p][d]].pos = q]
    BY <1>14, <2>1 DEF Write, OpenFile, tree
  <2> QED BY <1>12, <1>13, <2>2
<1>15. ASSUME NEW p \in Procs, NEW d \in Fds, NEW n \in Lens, Read(p, d, n) PROVE Named'
  <2>1. PICK q : q = obj[fd[p][d]].pos + n
    OBVIOUS
  <2>2. UNCHANGED kind /\ fd[p][d] # NULL /\ obj' = [obj EXCEPT ![fd[p][d]].pos = q]
    BY <1>15, <2>1 DEF Read, OpenFile, tree
  <2> QED BY <1>12, <1>13, <2>2
<1>16. ASSUME NEW p \in Procs, NEW d \in Fds, NEW n \in Offsets, Seek(p, d, n) \/ SeekWhence(p, d, n)
       PROVE  Named'
  <2>1. PICK q : q = n - 1
    OBVIOUS
  <2>2. UNCHANGED kind /\ fd[p][d] # NULL
        /\ (obj' = [obj EXCEPT ![fd[p][d]].pos = n] \/ obj' = [obj EXCEPT ![fd[p][d]].pos = q])
    BY <1>16, <2>1 DEF Seek, SeekWhence, OpenFile, tree
  <2> QED BY <1>12, <1>13, <2>2
<1>17. ASSUME NEW p \in Procs, NEW d \in Fds, UseDangling(p, d) \/ SeekNotOpen(p, d)
       PROVE  Named'
  BY <1>2, <1>17 DEF UseDangling, SeekNotOpen, Derails, tree
<1>18. ASSUME NEW p \in Procs, NEW d \in Fds,
              (\E s \in Bufs : WriteAstray(p, d, s)) \/ (\E n \in Lens : ReadAstray(p, d, n))
       PROVE  Named'
  BY <1>2, <1>18 DEF WriteAstray, ReadAstray, Derails, tree
<1> QED BY <1>4, <1>5, <1>6, <1>7, <1>8, <1>9, <1>10, <1>11, <1>14, <1>15, <1>16, <1>17, <1>18
        DEF Next

(* Where in the boot the files and the devices come. *)
LEMMA BootOrder ==
    ASSUME NEW n \in Nat, n < Len(Boot)
    PROVE  /\ Boot[n + 1].what = "file" => n <= Len(Archive)
           /\ Boot[n + 1].what \in {"uart", "frame"} => n >= Len(Archive) + 2
<1>1. PICK i : i = n + 1
  OBVIOUS
<1>2. i \in 1 .. Len(Boot) /\ i - 1 = n /\ Len(Archive) \in Nat
  BY <1>1, BootIs
<1>3. CASE n \in 1 .. Len(Archive)
  <2>1. Boot[i].what \in {"dir", "file"}
    BY <1>1, <1>3, BootIs, ArchiveIs
  <2> QED BY <1>1, <1>3, <2>1
<1>4. CASE n \notin 1 .. Len(Archive)
  <2>1. \/ n = 0 /\ Boot[i].what = "dir"
        \/ n = Len(Archive) + 1 /\ Boot[i].what = "dir"
        \/ n >= Len(Archive) + 2 /\ Boot[i].what \in {"uart", "frame"}
    BY <1>2, <1>4, BootCases DEF Step
  <2> QED BY <1>1, <1>2, <2>1
<1> QED BY <1>3, <1>4

(* Only the boot goes on with the boot. *)
LEMMA RunningStep ==
    ASSUME [Next]_vars, ~BootStep, ~Booted, ~UNCHANGED vars
    PROVE  pc = "run" /\ pc' \in {"run", "lost"} /\ UNCHANGED ops
<1>1. CASE KernelAllocates \/ ListRunsAstray
  BY <1>1 DEF KernelAllocates, ListRunsAstray, Derails, tree
<1>2. ASSUME NEW p \in Procs, Spawn(p) \/ BadNumber(p) \/ MountUnknown(p)
      PROVE  pc = "run" /\ pc' \in {"run", "lost"} /\ UNCHANGED ops
  BY <1>2 DEF Spawn, BadNumber, MountUnknown, Derails, Calling, tree
<1>3. ASSUME NEW p \in Procs, NEW path \in Paths,
             \/ \E creat \in BOOLEAN : Open(p, path, creat)
             \/ MkdirCall(p, path) \/ Mount(p, path) \/ EmptyComponent(p, path)
      PROVE  pc = "run" /\ pc' \in {"run", "lost"} /\ UNCHANGED ops
  BY <1>3 DEF Open, MkdirCall, Mount, EmptyComponent, Derails, Returns, Calling, tree
<1>4. ASSUME NEW p \in Procs, NEW d \in Fds,
             \/ Close(p, d) \/ UseDangling(p, d) \/ SeekNotOpen(p, d)
             \/ \E s \in Bufs : Write(p, d, s) \/ WriteAstray(p, d, s)
             \/ \E n \in Lens : Read(p, d, n) \/ ReadAstray(p, d, n)
             \/ \E n \in Offsets : Seek(p, d, n) \/ SeekWhence(p, d, n)
      PROVE  pc = "run" /\ pc' \in {"run", "lost"} /\ UNCHANGED ops
  BY <1>4 DEF Close, UseDangling, SeekNotOpen, Write, WriteAstray, Read, ReadAstray, Seek, SeekWhence,
              OpenFile, Derails, Returns, Calling, tree
<1> QED BY <1>1, <1>2, <1>3, <1>4 DEF Next

LEMMA NextEarly ==
    ASSUME Types, Early, [Next]_vars
    PROVE  Early'
<1>1. CASE BootStep
  <2> DEFINE e == Boot[calls + 1]
  <2>1. calls \in Nat /\ calls < Len(Boot) /\ calls' = calls + 1 /\ UNCHANGED <<live, got>>
        /\ pc = "boot" /\ (BootDir(e) \/ BootFile(e) \/ BootDevice(e))
    BY <1>1 DEF BootStep, Types, Rest
  <2>2. e.what \in {"uart", "frame"} => calls >= Len(Archive) + 2
    BY <2>1, BootOrder
  <2>3. Len(Archive) \in Nat
    BY CallAssumption
  <2> HIDE DEF e
  <2>4. CASE BootDir(e) \/ BootFile(e)
    <3>1. UNCHANGED ops
      BY <2>4 DEF BootDir, BootFile, tree
    <3> QED BY <2>1, <2>3, <3>1 DEF Early
  <2>5. CASE BootDevice(e)
    BY <2>1, <2>2, <2>3, <2>5 DEF Early, BootDevice
  <2> QED BY <2>1, <2>4, <2>5
<1>2. CASE Booted
  BY <1>2 DEF Booted, Early
<1>3. CASE UNCHANGED vars
  BY <1>3 DEF vars, tree, Early
<1> QED BY <1>1, <1>2, <1>3, RunningStep DEF Early

LEMMA NextBlank ==
    ASSUME Types, Early, Blank, [Next]_vars
    PROVE  Blank'
<1> Trees /\ Sized /\ ops \in [Nodes -> {"tmpfs", "uart", "frame"}]
  BY DEF Types, Rest
<1>1. ASSUME UNCHANGED <<ops, data>> PROVE Blank'
  BY <1>1 DEF Blank
<1>2. ASSUME UNCHANGED ops, NEW v \in Nodes, ops[v] = "tmpfs",
             \A u \in Nodes : u # v => data'[u] = data[u]
      PROVE  Blank'
  BY <1>2 DEF Blank
<1>3. CASE BootStep
  <2> DEFINE e == Boot[calls + 1]
  <2>1. calls \in Nat /\ calls < Len(Boot)
        /\ pc = "boot" /\ (BootDir(e) \/ BootFile(e) \/ BootDevice(e))
    BY <1>3 DEF BootStep, Types, Rest
  <2>2. (e.what = "file" => calls <= Len(Archive)) /\ Len(e.path) \in Nat
    BY <2>1, BootOrder, BootEntry
  <2>3. Len(Archive) \in Nat
    BY CallAssumption
  <2> HIDE DEF e
  <2>4. CASE BootDir(e)
    BY <1>1, <2>4 DEF BootDir, tree
  <2>5. CASE BootFile(e)
    <3>1. \A v \in Nodes : ops[v] = "tmpfs"
      BY <2>1, <2>2, <2>3, <2>5 DEF Early, BootFile
    <3>2. UNCHANGED ops
      BY <2>5 DEF BootFile, tree
    <3> QED BY <3>1, <3>2 DEF Blank
  <2>6. CASE BootDevice(e)
    <3>1. UNCHANGED data
      BY <2>6 DEF BootDevice
    <3>2. CASE UNCHANGED ops
      BY <1>1, <3>1, <3>2
    <3>3. CASE Fresh # {} /\ ops' = [ops EXCEPT ![Min(Fresh)] = e.what]
      <4>1. PICK n : n = Min(Fresh)
        OBVIOUS
      <4>2. n \in Nodes /\ kind[n] = "none"
        BY <3>3, <4>1, FreshNode
      <4>3. data[n] = <<>>
        BY <4>2 DEF Sized
      <4>4. \A u \in Nodes : u # n => ops'[u] = ops[u]
        BY <3>3, <4>1
      <4> QED BY <3>1, <4>3, <4>4 DEF Blank
    <3> QED BY <2>6, <3>2, <3>3 DEF BootDevice, Create, tree
  <2> QED BY <2>1, <2>4, <2>5, <2>6
<1>4. CASE Booted \/ UNCHANGED vars
  BY <1>1, <1>4 DEF Booted, vars, tree
<1>5. CASE pc = "run" /\ UNCHANGED ops
  <2>1. CASE UNCHANGED data
    BY <1>1, <1>5, <2>1
  <2>2. CASE \E p \in Procs, d \in Fds, s \in Bufs : Write(p, d, s)
    <3>1. PICK p \in Procs, d \in Fds, s \in Bufs : Write(p, d, s)
      BY <2>2
    <3>2. PICK v : v = obj[fd[p][d]].vnode
      OBVIOUS
    <3>3. CASE UNCHANGED data
      BY <2>1, <3>3
    <3>4. CASE ops[v] = "tmpfs" /\ \E b : data' = [data EXCEPT ![v] = b]
      <4>1. CASE v \in Nodes
        BY <1>2, <1>5, <3>4, <4>1 DEF Sized
      <4>2. CASE v \notin Nodes
        <5>1. UNCHANGED data
          BY <3>4, <4>2 DEF Sized
        <5> QED BY <2>1, <5>1
      <4> QED BY <4>1, <4>2
    <3> QED BY <3>1, <3>2, <3>3, <3>4 DEF Write
  <2>3. ASSUME ~UNCHANGED data, ~BootStep
        PROVE  \E p \in Procs, d \in Fds, s \in Bufs : Write(p, d, s)
    <3>1. ~Booted /\ ~KernelAllocates /\ ~ListRunsAstray /\ ~UNCHANGED vars
      BY <2>3 DEF Booted, KernelAllocates, ListRunsAstray, Derails, vars
    <3>2. ASSUME NEW p \in Procs PROVE ~Spawn(p) /\ ~BadNumber(p) /\ ~MountUnknown(p)
      BY <2>3 DEF Spawn, BadNumber, MountUnknown, Derails
    <3>3. ASSUME NEW p \in Procs, NEW path \in Paths
          PROVE  ~(\/ \E creat \in BOOLEAN : Open(p, path, creat)
                   \/ MkdirCall(p, path) \/ Mount(p, path) \/ EmptyComponent(p, path))
      BY <2>3 DEF Open, MkdirCall, Mount, EmptyComponent, Derails
    <3>4. ASSUME NEW p \in Procs, NEW d \in Fds
          PROVE  ~(\/ Close(p, d) \/ UseDangling(p, d) \/ SeekNotOpen(p, d)
                   \/ \E s \in Bufs : WriteAstray(p, d, s)
                   \/ \E n \in Lens : Read(p, d, n) \/ ReadAstray(p, d, n)
                   \/ \E n \in Offsets : Seek(p, d, n) \/ SeekWhence(p, d, n))
      BY <2>3 DEF Close, UseDangling, SeekNotOpen, WriteAstray, Read, ReadAstray, Seek, SeekWhence, Derails
    <3> QED BY <2>3, <3>1, <3>2, <3>3, <3>4 DEF Next
  <2>4. ~BootStep
    BY <1>5 DEF BootStep
  <2> QED BY <2>1, <2>2, <2>3, <2>4
<1> QED BY <1>3, <1>4, <1>5, RunningStep

Promise == Types /\ Forward /\ Named /\ Blank /\ Early

LEMMA InitPromise == Init => Promise
<1> SUFFICES ASSUME Init PROVE Promise
  OBVIOUS
<1>1. /\ obj = [o \in Objs |-> [vnode |-> NULL, pos |-> 0, free |-> 1, use |-> "none"]]
      /\ data = [v \in Nodes |-> <<>>] /\ ops = [v \in Nodes |-> "tmpfs"]
      /\ live = {} /\ got = <<>>
  BY DEF Init
<1>2. Forward /\ Named /\ Blank /\ Early
  BY <1>1 DEF Forward, Named, Blank, Early
<1> QED BY <1>2, InitTypes DEF Promise

LEMMA NextPromise ==
    ASSUME Promise, [Next]_vars
    PROVE  Promise'
BY NextTypes, NextForward, NextNamed, NextBlank, NextEarly DEF Promise, Types

Descr == Procs \X Fds
Sound == tainted = {} /\ misuse = {} /\ pc # "lost"
Regular(v) == kind[v] = "file" /\ ops[v] = "tmpfs"
Position(v, q, H) == [file |-> v, pos |-> q, with |-> H]

LEMMA StandsAt ==
    ASSUME NEW h \in Descr, NEW o, fd[h[1]][h[2]] = o
    PROVE  Stands[h] = IF o # NULL /\ Regular(obj[o].vnode)
                         THEN Position(obj[o].vnode, obj[o].pos, Held(fd, o)) ELSE Shut
BY DEF Stands, Regular, Position, Holders, Held, Descr

LEMMA StandsAtNext ==
    ASSUME NEW h \in Descr, NEW o, fd'[h[1]][h[2]] = o
    PROVE  Stands'[h] = IF o # NULL /\ kind'[obj'[o].vnode] = "file" /\ ops'[obj'[o].vnode] = "tmpfs"
                          THEN Position(obj'[o].vnode, obj'[o].pos, Held(fd', o)) ELSE Shut
BY DEF Stands, Position, Holders, Held, Descr

LEMMA StandsIs ==
    ASSUME NEW f, \A h \in Descr : Stands'[h] = f[h]
    PROVE  Stands' = [h \in Descr |-> f[h]]
<1>1. Stands' = [h \in Descr |-> Stands'[h]]
  BY DEF Stands, Descr
<1> QED BY <1>1

(* A struct file some descriptor holds, when none was freed too early. *)
LEMMA HeldFacts ==
    ASSUME Promise, tainted = {}, NEW h \in Descr, NEW o, fd[h[1]][h[2]] = o, o # NULL
    PROVE  /\ o \in Objs /\ h \in Held(fd, o)
           /\ obj[o].use = "file" /\ obj[o].free = 0
           /\ obj[o].vnode \in Nodes /\ kind[obj[o].vnode] # "none"
<1>1. Inv /\ Named
  BY DEF Promise, Types
<1>2. h[1] \in Procs /\ h[2] \in Fds
  BY DEF Descr
<1>3. o \in Objs
  BY <1>1, <1>2 DEF Inv, Tables
<1>4. h \in Held(fd, o)
  BY DEF Held, Descr
<1>5. obj[o].use = "file" /\ obj[o].free = 0
  BY <1>1, <1>3, <1>4 DEF Inv, Owned
<1> QED BY <1>1, <1>3, <1>4, <1>5 DEF Named, Alloc

(* Nothing changes for anyone. *)
LEMMA StandsSame ==
    ASSUME Promise, tainted = {}, UNCHANGED <<fd, ops>>, KindsKept,
           \A o \in Objs : Held(fd, o) # {} => obj'[o].vnode = obj[o].vnode
                           /\ (obj'[o].pos = obj[o].pos \/ ~Regular(obj[o].vnode))
    PROVE  Stands' = Stands
<1>1. ASSUME NEW h \in Descr PROVE Stands'[h] = Stands[h]
  <2>1. PICK o : o = fd[h[1]][h[2]]
    OBVIOUS
  <2>2. fd' = fd
    OBVIOUS
  <2>3. Stands'[h] = IF o # NULL /\ kind'[obj'[o].vnode] = "file" /\ ops'[obj'[o].vnode] = "tmpfs"
                       THEN Position(obj'[o].vnode, obj'[o].pos, Held(fd', o)) ELSE Shut
    BY <2>1, <2>2, StandsAtNext
  <2>4. Stands[h] = IF o # NULL /\ Regular(obj[o].vnode)
                      THEN Position(obj[o].vnode, obj[o].pos, Held(fd, o)) ELSE Shut
    BY <2>1, StandsAt
  <2>5. CASE o = NULL
    BY <2>3, <2>4, <2>5
  <2>6. CASE o # NULL
    <3>1. o \in Objs /\ Held(fd, o) # {} /\ obj[o].vnode \in Nodes /\ kind[obj[o].vnode] # "none"
      BY <2>1, <2>6, HeldFacts
    <3>2. obj'[o].vnode = obj[o].vnode /\ (obj'[o].pos = obj[o].pos \/ ~Regular(obj[o].vnode))
      BY <3>1
    <3>3. kind'[obj[o].vnode] = kind[obj[o].vnode] /\ ops' = ops
      BY <3>1 DEF KindsKept
    <3> QED BY <2>2, <2>3, <2>4, <2>6, <3>2, <3>3 DEF Regular
  <2> QED BY <2>5, <2>6
<1>2. Stands' = [h \in Descr |-> Stands[h]]
  BY <1>1, StandsIs
<1>3. Stands = [h \in Descr |-> Stands[h]]
  BY DEF Stands, Descr
<1> QED BY <1>2, <1>3

(* One struct file moves. *)
Repositioned(o, q) == obj' = [obj EXCEPT ![o].pos = q]
Following(v, q, H) == Stands' = [g \in Descr |-> IF g \in H THEN Position(v, q, H) ELSE Stands[g]]

LEMMA StandsMoved ==
    ASSUME Promise, tainted = {}, NEW h \in Descr, NEW o, fd[h[1]][h[2]] = o, o # NULL, NEW q,
           Regular(obj[o].vnode),
           UNCHANGED <<fd, ops, kind>>, Repositioned(o, q)
    PROVE  /\ Stands[h] = Position(obj[o].vnode, obj[o].pos, Held(fd, o))
           /\ Following(obj[o].vnode, q, Held(fd, o))
<1>1. o \in Objs /\ Inv
  BY HeldFacts DEF Promise, Types
<1>2. /\ \A x \in Objs : obj'[x].vnode = obj[x].vnode
      /\ \A x \in Objs : x # o => obj'[x].pos = obj[x].pos
      /\ obj'[o].pos = q
  BY <1>1, MovedFields DEF Repositioned
<1>3. fd' = fd /\ ops' = ops /\ kind' = kind
  OBVIOUS
<1>4. Stands[h] = Position(obj[o].vnode, obj[o].pos, Held(fd, o))
  BY StandsAt
<1> DEFINE f == [g \in Descr |-> IF g \in Held(fd, o)
                                   THEN Position(obj[o].vnode, q, Held(fd, o)) ELSE Stands[g]]
<1>5. ASSUME NEW g \in Descr PROVE Stands'[g] = f[g]
  <2>1. PICK x : x = fd[g[1]][g[2]]
    OBVIOUS
  <2>2. Stands'[g] = IF x # NULL /\ kind[obj'[x].vnode] = "file" /\ ops[obj'[x].vnode] = "tmpfs"
                       THEN Position(obj'[x].vnode, obj'[x].pos, Held(fd, x)) ELSE Shut
    BY <1>3, <2>1, StandsAtNext
  <2>3. Stands[g] = IF x # NULL /\ Regular(obj[x].vnode)
                      THEN Position(obj[x].vnode, obj[x].pos, Held(fd, x)) ELSE Shut
    BY <2>1, StandsAt
  <2>4. g \in Held(fd, o) <=> x = o
    BY <2>1 DEF Held, Descr
  <2>5. x # NULL => x \in Objs
    BY <2>1, HeldFacts
  <2>6. CASE x = o
    BY <1>1, <1>2, <2>2, <2>4, <2>6 DEF Regular
  <2>7. CASE x # o /\ x # NULL
    BY <1>2, <2>2, <2>3, <2>4, <2>5, <2>7 DEF Regular
  <2>8. CASE x = NULL
    BY <2>2, <2>3, <2>4, <2>8
  <2> QED BY <2>6, <2>7, <2>8
<1>6. Stands' = [g \in Descr |-> f[g]]
  <2> HIDE DEF f
  <2> QED BY <1>5, StandsIs
<1> QED BY <1>4, <1>6 DEF Following

(* A new struct file, for the descriptors H. *)
LEMMA StandsOpened ==
    ASSUME Promise, tainted = {}, NEW H \in SUBSET Descr, NEW v \in Nodes, NEW o \in Available, Opened(o, v),
           \A h \in H : fd[h[1]][h[2]] = NULL /\ fd'[h[1]][h[2]] = o,
           \A g \in Descr \ H : fd'[g[1]][g[2]] = fd[g[1]][g[2]],
           ops' = ops, KindsKept
    PROVE  /\ \A h \in H : Stands[h] = Shut
           /\ Stands' = IF kind'[v] = "file" /\ ops[v] = "tmpfs"
                          THEN [g \in Descr |-> IF g \in H THEN Position(v, 0, H) ELSE Stands[g]]
                          ELSE Stands
<1>1. Inv /\ o \notin tainted
  BY DEF Promise, Types
<1>2. /\ o \in Objs /\ Held(fd, o) = {}
      /\ obj'[o].vnode = v /\ obj'[o].pos = 0
      /\ \A x \in Objs : x # o => obj'[x] = obj[x]
  BY <1>1, OpenedFacts, NewFields
<1>3. o # NULL
  BY <1>2, NullIsNoObject
<1>4. Held(fd', o) = H
  <2>1. ASSUME NEW g \in Descr PROVE fd'[g[1]][g[2]] = o <=> g \in H
    <3>1. CASE g \in H
      BY <3>1
    <3>2. CASE g \notin H
      <4>1. fd'[g[1]][g[2]] = fd[g[1]][g[2]] /\ fd[g[1]][g[2]] # o
        BY <1>2, <3>2 DEF Held, Descr
      <4> QED BY <3>2, <4>1
    <3> QED BY <3>1, <3>2
  <2> QED BY <2>1 DEF Held, Descr
<1>5. ASSUME NEW x, x # o, x # NULL PROVE Held(fd', x) = Held(fd, x)
  <2>1. ASSUME NEW g \in Descr PROVE fd'[g[1]][g[2]] = x <=> fd[g[1]][g[2]] = x
    <3>1. CASE g \in H
      BY <1>5, <3>1
    <3>2. CASE g \notin H
      BY <3>2
    <3> QED BY <3>1, <3>2
  <2> QED BY <2>1 DEF Held, Descr
<1>6. ASSUME NEW h \in H PROVE Stands[h] = Shut
  BY <1>6, StandsAt
<1>7. ASSUME NEW h \in H
      PROVE  Stands'[h] = IF kind'[v] = "file" /\ ops[v] = "tmpfs" THEN Position(v, 0, H) ELSE Shut
  BY <1>2, <1>3, <1>4, <1>7, StandsAtNext
<1>8. ASSUME NEW g \in Descr \ H PROVE Stands'[g] = Stands[g]
  <2>1. PICK x : x = fd[g[1]][g[2]]
    OBVIOUS
  <2>2. x = fd'[g[1]][g[2]]
    BY <1>8, <2>1
  <2>3. Stands'[g] = IF x # NULL /\ kind'[obj'[x].vnode] = "file" /\ ops[obj'[x].vnode] = "tmpfs"
                       THEN Position(obj'[x].vnode, obj'[x].pos, Held(fd', x)) ELSE Shut
    BY <2>2, StandsAtNext
  <2>4. Stands[g] = IF x # NULL /\ Regular(obj[x].vnode)
                      THEN Position(obj[x].vnode, obj[x].pos, Held(fd, x)) ELSE Shut
    BY <2>1, StandsAt
  <2>5. CASE x = NULL
    BY <2>3, <2>4, <2>5
  <2>6. CASE x # NULL
    <3>1. x \in Objs /\ x # o /\ obj[x].vnode \in Nodes /\ kind[obj[x].vnode] # "none"
      <4>1. g \in Held(fd, x)
        BY <2>1 DEF Held, Descr
      <4> QED BY <1>2, <2>1, <2>6, <4>1, HeldFacts
    <3>2. obj'[x] = obj[x] /\ Held(fd', x) = Held(fd, x) /\ kind'[obj[x].vnode] = kind[obj[x].vnode]
      BY <1>2, <1>5, <2>6, <3>1 DEF KindsKept
    <3> QED BY <2>3, <2>4, <3>2 DEF Regular
  <2> QED BY <2>5, <2>6
<1>9. CASE kind'[v] = "file" /\ ops[v] = "tmpfs"
  <2> DEFINE f == [g \in Descr |-> IF g \in H THEN Position(v, 0, H) ELSE Stands[g]]
  <2>1. \A g \in Descr : Stands'[g] = f[g]
    BY <1>7, <1>8, <1>9
  <2>2. Stands' = [g \in Descr |-> f[g]]
    <3> HIDE DEF f
    <3> QED BY <2>1, StandsIs
  <2> QED BY <1>6, <1>9, <2>2
<1>10. CASE ~(kind'[v] = "file" /\ ops[v] = "tmpfs")
  <2>1. \A g \in Descr : Stands'[g] = Stands[g]
    BY <1>6, <1>7, <1>8, <1>10
  <2>2. Stands' = [g \in Descr |-> Stands[g]]
    BY <2>1, StandsIs
  <2>3. Stands = [g \in Descr |-> Stands[g]]
    BY DEF Stands, Descr
  <2> QED BY <1>6, <1>10, <2>2, <2>3
<1> QED BY <1>9, <1>10

LEMMA StandsClosed ==
    ASSUME Promise, tainted = {}, NEW p \in Procs, NEW d \in Fds, Close(p, d), tainted' = {}
    PROVE  LET h == <<p, d>>
           IN \/ Stands[h].with = {h} /\ Stands' = [Stands EXCEPT ![h] = Shut]
              \/ Stands' = Stands
<1> DEFINE h == <<p, d>>
           o == fd[p][d]
<1>1. /\ fd' = [fd EXCEPT ![p][d] = NULL] /\ o # NULL /\ kind' = kind /\ ops' = ops
      /\ tainted' = IF Holders(o) # {h} THEN tainted \cup {o} ELSE tainted
  BY DEF Close, OpenFile, Cleared, tree
<1>2. Held(fd, o) = {h}
  BY <1>1 DEF Holders, Held
<1>3. h \in Descr /\ h[1] = p /\ h[2] = d
  BY DEF Descr
<1>4. Inv
  BY DEF Promise, Types
<1>5. \A x \in Objs : obj'[x].vnode = obj[x].vnode /\ obj'[x].pos = obj[x].pos
  BY <1>4, ClosedFields
<1>6. fd'[p][d] = NULL /\ \A g \in Descr : g # h => fd'[g[1]][g[2]] = fd[g[1]][g[2]]
  <2>1. fd' = [q \in Procs |-> IF q = p THEN [fd[p] EXCEPT ![d] = NULL] ELSE fd[q]]
    BY <1>1, <1>4 DEF Inv, Tables
  <2>2. fd[p] \in [Fds -> Objs \cup {NULL}]
    BY <1>4 DEF Inv, Tables
  <2>3. fd'[p] = [fd[p] EXCEPT ![d] = NULL] /\ \A q \in Procs : q # p => fd'[q] = fd[q]
    BY <2>1
  <2>4. fd'[p][d] = NULL /\ \A c \in Fds : c # d => fd'[p][c] = fd[p][c]
    BY <2>2, <2>3
  <2>5. \A g \in Descr : g # h => g[1] \in Procs /\ g[2] \in Fds /\ (g[1] # p \/ g[2] # d)
    BY DEF Descr
  <2> HIDE DEF h
  <2> QED BY <2>3, <2>4, <2>5
<1>7. fd[h[1]][h[2]] = o /\ fd'[h[1]][h[2]] = NULL
  BY <1>3, <1>6
<1> HIDE DEF h, o
<1>8. Stands'[h] = Shut
  BY <1>3, <1>7, StandsAtNext
<1>9. ASSUME NEW g \in Descr, g # h PROVE Stands'[g] = Stands[g]
  <2>1. PICK x : x = fd[g[1]][g[2]]
    OBVIOUS
  <2>2. x = fd'[g[1]][g[2]]
    BY <1>6, <1>9, <2>1
  <2>3. Stands'[g] = IF x # NULL /\ kind'[obj'[x].vnode] = "file" /\ ops'[obj'[x].vnode] = "tmpfs"
                       THEN Position(obj'[x].vnode, obj'[x].pos, Held(fd', x)) ELSE Shut
    BY <2>2, StandsAtNext
  <2>4. Stands[g] = IF x # NULL /\ Regular(obj[x].vnode)
                      THEN Position(obj[x].vnode, obj[x].pos, Held(fd, x)) ELSE Shut
    BY <2>1, StandsAt
  <2>5. CASE x = NULL
    BY <2>3, <2>4, <2>5
  <2>6. CASE x # NULL
    <3>1. x \in Objs /\ g \in Held(fd, x)
      BY <2>1, <2>6, HeldFacts
    <3>2. x # o
      BY <1>2, <1>9, <3>1
    <3>3. Held(fd', x) = Held(fd, x)
      <4>1. ASSUME NEW c \in Descr PROVE fd'[c[1]][c[2]] = x <=> fd[c[1]][c[2]] = x
        <5>1. CASE c = h
          BY <1>7, <2>6, <3>2, <5>1
        <5>2. CASE c # h
          BY <1>6, <5>2
        <5> QED BY <5>1, <5>2
      <4> QED BY <4>1 DEF Held, Descr
    <3> QED BY <1>1, <1>5, <2>3, <2>4, <3>1, <3>3 DEF Regular
  <2> QED BY <2>5, <2>6
<1>10. Stands = [g \in Descr |-> Stands[g]]
  BY DEF Stands, Descr
<1>11. CASE Regular(obj[o].vnode)
  <2>1. Stands[h] = Position(obj[o].vnode, obj[o].pos, {h})
    BY <1>1, <1>2, <1>3, <1>7, <1>11, StandsAt
  <2>2. Stands[h].with = {h}
    BY <2>1 DEF Position
  <2> DEFINE f == [Stands EXCEPT ![h] = Shut]
  <2>3. f = [g \in Descr |-> IF g = h THEN Shut ELSE Stands[g]]
    BY <1>10
  <2> HIDE DEF f
  <2>4. \A g \in Descr : Stands'[g] = f[g]
    BY <1>8, <1>9, <2>3
  <2>5. Stands' = [g \in Descr |-> f[g]]
    BY <2>4, StandsIs
  <2>6. Stands' = f
    BY <2>3, <2>5
  <2> QED BY <2>2, <2>6 DEF f, h
<1>12. CASE ~Regular(obj[o].vnode)
  <2>1. Stands[h] = Shut
    BY <1>3, <1>7, <1>12, StandsAt
  <2>2. \A g \in Descr : Stands'[g] = Stands[g]
    BY <1>8, <1>9, <2>1
  <2>3. Stands' = [g \in Descr |-> Stands[g]]
    BY <2>2, StandsIs
  <2>4. Stands' = Stands
    BY <1>10, <2>3
  <2> QED BY <2>4
<1> QED BY <1>11, <1>12

(* tmpfs_write writes s where it is told, fills a gap with 0, and leaves the *)
(* rest alone.                                                              *)
Overwritten(buf, q, s, w) ==
    /\ Len(w) = IF Len(buf) > q + Len(s) THEN Len(buf) ELSE q + Len(s)
    /\ \A k \in 1 .. Len(w) :
         /\ k \in (q + 1) .. (q + Len(s)) => w[k] = s[k - q]
         /\ k <= q => w[k] = IF k <= Len(buf) THEN buf[k] ELSE 0
         /\ k > q + Len(s) => w[k] = buf[k]

LEMMA WrittenBytes ==
    ASSUME NEW buf \in Seq(Int), NEW q \in Nat, NEW s \in Seq(Int)
    PROVE  Overwritten(buf, q, s, Written(buf, q, s))
<1>0. PICK w : w = Written(buf, q, s)
  OBVIOUS
<1> DEFINE c == q + Len(s)
           to == IF Len(buf) < c THEN Grown(buf, c) ELSE buf
<1>1. Len(buf) \in Nat /\ Len(s) \in Nat /\ c \in Nat
  OBVIOUS
<1>2. Len(w) = IF Len(buf) < c THEN c ELSE Len(buf)
  BY <1>0, WrittenFacts
<1>3. Len(to) = Len(w)
  <2>1. Grown(buf, c) = [k \in 1 .. c |-> Grown(buf, c)[k]]
    BY DEF Grown
  <2> DEFINE G == Grown(buf, c)
  <2> HIDE DEF G, c
  <2>2. Len(G) = c
    BY <1>1, <2>1 DEF G
  <2>3. to = IF Len(buf) < c THEN G ELSE buf
    BY DEF G
  <2> HIDE DEF to
  <2> QED BY <1>2, <2>2, <2>3
<1>4. \A k \in 1 .. Len(w) : to[k] = IF k <= Len(buf) THEN buf[k] ELSE 0
  <2>1. SUFFICES ASSUME NEW k \in 1 .. Len(w) PROVE to[k] = IF k <= Len(buf) THEN buf[k] ELSE 0
    OBVIOUS
  <2>2. CASE Len(buf) < c
    <3>1. k \in 1 .. c
      BY <1>1, <1>2, <2>1, <2>2
    <3>2. to = [j \in 1 .. c |-> IF j <= Len(buf) THEN buf[j] ELSE 0]
      BY <2>2 DEF Grown
    <3> HIDE DEF to, c
    <3> QED BY <2>1, <3>1, <3>2
  <2>3. CASE ~(Len(buf) < c)
    <3>1. to = buf
      BY <2>3
    <3>2. k <= Len(buf)
      <4> HIDE DEF c
      <4> QED BY <1>1, <1>2, <2>1, <2>3
    <3> HIDE DEF to
    <3> QED BY <3>1, <3>2
  <2> QED BY <2>2, <2>3
<1>5. w = [k \in 1 .. Len(to) |-> IF k \in (q + 1) .. c THEN s[k - q] ELSE to[k]]
  BY <1>0 DEF Written
<1> HIDE DEF to
<1>6. ASSUME NEW k \in 1 .. Len(w)
      PROVE  /\ k \in (q + 1) .. c => w[k] = s[k - q]
             /\ k <= q => w[k] = IF k <= Len(buf) THEN buf[k] ELSE 0
             /\ k > c => w[k] = buf[k]
  <2>1. w[k] = IF k \in (q + 1) .. c THEN s[k - q] ELSE to[k]
    BY <1>3, <1>5
  <2>2. k <= q => w[k] = IF k <= Len(buf) THEN buf[k] ELSE 0
    <3>1. k <= q => k \notin (q + 1) .. c
      BY <1>1
    <3> QED BY <1>4, <2>1, <3>1
  <2>3. k > c => w[k] = buf[k]
    <3>1. k > c => k \notin (q + 1) .. c /\ k <= Len(buf)
      <4> HIDE DEF c
      <4> QED BY <1>1, <1>2
    <3> QED BY <1>4, <2>1, <3>1
  <2> QED BY <2>1, <2>2, <2>3
<1> HIDE DEF c
<1>7. Len(w) = IF Len(buf) > c THEN Len(buf) ELSE c
  BY <1>1, <1>2
<1> QED BY <1>0, <1>6, <1>7 DEF c, Overwritten

(* Calls that change no file and no descriptor. *)
LEMMA QuietImplements ==
    ASSUME Promise, tainted = {}, UNCHANGED <<fd, ops, data>>, got' = <<>>, KindsKept,
           \A o \in Objs : Held(fd, o) # {} => obj'[o].vnode = obj[o].vnode
                           /\ (obj'[o].pos = obj[o].pos \/ ~Regular(obj[o].vnode))
    PROVE  Store!Other
<1>1. Stands' = Stands
  BY StandsSame
<1> QED BY <1>1 DEF Store!Other

LEMMA OpenImplements ==
    ASSUME Promise, tainted = {}, NEW H \in SUBSET Descr, NEW v \in Nodes, NEW o \in Available, Opened(o, v),
           \A h \in H : fd[h[1]][h[2]] = NULL /\ fd'[h[1]][h[2]] = o,
           \A g \in Descr \ H : fd'[g[1]][g[2]] = fd[g[1]][g[2]],
           ops' = ops, KindsKept, data' = data, got' = <<>>
    PROVE  Store!Open(H, v) \/ Store!Other
<1>1. /\ \A h \in H : Stands[h] = Shut
      /\ Stands' = IF kind'[v] = "file" /\ ops[v] = "tmpfs"
                     THEN [g \in Descr |-> IF g \in H THEN Position(v, 0, H) ELSE Stands[g]]
                     ELSE Stands
  BY StandsOpened
<1>2. CASE kind'[v] = "file" /\ ops[v] = "tmpfs"
  BY <1>1, <1>2 DEF Store!Open, Store!None, Shut, Position, Descr
<1>3. CASE ~(kind'[v] = "file" /\ ops[v] = "tmpfs")
  BY <1>1, <1>3 DEF Store!Other
<1> QED BY <1>2, <1>3

LEMMA CloseImplements ==
    ASSUME Promise, tainted = {}, NEW p \in Procs, NEW d \in Fds, Close(p, d), tainted' = {}
    PROVE  (\E h \in Descr : Store!Close(h)) \/ Store!Other
<1> DEFINE h == <<p, d>>
<1>1. h \in Descr
  BY DEF Descr
<1>2. data' = data /\ got' = <<>>
  BY DEF Close, Returns
<1>3. \/ Stands[h].with = {h} /\ Stands' = [Stands EXCEPT ![h] = Shut]
      \/ Stands' = Stands
  BY StandsClosed
<1> HIDE DEF h
<1>4. CASE Stands[h].with = {h} /\ Stands' = [Stands EXCEPT ![h] = Shut]
  BY <1>1, <1>2, <1>4 DEF Store!Close, Store!None, Shut
<1>5. CASE Stands' = Stands
  BY <1>2, <1>5 DEF Store!Other
<1> QED BY <1>3, <1>4, <1>5

(* A descriptor moves to q: what Moved of FileStore says. *)
LEMMA MoveImplements ==
    ASSUME Promise, tainted = {}, NEW h \in Descr, NEW o, fd[h[1]][h[2]] = o, o # NULL, NEW q,
           Regular(obj[o].vnode),
           UNCHANGED <<fd, ops, kind>>, Repositioned(o, q)
    PROVE  /\ Stands[h] # Store!None
           /\ Stands[h].file = obj[o].vnode /\ Stands[h].pos = obj[o].pos
           /\ Store!Moved(h, q)
<1>0. /\ Stands[h] = Position(obj[o].vnode, obj[o].pos, Held(fd, o))
      /\ Following(obj[o].vnode, q, Held(fd, o))
  BY StandsMoved
<1> DEFINE v == obj[o].vnode
           H == Held(fd, o)
<1>1. Stands[h] = Position(v, obj[o].pos, H)
      /\ Stands' = [g \in Descr |-> IF g \in H THEN Position(v, q, H) ELSE Stands[g]]
  BY <1>0 DEF Following
<1>2. v \in Nodes
  BY HeldFacts
<1> HIDE DEF v, H
<1>3. v # 0
  BY <1>2, RootIn DEF NULL
<1>4. Stands[h].file = v /\ Stands[h].pos = obj[o].pos /\ Stands[h].with = H
      /\ [Stands[h] EXCEPT !.pos = q] = Position(v, q, H)
  <2> DEFINE e == obj[o].pos
  <2>1. Stands[h] = Position(v, e, H)
    BY <1>1
  <2> HIDE DEF e
  <2>2. Stands[h].file = v /\ Stands[h].pos = e /\ Stands[h].with = H
      /\ [Stands[h] EXCEPT !.pos = q] = Position(v, q, H)
    BY <2>1 DEF Position
  <2> QED BY <2>2 DEF e
<1>5. Store!None.file = 0
  BY DEF Store!None
<1>6. Stands[h] # Store!None
  BY <1>3, <1>4, <1>5
<1>7. Store!Moved(h, q)
  BY <1>1, <1>4 DEF Store!Moved, Descr
<1> QED BY <1>4, <1>6, <1>7 DEF v

(* A struct file of a directory or a device moves: no one sees it. *)
LEMMA AsideImplements ==
    ASSUME Promise, tainted = {}, NEW o \in Objs, NEW q, Repositioned(o, q), ~Regular(obj[o].vnode),
           UNCHANGED <<fd, ops, kind, data>>, got' = <<>>
    PROVE  Store!Other
<1>1. Inv
  BY DEF Promise, Types
<1>2. /\ \A x \in Objs : obj'[x].vnode = obj[x].vnode
      /\ \A x \in Objs : x # o => obj'[x].pos = obj[x].pos
  BY <1>1, MovedFields DEF Repositioned
<1>3. KindsKept
  BY DEF KindsKept
<1>4. ASSUME NEW x \in Objs, Held(fd, x) # {}
      PROVE  obj'[x].vnode = obj[x].vnode /\ (obj'[x].pos = obj[x].pos \/ ~Regular(obj[x].vnode))
  BY <1>2
<1> QED BY <1>3, <1>4, QuietImplements

(* The descriptor of a call: its struct file is its own, and in place. *)
LEMMA InUseFacts ==
    ASSUME Promise, tainted = {}, misuse = {}, NEW p \in Procs, NEW d \in Fds, fd[p][d] # NULL
    PROVE  LET o == fd[p][d]
           IN /\ <<p, d>> \in Descr /\ o \in Objs
              /\ obj[o].vnode \in Nodes /\ obj[o].use = "file"
              /\ obj[o].pos \in Nat
<1>1. PICK h : h = <<p, d>>
  OBVIOUS
<1>2. h \in Descr /\ h[1] = p /\ h[2] = d
  BY <1>1 DEF Descr
<1>3. PICK o : o = fd[p][d]
  OBVIOUS
<1>4. o \in Objs /\ obj[o].vnode \in Nodes /\ obj[o].use = "file"
  BY <1>2, <1>3, HeldFacts
<1>5. obj[o].pos \in Nat
  BY <1>4 DEF Promise, Forward
<1> QED BY <1>1, <1>2, <1>3, <1>4, <1>5

LEMMA SeekImplements ==
    ASSUME Promise, tainted = {}, misuse = {}, NEW p \in Procs, NEW d \in Fds, NEW n \in Offsets,
           Seek(p, d, n)
    PROVE  (\E h \in Descr : Store!Seek(h, n)) \/ Store!Other
<1>1. PICK o : o = fd[p][d]
  OBVIOUS
<1>2. PICK h : h = <<p, d>>
  OBVIOUS
<1>3. /\ o # NULL /\ Repositioned(o, n) /\ UNCHANGED <<fd, ops, kind, data>> /\ got' = <<>>
  BY <1>1 DEF Seek, OpenFile, Repositioned, Returns, tree
<1>4. o \in Objs /\ h \in Descr /\ fd[h[1]][h[2]] = o
  BY <1>1, <1>2, <1>3, InUseFacts
<1>5. CASE Regular(obj[o].vnode)
  <2>1. Stands[h] # Store!None /\ Store!Moved(h, n)
    BY <1>3, <1>4, <1>5, MoveImplements
  <2> QED BY <1>3, <1>4, <2>1 DEF Store!Seek
<1>6. CASE ~Regular(obj[o].vnode)
  BY <1>3, <1>4, <1>6, AsideImplements
<1> QED BY <1>5, <1>6

LEMMA WriteImplements ==
    ASSUME Promise, tainted = {}, misuse = {}, NEW p \in Procs, NEW d \in Fds, NEW s \in Bufs,
           Write(p, d, s)
    PROVE  (\E h \in Descr : Store!Write(h, s)) \/ Store!Other
<1>1. PICK o : o = fd[p][d]
  OBVIOUS
<1>2. PICK h : h = <<p, d>>
  OBVIOUS
<1> DEFINE v == obj[o].vnode
           q == obj[o].pos
           m == q + Len(s)
<1>3. /\ o # NULL /\ Repositioned(o, m) /\ UNCHANGED <<fd, ops, kind>> /\ got' = <<>>
      /\ \/ ops[v] = "frame" /\ UNCHANGED data
         \/ ops[v] = "tmpfs" /\ kind[v] = "file"
            /\ data' = [data EXCEPT ![v] = Written(data[v], q, s)]
  BY <1>1 DEF Write, OpenFile, Repositioned, Returns, tree
<1>4. o \in Objs /\ h \in Descr /\ fd[h[1]][h[2]] = o /\ v \in Nodes /\ q \in Nat
  BY <1>1, <1>2, <1>3, InUseFacts
<1>5. CASE ops[v] = "frame" /\ UNCHANGED data
  <2>1. ~Regular(obj[o].vnode)
    BY <1>5 DEF Regular
  <2>2. PICK qq : qq = m
    OBVIOUS
  <2>3. Repositioned(o, qq)
    BY <1>3, <2>2
  <2> QED BY <1>3, <1>4, <1>5, <2>1, <2>3, AsideImplements
<1>6. CASE Regular(v) /\ data' = [data EXCEPT ![v] = Written(data[v], q, s)]
  <2>1. PICK qq : qq = m
    OBVIOUS
  <2>2. /\ Stands[h] # Store!None /\ Stands[h].file = v /\ Stands[h].pos = q
        /\ Store!Moved(h, qq)
    <3>1. Repositioned(o, qq) /\ Regular(obj[o].vnode)
      BY <1>3, <1>6, <2>1
    <3> QED BY <1>3, <1>4, <3>1, MoveImplements
  <2>3. data \in [Nodes -> Seq(Int)]
    BY DEF Promise, Types, Sized
  <2>4. s \in Seq(Int)
    <3>1. s \in Seq(Nat)
      BY CallAssumption
    <3> QED BY <3>1, SeqMonotonic
  <2>5. PICK w : w = Written(data[v], q, s)
    OBVIOUS
  <2>6. data[v] \in Seq(Int)
    BY <1>4, <2>3
  <2> HIDE DEF v, q
  <2>7. Overwritten(data[v], q, s, w)
    BY <1>4, <2>4, <2>5, <2>6, WrittenBytes
  <2>8. data' = [data EXCEPT ![v] = w]
    BY <1>6, <2>5
  <2>9. data'[v] = w /\ \A u \in Nodes \ {v} : data'[u] = data[u]
    BY <1>4, <2>3, <2>8
  <2>10. Store!Stored(v, q, s, data'[v])
    BY <2>7, <2>9 DEF Store!Stored, Overwritten
  <2>11. Store!Moved(h, Stands[h].pos + Len(s))
    BY <2>1, <2>2 DEF q
  <2>12. Store!Write(h, s)
    BY <1>3, <2>2, <2>9, <2>10, <2>11 DEF Store!Write
  <2> QED BY <1>4, <2>12
<1> QED BY <1>3, <1>5, <1>6 DEF Regular

LEMMA ReadImplements ==
    ASSUME Promise, tainted = {}, misuse = {}, NEW p \in Procs, NEW d \in Fds, NEW n \in Lens,
           Read(p, d, n)
    PROVE  (\E h \in Descr : Store!Read(h, n)) \/ Store!Other
<1>1. PICK o : o = fd[p][d]
  OBVIOUS
<1>2. PICK h : h = <<p, d>>
  OBVIOUS
<1> DEFINE v == obj[o].vnode
           q == obj[o].pos
           cap == IF kind[v] = "file" THEN Len(data[v]) ELSE 0
           m == Min({n, cap})
<1>3. /\ o # NULL /\ Repositioned(o, q + n) /\ UNCHANGED <<fd, ops, kind, data>>
      /\ got' = BytesAt(data[v], q, m)
  BY <1>1 DEF Read, OpenFile, Repositioned, tree
<1>4. o \in Objs /\ h \in Descr /\ fd[h[1]][h[2]] = o /\ v \in Nodes /\ q \in Nat
  BY <1>1, <1>2, <1>3, InUseFacts
<1>5. n \in Nat /\ cap \in Nat
  <2>1. data \in [Nodes -> Seq(Int)]
    BY DEF Promise, Types, Sized
  <2>2. data[v] \in Seq(Int)
    BY <1>4, <2>1
  <2>3. Len(data[v]) \in Nat
    BY <2>2
  <2> QED BY <2>3, FilesAssumption
<1>6. m \in {n, cap} /\ m <= n /\ m <= cap
  <2> HIDE DEF cap
  <2>1. {n, cap} \in SUBSET Nat /\ {n, cap} # {}
    BY <1>5
  <2> QED BY <2>1, MinIn
<1>7. m \in Nat
  <2> HIDE DEF m, cap
  <2> QED BY <1>5, <1>6
<1>8. Len(got') = m /\ \A k \in 1 .. m : got'[k] = IF q + k \in 1 .. Len(data[v]) THEN data[v][q + k] ELSE Junk
  <2> HIDE DEF m, q
  <2>1. got' = [k \in 1 .. m |-> IF q + k \in 1 .. Len(data[v]) THEN data[v][q + k] ELSE Junk]
    BY <1>3 DEF BytesAt
  <2> QED BY <1>7, <2>1
<1>9. CASE Regular(v)
  <2>1. PICK qq : qq = q + n
    OBVIOUS
  <2>2. /\ Stands[h] # Store!None /\ Stands[h].file = v /\ Stands[h].pos = q
        /\ Store!Moved(h, qq)
    <3>1. Repositioned(o, qq) /\ Regular(obj[o].vnode)
      BY <1>3, <1>9, <2>1
    <3> QED BY <1>3, <1>4, <3>1, MoveImplements
  <2>3. cap = Len(data[v])
    BY <1>9 DEF Regular
  <2>4. ASSUME NEW k \in 1 .. n, q + k <= Len(data[v])
        PROVE  k \in 1 .. Len(got') /\ got'[k] = data[v][q + k]
    <3>1. m = n \/ m = Len(data[v])
      BY <1>6, <2>3
    <3> DEFINE L == Len(data[v])
    <3>2. L \in Nat /\ q + k <= L
      BY <1>5, <2>3, <2>4
    <3> HIDE DEF m, q, cap, L
    <3>3. m = n \/ m = L
      BY <3>1 DEF L
    <3>4. k \in 1 .. m /\ q + k \in 1 .. L
      BY <1>4, <1>5, <1>7, <2>4, <3>2, <3>3
    <3> QED BY <1>8, <3>4 DEF L
  <2> HIDE DEF v, q, m, cap
  <2>5. Store!Moved(h, Stands[h].pos + n)
    BY <2>1, <2>2
  <2>6. data' = data /\ Len(got') <= n
    BY <1>3, <1>6, <1>8
  <2>7. Store!Read(h, n)
    BY <2>2, <2>4, <2>5, <2>6 DEF Store!Read
  <2> QED BY <1>4, <2>7
<1>10. CASE ~Regular(v)
  <2>1. cap = 0
    <3>1. CASE kind[v] # "file"
      BY <3>1
    <3>2. CASE ops[v] # "tmpfs"
      <4>1. data[v] = <<>>
        BY <1>4, <3>2 DEF Promise, Blank
      <4> QED BY <4>1
    <3> QED BY <1>10, <3>1, <3>2 DEF Regular
  <2>2. m = 0
    <3> HIDE DEF m, cap
    <3> QED BY <1>5, <1>6, <1>7, <2>1
  <2>3. got' = <<>>
    <3> HIDE DEF m
    <3>1. got' = [k \in 1 .. 0 |-> IF q + k \in 1 .. Len(data[v]) THEN data[v][q + k] ELSE Junk]
      BY <1>3, <2>2 DEF BytesAt
    <3>2. got' \in Seq({}) /\ Len(got') = 0
      BY <3>1
    <3> QED BY <3>2
  <2>4. PICK qq : qq = q + n
    OBVIOUS
  <2>5. Repositioned(o, qq) /\ ~Regular(obj[o].vnode)
    BY <1>3, <1>10, <2>4
  <2> QED BY <1>3, <1>4, <2>3, <2>5, AsideImplements
<1> QED BY <1>9, <1>10

LEMMA OpenCallImplements ==
    ASSUME Promise, tainted = {}, NEW p \in Procs, NEW path \in Paths, NEW creat \in BOOLEAN,
           Open(p, path, creat)
    PROVE  (\E h \in Descr, v \in Nodes : Store!Open({h}, v)) \/ Store!Other
<1> Inv /\ Trees
  BY DEF Promise, Types
<1> DEFINE k == Min(EmptyFds(p))
           h == <<p, k>>
<1>1. k \in Fds /\ fd[p][k] = NULL
  <2>1. EmptyFds(p) \subseteq Nat /\ EmptyFds(p) # {}
    BY FilesAssumption DEF EmptyFds, Fds, Open
  <2>2. k \in EmptyFds(p)
    BY <2>1, MinIn
  <2> QED BY <2>2 DEF EmptyFds
<1>2. /\ UNCHANGED <<data, ops>> /\ got' = <<>>
      /\ UNCHANGED kind \/ (Fresh # {} /\ \E t : NewNode(t))
  BY DEF Open, Create, Returns, tree
<1>3. KindsKept
  BY <1>2, KindsStay
<1>4. PICK v \in Nodes : OpenNode(p, v)
  <2>1. get_vnode(path).node \in Nodes
    BY PathLen, VnodeFacts DEF Reached, Alloc
  <2>2. Fresh # {} => Min(Fresh) \in Nodes
    BY FreshNode
  <2> QED BY <2>1, <2>2 DEF Open, Create
<1>5. PICK o \in Available : Opened(o, v) /\ fd' = [fd EXCEPT ![p][k] = o]
  BY <1>4 DEF OpenNode
<1>6. h \in Descr /\ h[1] = p /\ h[2] = k
  BY <1>1 DEF Descr
<1> HIDE DEF k
<1>7. fd'[p][k] = o /\ \A g \in Descr : g # h => fd'[g[1]][g[2]] = fd[g[1]][g[2]]
  <2>1. fd' = [q \in Procs |-> IF q = p THEN [fd[p] EXCEPT ![k] = o] ELSE fd[q]]
    BY <1>5 DEF Inv, Tables
  <2>2. fd[p] \in [Fds -> Objs \cup {NULL}]
    BY DEF Inv, Tables
  <2>3. fd'[p] = [fd[p] EXCEPT ![k] = o] /\ \A q \in Procs : q # p => fd'[q] = fd[q]
    BY <2>1
  <2>4. fd'[p][k] = o /\ \A c \in Fds : c # k => fd'[p][c] = fd[p][c]
    BY <1>1, <2>2, <2>3
  <2>5. \A g \in Descr : g # h => g[1] \in Procs /\ g[2] \in Fds /\ (g[1] # p \/ g[2] # k)
    BY DEF Descr
  <2> HIDE DEF h
  <2> QED BY <2>3, <2>4, <2>5
<1> HIDE DEF h
<1>8. PICK H \in SUBSET Descr : H = {h}
  BY <1>6
<1>9. \A g \in H : fd[g[1]][g[2]] = NULL /\ fd'[g[1]][g[2]] = o
  BY <1>1, <1>6, <1>7, <1>8
<1>10. \A g \in Descr \ H : fd'[g[1]][g[2]] = fd[g[1]][g[2]]
  BY <1>7, <1>8
<1>11. Store!Open(H, v) \/ Store!Other
  BY <1>2, <1>3, <1>5, <1>9, <1>10, OpenImplements
<1> QED BY <1>6, <1>8, <1>11

LEMMA SpawnImplements ==
    ASSUME Promise, tainted = {}, NEW p \in Procs, Spawn(p)
    PROVE  (\E H \in {{q} \X Stdio : q \in Procs}, v \in Nodes : Store!Open(H, v)) \/ Store!Other
<1> Inv /\ Trees
  BY DEF Promise, Types
<1>1. /\ UNCHANGED <<data, ops, kind>> /\ got' = <<>> /\ p \notin live
  BY DEF Spawn, tree
<1>2. KindsKept
  BY <1>1 DEF KindsKept
<1>3. CASE UNCHANGED <<obj, fd>>
  <2>1. \A o \in Objs : obj'[o].vnode = obj[o].vnode /\ obj'[o].pos = obj[o].pos
    BY <1>3
  <2> QED BY <1>1, <1>2, <1>3, <2>1, QuietImplements
<1>4. ASSUME NEW o \in Available, Opened(o, get_vnode(<<"dev", "uart">>).node),
             fd' = [fd EXCEPT ![p] = ChildFds(p, o)]
      PROVE  \E H \in {{q} \X Stdio : q \in Procs}, v \in Nodes : Store!Open(H, v) \/ Store!Other
  <2>1. Len(<<"dev", "uart">>) \in Nat
    OBVIOUS
  <2>2. PICK v \in Nodes : v = get_vnode(<<"dev", "uart">>).node
    BY <2>1, VnodeFacts DEF Reached, Alloc
  <2>3. Stdio \subseteq Fds
    BY FilesAssumption DEF Stdio, Fds
  <2>4. PICK H \in SUBSET Descr : H = {p} \X Stdio
    BY <2>3 DEF Descr
  <2>5. fd'[p] = ChildFds(p, o) /\ \A q \in Procs : q # p => fd'[q] = fd[q]
    BY <1>4 DEF Inv, Tables
  <2>6. \A d \in Fds : fd[p][d] = NULL /\ fd'[p][d] = IF d \in Stdio THEN o ELSE NULL
    BY <1>1, <2>5 DEF Inv, Unborn, ChildFds
  <2>7. \A g \in H : g[1] = p /\ g[2] \in Fds /\ g[2] \in Stdio
    BY <2>3, <2>4
  <2>8. \A g \in H : fd[g[1]][g[2]] = NULL /\ fd'[g[1]][g[2]] = o
    BY <2>6, <2>7
  <2>9. ASSUME NEW g \in Descr \ H PROVE fd'[g[1]][g[2]] = fd[g[1]][g[2]]
    <3>1. g[1] \in Procs /\ g[2] \in Fds /\ g = <<g[1], g[2]>>
      BY DEF Descr
    <3>2. CASE g[1] # p
      BY <2>5, <3>1, <3>2
    <3>3. CASE g[1] = p
      <4>1. g[2] \notin Stdio
        BY <2>4, <3>1, <3>3
      <4> QED BY <2>6, <3>1, <3>3, <4>1
    <3> QED BY <3>2, <3>3
  <2>10. Opened(o, v)
    BY <1>4, <2>2
  <2>11. Store!Open(H, v) \/ Store!Other
    BY <1>1, <1>2, <2>8, <2>9, <2>10, OpenImplements
  <2> QED BY <2>4, <2>11
<1> QED BY <1>3, <1>4 DEF Spawn

LEMMA AllocImplements ==
    ASSUME Promise, tainted = {}, KernelAllocates
    PROVE  Store!Other
<1> Inv
  BY DEF Promise, Types
<1>1. PICK S \in SUBSET Freed : Others(S)
  BY DEF KernelAllocates
<1>2. \A o \in Objs : obj'[o].vnode = obj[o].vnode /\ obj'[o].pos = obj[o].pos
  BY <1>1, OtherFields
<1>3. UNCHANGED <<fd, ops, kind, data>> /\ got' = <<>>
  BY DEF KernelAllocates, tree
<1>4. KindsKept
  BY <1>3 DEF KindsKept
<1> QED BY <1>2, <1>3, <1>4, QuietImplements

LEMMA TreeCallImplements ==
    ASSUME Promise, tainted = {}, NEW p \in Procs, NEW path \in Paths,
           MkdirCall(p, path) \/ Mount(p, path)
    PROVE  Store!Other
<1> Trees
  BY DEF Promise, Types
<1>1. /\ UNCHANGED <<fd, ops, obj, data>> /\ got' = <<>>
      /\ Fresh # {} /\ \E k : NewNode(k)
  BY DEF MkdirCall, Mkdir, Mount, Returns
<1>2. KindsKept
  BY <1>1, KindsStay
<1>3. \A o \in Objs : obj'[o].vnode = obj[o].vnode /\ obj'[o].pos = obj[o].pos
  BY <1>1
<1> QED BY <1>1, <1>2, <1>3, QuietImplements

(* The boot opens nothing. *)
LEMMA BootImplements ==
    ASSUME Promise, BootStep, pc' = "boot", tainted = {}
    PROVE  Store!Boot
<1> DEFINE e == Boot[calls + 1]
<1>1. /\ calls < Len(Boot) /\ calls \in Nat /\ pc = "boot"
      /\ BootDir(e) \/ BootFile(e) \/ BootDevice(e)
      /\ UNCHANGED <<obj, fd, live, got>>
  BY DEF BootStep, Promise, Types, Rest
<1>2. Len(e.path) \in Nat
  BY <1>1, BootEntry
<1> HIDE DEF e
<1> Inv /\ Trees /\ data \in [Nodes -> Seq(Int)]
  BY DEF Promise, Types, Sized
<1>3. got' = <<>> /\ live = {}
  BY <1>1 DEF Promise, Early
<1>4. \A h \in Descr : fd[h[1]][h[2]] = NULL /\ fd'[h[1]][h[2]] = NULL
  BY <1>1, <1>3 DEF Inv, Unborn, Descr
<1>5. Stands' = Stands
  <2>1. \A h \in Descr : Stands[h] = Shut /\ Stands'[h] = Shut
    BY <1>4, StandsAt, StandsAtNext
  <2>2. Stands = [h \in Descr |-> Stands[h]] /\ Stands' = [h \in Descr |-> Stands'[h]]
    BY DEF Stands, Descr
  <2> QED BY <2>1, <2>2
<1>6. CASE UNCHANGED data
  <2>1. Store!Fill(Root)
    BY <1>3, <1>5, <1>6 DEF Store!Fill
  <2> QED BY <2>1, RootIn DEF Store!Boot
<1>7. ASSUME NEW v \in Nodes, Unpacked(v, e) PROVE Store!Boot
  <2>1. \A u \in Nodes \ {v} : data'[u] = data[u]
    BY <1>7 DEF Unpacked
  <2>2. Store!Fill(v)
    BY <1>3, <1>5, <2>1 DEF Store!Fill
  <2> QED BY <2>2 DEF Store!Boot
<1>8. CASE BootDir(e) \/ BootDevice(e)
  BY <1>6, <1>8 DEF BootDir, BootDevice
<1>9. CASE BootFile(e)
  <2>1. get_vnode(e.path).node \in Nodes
    BY <1>2, VnodeFacts DEF Reached, Alloc
  <2>2. Fresh # {} => Min(Fresh) \in Nodes
    BY FreshNode
  <2>3. pc' # "lost"
    OBVIOUS
  <2> QED BY <1>7, <1>9, <2>1, <2>2, <2>3 DEF BootFile, Create
<1> QED BY <1>1, <1>8, <1>9

LEMMA TaintKept == [Next]_vars => tainted \subseteq tainted'
<1>1. CASE UNCHANGED tainted
  BY <1>1
<1> SUFFICES ASSUME [Next]_vars, ~UNCHANGED tainted PROVE tainted \subseteq tainted'
  BY <1>1
<1>2. ~BootStep /\ ~Booted /\ ~KernelAllocates /\ ~ListRunsAstray /\ ~UNCHANGED vars
  BY DEF BootStep, Booted, KernelAllocates, ListRunsAstray, vars
<1>3. ASSUME NEW p \in Procs PROVE ~Spawn(p) /\ ~BadNumber(p) /\ ~MountUnknown(p)
  BY DEF Spawn, BadNumber, MountUnknown
<1>4. ASSUME NEW p \in Procs, NEW path \in Paths
      PROVE  ~(\/ \E creat \in BOOLEAN : Open(p, path, creat)
               \/ MkdirCall(p, path) \/ Mount(p, path) \/ EmptyComponent(p, path))
  BY DEF Open, MkdirCall, Mount, EmptyComponent
<1>5. ASSUME NEW p \in Procs, NEW d \in Fds
      PROVE  ~(\/ UseDangling(p, d) \/ SeekNotOpen(p, d)
               \/ \E s \in Bufs : Write(p, d, s) \/ WriteAstray(p, d, s)
               \/ \E n \in Lens : Read(p, d, n) \/ ReadAstray(p, d, n)
               \/ \E n \in Offsets : Seek(p, d, n) \/ SeekWhence(p, d, n))
  BY DEF UseDangling, SeekNotOpen, Write, WriteAstray, Read, ReadAstray, Seek, SeekWhence
<1>6. ASSUME NEW p \in Procs, NEW d \in Fds, Close(p, d) PROVE tainted \subseteq tainted'
  BY <1>6 DEF Close
<1> QED BY <1>2, <1>3, <1>4, <1>5, <1>6 DEF Next

LEMMA ServeImplements ==
    ASSUME Promise, tainted = {}, misuse = {}, tainted' = {}, misuse' = {}, pc' # "lost",
           [Next]_vars, ~BootStep, ~Booted, ~UNCHANGED vars
    PROVE  Store!Serve
<1>1. ~ListRunsAstray
  BY DEF ListRunsAstray, Derails
<1>2. ASSUME NEW p \in Procs
      PROVE  ~BadNumber(p) /\ ~MountUnknown(p)
  BY DEF BadNumber, MountUnknown, Derails
<1>3. ASSUME NEW p \in Procs, NEW path \in Paths PROVE ~EmptyComponent(p, path)
  BY DEF EmptyComponent, Derails
<1>4. ASSUME NEW p \in Procs, NEW d \in Fds
      PROVE  /\ ~UseDangling(p, d) /\ ~SeekNotOpen(p, d)
             /\ \A s \in Bufs : ~WriteAstray(p, d, s)
             /\ \A n \in Lens : ~ReadAstray(p, d, n)
             /\ \A n \in Offsets : ~SeekWhence(p, d, n)
  BY DEF UseDangling, SeekNotOpen, WriteAstray, ReadAstray, SeekWhence, Derails, Misused
<1>5. CASE Store!Other
  BY <1>5 DEF Store!Serve
<1>6. CASE KernelAllocates
  BY <1>5, <1>6, AllocImplements
<1>7. ASSUME NEW p \in Procs, Spawn(p) PROVE Store!Serve
  <2>1. CASE \E H \in {{q} \X Stdio : q \in Procs}, v \in Nodes : Store!Open(H, v)
    BY <2>1 DEF Store!Serve
  <2> QED BY <1>5, <1>7, <2>1, SpawnImplements
<1>8. ASSUME NEW p \in Procs, NEW path \in Paths, NEW creat \in BOOLEAN, Open(p, path, creat)
      PROVE  Store!Serve
  <2>1. CASE \E h \in Descr, v \in Nodes : Store!Open({h}, v)
    BY <2>1 DEF Store!Serve, Descr
  <2> QED BY <1>5, <1>8, <2>1, OpenCallImplements
<1>9. ASSUME NEW p \in Procs, NEW path \in Paths, MkdirCall(p, path) \/ Mount(p, path)
      PROVE  Store!Serve
  BY <1>5, <1>9, TreeCallImplements
<1>10. ASSUME NEW p \in Procs, NEW d \in Fds, Close(p, d) PROVE Store!Serve
  <2>1. CASE \E h \in Descr : Store!Close(h)
    BY <2>1 DEF Store!Serve, Descr
  <2> QED BY <1>5, <1>10, <2>1, CloseImplements
<1>11. ASSUME NEW p \in Procs, NEW d \in Fds, NEW s \in Bufs, Write(p, d, s) PROVE Store!Serve
  <2>1. CASE \E h \in Descr : Store!Write(h, s)
    BY <2>1 DEF Store!Serve, Descr
  <2> QED BY <1>5, <1>11, <2>1, WriteImplements
<1>12. ASSUME NEW p \in Procs, NEW d \in Fds, NEW n \in Lens, Read(p, d, n) PROVE Store!Serve
  <2>1. CASE \E h \in Descr : Store!Read(h, n)
    BY <2>1 DEF Store!Serve, Descr
  <2> QED BY <1>5, <1>12, <2>1, ReadImplements
<1>13. ASSUME NEW p \in Procs, NEW d \in Fds, NEW n \in Offsets, Seek(p, d, n) PROVE Store!Serve
  <2>1. CASE \E h \in Descr : Store!Seek(h, n)
    <3>1. n \in 0 .. MaxPos
      BY FilesAssumption
    <3> QED BY <2>1, <3>1 DEF Store!Serve, Descr
  <2> QED BY <1>5, <1>13, <2>1, SeekImplements
<1> QED BY <1>1, <1>2, <1>3, <1>4, <1>6, <1>7, <1>8, <1>9, <1>10, <1>11, <1>12, <1>13 DEF Next

LEMMA NextImplements ==
    ASSUME Promise, [Next]_vars
    PROVE  [Store!Next]_(Store!vars)
<1>1. CASE ~Sound'
  BY <1>1 DEF Sound, Store!Next
<1>2. CASE UNCHANGED vars
  <2>1. Stands' = Stands
    BY <1>2 DEF vars, tree, Stands, Shut, Holders
  <2> QED BY <1>2, <2>1 DEF vars, Store!vars
<1>3. ASSUME Sound', ~UNCHANGED vars
      PROVE  Store!Next
  <2>1. tainted' = {} /\ misuse' = {} /\ pc' # "lost"
    BY <1>3 DEF Sound
  <2>2. tainted = {} /\ misuse = {}
    BY <2>1, TaintKept, MisuseKept DEF Kept
  <2>3. CASE BootStep
    <3>1. pc = "boot" /\ pc' = "boot"
      <4>1. Promise' /\ pc = "boot"
        BY <2>3, NextPromise DEF BootStep
      <4>2. pc' \in {"boot", "lost"}
        BY <2>3, BootTypes DEF Promise
      <4> QED BY <2>1, <4>1, <4>2
    <3>2. Store!Boot
      BY <2>2, <2>3, <3>1, BootImplements
    <3> QED BY <2>1, <2>2, <3>1, <3>2 DEF Store!Next
  <2>4. CASE Booted
    <3>1. pc = "boot" /\ pc' = "run" /\ UNCHANGED <<tree, data, obj, fd, got>>
      BY <2>4 DEF Booted
    <3>2. Stands' = Stands
      BY <3>1 DEF tree, Stands, Shut, Holders
    <3> QED BY <2>1, <2>2, <3>1, <3>2 DEF Store!Next
  <2>5. CASE ~BootStep /\ ~Booted
    <3>1. pc = "run" /\ pc' = "run"
      BY <1>3, <2>1, <2>5, RunningStep
    <3>2. Store!Serve
      BY <1>3, <2>1, <2>2, <2>5, ServeImplements
    <3> QED BY <2>1, <2>2, <3>1, <3>2 DEF Store!Next
  <2> QED BY <2>3, <2>4, <2>5
<1> QED BY <1>1, <1>2, <1>3

(* Descriptors and files keep the promise of FileStore while no program    *)
(* misuses the calls: for any processes, paths and archive, and whatever   *)
(* the kernel allocates from the pool (vfs_open, vfs_read, vfs_write,      *)
(* vfs_close, __lseek64, open_uart_fds, tmpfs_write, tmpfs_read).          *)
THEOREM FilesImplementStore == Spec => Implements
<1>1. Init => Store!Init
  <2> SUFFICES ASSUME Init PROVE Store!Init
    OBVIOUS
  <2>1. /\ data = [v \in Nodes |-> <<>>] /\ got = <<>> /\ pc = "boot"
        /\ tainted = {} /\ misuse = {}
        /\ fd = [p \in Procs |-> [d \in Fds |-> NULL]]
    BY DEF Init
  <2>2. \A h \in Descr : fd[h[1]][h[2]] = NULL
    BY <2>1 DEF Descr
  <2>3. \A h \in Descr : Stands[h] = Shut
    BY <2>2, StandsAt
  <2>4. Stands = [h \in Descr |-> Shut]
    BY <2>3 DEF Stands, Descr
  <2>5. data \in [Nodes -> {<<>>}]
    BY <2>1
  <2> QED BY <2>1, <2>4, <2>5 DEF Store!Init, Store!None, Shut, Descr
<1>2. Promise /\ [Next]_vars => Promise' /\ [Store!Next]_(Store!vars)
  BY NextPromise, NextImplements
<1> QED BY <1>1, <1>2, InitPromise, PTL DEF Spec, Implements, Store!Spec

(***************************************************************************)
(* The boot, for an archive that fits (Whole).  Every step of it creates   *)
(* one node, so the node of the step j is j + 1, and its parent is that of *)
(* the step that made its directory.                                       *)
(***************************************************************************)
(* The node under which the step i creates. *)
Home(i) ==
    IF Front(Boot[i].path) = <<>> THEN Root
    ELSE 1 + CHOOSE j \in 1 .. (i - 1) :
                Boot[j].what = "dir" /\ Boot[j].path = Front(Boot[i].path)

Placed(j) ==
    LET e == Boot[j]
        g == get_vnode(e.path)
    IN /\ g.ret = OK /\ g.node = j + 1
       /\ e.what = "dir" => kind[j + 1] = "dir"
       /\ e.what = "file" => kind[j + 1] = "file" /\ data[j + 1] = e.data

Occupied(v, s, n) ==
    \E j \in 1 .. n : /\ entry[v][s].next = j + 1 /\ v = Home(j)
                      /\ entry[v][s].name = Last(Boot[j].path)

Building(n) ==
    /\ n <= Len(Boot)
    /\ \A v \in Nodes : mount[v] = NULL /\ (kind[v] = "none" <=> v > n + 1)
    /\ \A j \in 1 .. n : Placed(j)
    /\ \A v \in Nodes, s \in Slots : entry[v][s].next # NULL => Occupied(v, s, n)

Built == pc = "boot" => Building(calls)

(* Paths: what a directory and a name make. *)
LEMMA FrontFacts ==
    ASSUME NEW S, NEW s \in Seq(S), s # <<>>
    PROVE  /\ Front(s) \in Seq(S) /\ Front(s) = SubSeq(s, 1, Len(s) - 1)
           /\ Len(Front(s)) = Len(s) - 1 /\ Len(s) \in Nat \ {0}
           /\ \A k \in 1 .. (Len(s) - 1) : Front(s)[k] = s[k]
           /\ Last(s) = s[Len(s)]
<1>1. Len(s) \in Nat \ {0} /\ Front(s) = SubSeq(s, 1, Len(s) - 1)
  <2>1. Len(s) \in Nat /\ Len(s) # 0
    OBVIOUS
  <2> QED BY <2>1 DEF Front
<1>2. Front(s) \in Seq(S)
  BY <1>1
<1>3. Len(Front(s)) = Len(s) - 1
  <2>1. PICK n : n = Len(s) - 1
    OBVIOUS
  <2>2. n \in 0 .. Len(s) /\ Front(s) = SubSeq(s, 1, n)
    BY <1>1, <2>1
  <2>3. Len(SubSeq(s, 1, n)) = n
    BY <2>2
  <2> QED BY <2>1, <2>2, <2>3
<1>4. \A k \in 1 .. (Len(s) - 1) : Front(s)[k] = s[k]
  BY <1>1
<1> QED BY <1>1, <1>2, <1>3, <1>4 DEF Last

LEMMA SamePath ==
    ASSUME NEW S, NEW s \in Seq(S), NEW t \in Seq(S), s # <<>>, t # <<>>,
           Front(s) = Front(t), Last(s) = Last(t)
    PROVE  s = t
<1>1. Len(s) = Len(t) /\ Len(s) \in Nat \ {0}
  <2>1. Len(Front(s)) = Len(s) - 1 /\ Len(Front(t)) = Len(t) - 1 /\ Len(s) \in Nat \ {0} /\ Len(t) \in Nat \ {0}
    BY FrontFacts
  <2> QED BY <2>1
<1>2. \A k \in 1 .. Len(s) : s[k] = t[k]
  <2>1. SUFFICES ASSUME NEW k \in 1 .. Len(s) PROVE s[k] = t[k]
    OBVIOUS
  <2>2. CASE k = Len(s)
    BY <1>1, <2>2, FrontFacts
  <2>3. CASE k # Len(s)
    <3>1. k \in 1 .. (Len(s) - 1)
      BY <1>1, <2>3
    <3>2. Front(s)[k] = s[k] /\ Front(t)[k] = t[k]
      BY <1>1, <3>1, FrontFacts
    <3> QED BY <3>2
  <2> QED BY <2>2, <2>3
<1> QED BY <1>1, <1>2

LEMMA WholeStep ==
    ASSUME Whole, NEW i \in 1 .. Len(Boot)
    PROVE  /\ Boot[i].path \in Seq(Words) /\ Boot[i].path # <<>> /\ Last(Boot[i].path) # ""
           /\ \A j \in 1 .. (i - 1) : Boot[j].path # Boot[i].path
           /\ Cardinality(Siblings(i)) <= MaxEntry
           /\ Front(Boot[i].path) = <<>> => Home(i) = Root
           /\ Front(Boot[i].path) # <<>> =>
                 \E j \in 1 .. (i - 1) : /\ Boot[j].what = "dir" /\ Boot[j].path = Front(Boot[i].path)
                                         /\ Home(i) = 1 + j
<1>1. Boot[i].path \in Seq(Words) /\ Boot[i].path # <<>>
  BY StepPaths DEF Whole
<1>2. Len(Boot[i].path) = 1 => Front(Boot[i].path) = <<>>
  <2>1. Front(Boot[i].path) \in Seq(Words) /\ Len(Front(Boot[i].path)) = Len(Boot[i].path) - 1
    BY <1>1, FrontFacts
  <2> QED BY <2>1
<1>3. ASSUME Front(Boot[i].path) # <<>>
      PROVE  \E j \in 1 .. (i - 1) : /\ Boot[j].what = "dir" /\ Boot[j].path = Front(Boot[i].path)
                                     /\ Home(i) = 1 + j
  <2>1. \E j \in 1 .. (i - 1) : Boot[j].what = "dir" /\ Boot[j].path = Front(Boot[i].path)
    BY <1>2, <1>3 DEF Whole
  <2> QED BY <1>3, <2>1 DEF Home
<1> QED BY <1>1, <1>3 DEF Whole, Home

(* Steps that create in the same node have the same directory. *)
LEMMA HomeFront ==
    ASSUME Whole, NEW i \in 1 .. Len(Boot), NEW j \in 1 .. Len(Boot), Home(i) = Home(j)
    PROVE  Front(Boot[i].path) = Front(Boot[j].path)
<1>0. i \in Nat /\ j \in Nat
  BY BootIs
<1>1. CASE Front(Boot[i].path) = <<>>
  <2>1. Home(j) = 1
    BY <1>1, WholeStep DEF Root
  <2>2. SUFFICES ASSUME Front(Boot[j].path) # <<>> PROVE FALSE
    BY <1>1
  <2>3. PICK k \in 1 .. (j - 1) : Home(j) = 1 + k
    BY <2>2, WholeStep
  <2>4. k \in Nat /\ k # 0
    BY <1>0
  <2> QED BY <2>1, <2>3, <2>4
<1>2. CASE Front(Boot[i].path) # <<>>
  <2>1. PICK k \in 1 .. (i - 1) : Boot[k].path = Front(Boot[i].path) /\ Home(i) = 1 + k
    BY <1>2, WholeStep
  <2>2. Front(Boot[j].path) # <<>>
    <3>1. SUFFICES ASSUME Front(Boot[j].path) = <<>> PROVE FALSE
      OBVIOUS
    <3>2. Home(j) = 1
      BY <3>1, WholeStep DEF Root
    <3>3. k \in Nat /\ k # 0
      BY <1>0
    <3>4. 1 + k = 1
      BY <2>1, <3>2
    <3> QED BY <3>3, <3>4
  <2>3. PICK m \in 1 .. (j - 1) : Boot[m].path = Front(Boot[j].path) /\ Home(j) = 1 + m
    BY <2>2, WholeStep
  <2>4. k = m
    <3>1. k \in Nat /\ m \in Nat
      BY <1>0
    <3>2. 1 + k = 1 + m
      BY <2>1, <2>3
    <3> QED BY <3>1, <3>2
  <2> QED BY <2>1, <2>3, <2>4
<1> QED BY <1>1, <1>2

(* Two steps do not give the same name in the same directory. *)
LEMMA OwnNames ==
    ASSUME Whole, NEW i \in 1 .. Len(Boot), NEW j \in 1 .. Len(Boot), i # j, Home(i) = Home(j)
    PROVE  Last(Boot[i].path) # Last(Boot[j].path)
<1>1. Boot[i].path # Boot[j].path
  <2>1. i \in 1 .. (j - 1) \/ j \in 1 .. (i - 1)
    BY BootIs
  <2> QED BY <2>1, WholeStep
<1>2. Front(Boot[i].path) = Front(Boot[j].path)
  BY HomeFront
<1>3. /\ Boot[i].path \in Seq(Words) /\ Boot[i].path # <<>>
      /\ Boot[j].path \in Seq(Words) /\ Boot[j].path # <<>>
  BY WholeStep
<1> QED BY <1>1, <1>2, <1>3, SamePath

(* The walk of a path: that of its directory, and one component more. *)
LEMMA WalkLast ==
    ASSUME NEW S, NEW path \in Seq(S), path # <<>>
    PROVE  get_vnode(path) = Walked(get_vnode(Front(path)), Last(path))
<1>1. Len(path) \in Nat \ {0} /\ Front(path) = SubSeq(path, 1, Len(path) - 1)
      /\ Last(path) = path[Len(path)]
  BY FrontFacts
<1>2. PICK n : n = Len(path) - 1
  OBVIOUS
<1>3. n \in 0 .. Len(path) /\ Len(path) \in 1 .. Len(path) /\ Len(path) \in Nat
  BY <1>1, <1>2
<1>4. get_vnode(Front(path)) = Walk(path)[n]
  BY <1>1, <1>2, <1>3, PrefixWalk
<1>5. Walks(path)
  BY <1>3, AllPathsWalk DEF AllWalk
<1>6. Walk(path)[Len(path)] = Walked(Walk(path)[n], path[Len(path)])
  BY <1>2, <1>3, <1>5 DEF Walks
<1> QED BY <1>1, <1>4, <1>5, <1>6 DEF Walks

WalkLasts(S) == \A path \in Seq(S) : path # <<>> =>
                    get_vnode(path) = Walked(get_vnode(Front(path)), Last(path))
LEMMA WalkLastAfter == ASSUME NEW CONSTANT S PROVE WalkLasts(S)'
<1>1. WalkLasts(S)
  BY WalkLast DEF WalkLasts
<1> QED BY <1>1, PTL

NotCovered == \A v \in Nodes : mount[v] = NULL => Followed[v] = v
LEMMA TreesNotCovered == Trees => NotCovered
BY FollowedFacts DEF NotCovered

(* The directory of the next step is there. *)
LEMMA HomeReady ==
    ASSUME Whole, Trees, NEW n \in Nat, n < Len(Boot), Building(n)
    PROVE  LET g == get_vnode(Front(Boot[n + 1].path))
           IN /\ g.ret = OK /\ g.node = Home(n + 1) /\ g.used = Len(Boot[n + 1].path) - 1
              /\ Home(n + 1) \in Nodes /\ kind[Home(n + 1)] = "dir"
<1> DEFINE i == n + 1
           q == Front(Boot[i].path)
           g == get_vnode(q)
<1>1. i \in 1 .. Len(Boot) /\ (i - 1) = n
  BY BootIs
<1>2. Boot[i].path \in Seq(Words) /\ Boot[i].path # <<>>
  BY <1>1, WholeStep
<1>3. q \in Seq(Words) /\ Len(q) = Len(Boot[i].path) - 1 /\ Len(q) \in Nat
  BY <1>2, FrontFacts
<1> HIDE DEF i
<1>4. g.ret = OK /\ g.node = Home(i) /\ kind[Home(i)] = "dir"
  <2>1. CASE q = <<>>
    <3>1. Home(i) = Root
      BY <1>1, <2>1, WholeStep
    <3>2. Walks(q) /\ Len(q) = 0
      BY <1>3, <2>1, AllPathsWalk DEF AllWalk
    <3>3. g = Start
      BY <3>2 DEF Walks
    <3> HIDE DEF g
    <3> QED BY <3>1, <3>3 DEF Start, Trees, Shape
  <2>2. CASE q # <<>>
    <3>1. PICK j \in 1 .. (i - 1) : Boot[j].what = "dir" /\ Boot[j].path = q /\ Home(i) = 1 + j
      BY <1>1, <2>2, WholeStep
    <3>2. j \in 1 .. n /\ j \in Nat
      BY <1>1
    <3>3. Placed(j)
      BY <3>2 DEF Building
    <3>4. 1 + j = j + 1
      BY <3>2
    <3> QED BY <3>1, <3>3, <3>4 DEF Placed
  <2> QED BY <2>1, <2>2
<1>5. Reached(g, q, Len(q))
  BY <1>3, VnodeFacts
<1> HIDE DEF g, q
<1>6. g.used = Len(q) /\ g.node \in Nodes
  BY <1>4, <1>5 DEF Reached, Alloc
<1> QED BY <1>3, <1>4, <1>6 DEF g, q, i

(* Nothing there has its name. *)
LEMMA NextNew ==
    ASSUME Whole, Trees, NEW n \in Nat, n < Len(Boot), Building(n), Home(n + 1) \in Nodes
    PROVE  NoSuch(Home(n + 1), Last(Boot[n + 1].path))
<1> DEFINE i == n + 1
           v == Home(i)
<1>1. i \in 1 .. Len(Boot) /\ n \in 0 .. Len(Boot)
  BY BootIs
<1> HIDE DEF i
<1>2. SUFFICES ASSUME NEW s \in Slots, entry[v][s].name = Last(Boot[i].path) PROVE FALSE
  BY DEF NoSuch, i
<1>3. v \in Nodes
  BY DEF i
<1>4. entry[v][s].next # NULL
  <2>1. Last(Boot[i].path) # ""
    BY <1>1, WholeStep
  <2> QED BY <1>2, <1>3, <2>1 DEF Trees, Slotted
<1>5. Occupied(v, s, n)
  BY <1>3, <1>4 DEF Building
<1>6. PICK j \in 1 .. n : v = Home(j) /\ entry[v][s].name = Last(Boot[j].path)
  BY <1>5 DEF Occupied
<1>7. j \in 1 .. Len(Boot) /\ j # i
  BY <1>1 DEF i
<1> QED BY <1>1, <1>2, <1>6, <1>7, OwnNames

LEMMA NextMissing ==
    ASSUME Whole, Trees, NEW n \in Nat, n < Len(Boot), Building(n)
    PROVE  /\ get_vnode(Boot[n + 1].path).ret = PATH_NOT_FOUND
           /\ get_vnode(Boot[n + 1].path).node = Home(n + 1)
           /\ Missing(Boot[n + 1].path)
<1> DEFINE p == Boot[n + 1].path
           v == Home(n + 1)
           c == Last(p)
           g == get_vnode(Front(p))
           l == Lookup(v, c)
           h == get_vnode(p)
<1>1. n + 1 \in 1 .. Len(Boot)
  BY BootIs
<1>2. p \in Seq(Words) /\ p # <<>>
  BY <1>1, WholeStep
<1>3. g.ret = OK /\ g.node = v /\ g.used = Len(p) - 1 /\ v \in Nodes /\ kind[v] = "dir"
  BY HomeReady
<1>4. h = Walked(g, c)
  BY <1>2, WalkLast
<1>5. NoSuch(v, c)
  BY <1>3, NextNew
<1>6. l = [ret |-> PATH_NOT_FOUND, node |-> v]
  BY <1>3, <1>5 DEF Lookup, NoSuch
<1>7. Len(p) \in Nat
  BY <1>2
<1> HIDE DEF g, c, v, p, h
<1>8. h = [ret |-> l.ret, used |-> g.used + 1, node |-> IF l.ret = OK THEN Followed[l.node] ELSE g.node]
  BY <1>3, <1>4 DEF Walked
<1>9. l.ret = PATH_NOT_FOUND
  BY <1>6
<1> HIDE DEF l
<1>10. h.ret = PATH_NOT_FOUND /\ h.node = v /\ h.used = Len(p)
  BY <1>3, <1>7, <1>8, <1>9, Answered
<1> QED BY <1>10 DEF h, p, v, Missing

(* There is a slot left. *)
LEMMA NextRoom ==
    ASSUME Whole, Trees, NEW n \in Nat, n < Len(Boot), Building(n), Home(n + 1) \in Nodes
    PROVE  FreeSlots(Home(n + 1)) # {}
<1> DEFINE i == n + 1
           v == Home(i)
           C == Siblings(i) \ {i}
           f == [s \in Slots |-> entry[v][s].next - 1]
<1>1. i \in 1 .. Len(Boot) /\ n \in 0 .. Len(Boot) /\ Len(Boot) \in Nat
  BY BootIs
<1> HIDE DEF i
<1>2. v \in Nodes
  BY DEF i
<1>3. SUFFICES ASSUME \A s \in Slots : entry[v][s].next # NULL PROVE FALSE
  BY DEF FreeSlots, i
<1>4. ASSUME NEW s \in Slots
      PROVE  \E j \in C : f[s] = j /\ Home(j) = v /\ entry[v][s].name = Last(Boot[j].path)
  <2>1. Occupied(v, s, n)
    BY <1>2, <1>3 DEF Building
  <2>2. PICK j \in 1 .. n : /\ entry[v][s].next = j + 1 /\ v = Home(j)
                            /\ entry[v][s].name = Last(Boot[j].path)
    BY <2>1 DEF Occupied
  <2>3. j \in 1 .. Len(Boot) /\ j # i /\ j \in Nat
    BY <1>1 DEF i
  <2>4. f[s] = j
    BY <2>2, <2>3
  <2>5. j \in Siblings(i)
    BY <1>1, <2>2, <2>3, HomeFront DEF Siblings
  <2> QED BY <2>2, <2>3, <2>4, <2>5
<1>5. f \in [Slots -> C]
  BY <1>4
<1>6. ASSUME NEW s \in Slots, NEW t \in Slots, f[s] = f[t] PROVE s = t
  <2>1. entry[v][s].name = entry[v][t].name
    BY <1>4, <1>6
  <2> QED BY <1>2, <1>3, <2>1 DEF Trees, Slotted
<1>7. IsFiniteSet(Siblings(i)) /\ i \in Siblings(i)
  <2>1. IsFiniteSet(1 .. Len(Boot))
    BY <1>1, FS_Interval
  <2>2. Siblings(i) \subseteq 1 .. Len(Boot)
    BY DEF Siblings
  <2> QED BY <1>1, <2>1, <2>2, FS_Subset DEF Siblings
<1>8. IsFiniteSet(C) /\ Cardinality(C) = Cardinality(Siblings(i)) - 1
      /\ Cardinality(Siblings(i)) \in Nat
  BY <1>7, FS_RemoveElement, FS_CardinalityType
<1>9. IsFiniteSet(Slots) /\ Cardinality(Slots) = MaxEntry
  <2>1. MaxEntry \in Int /\ 1 \in Int /\ ~(1 > MaxEntry) /\ MaxEntry - 1 + 1 = MaxEntry
    BY FilesAssumption
  <2>2. /\ IsFiniteSet(1 .. MaxEntry)
        /\ Cardinality(1 .. MaxEntry) = IF 1 > MaxEntry THEN 0 ELSE MaxEntry - 1 + 1
    BY <2>1, FS_Interval
  <2> QED BY <2>1, <2>2 DEF Slots
<1>10. f \in Injection(Slots, C)
  <2>1. \A s, t \in Slots : f[s] = f[t] => s = t
    BY <1>6
  <2> HIDE DEF f, C
  <2> QED BY <1>5, <2>1 DEF Injection, IsInjective
<1> HIDE DEF f, C
<1>11. Cardinality(Slots) <= Cardinality(C)
  BY <1>8, <1>10, FS_Injection
<1>12. Cardinality(Siblings(i)) <= MaxEntry
  BY <1>1, WholeStep
<1> QED BY <1>8, <1>9, <1>11, <1>12, FilesAssumption

(* tmpfs_create or tmpfs_mkdir: what becomes of the tree. *)
Makes(path, k) == \/ k = "file" /\ Create(path)
                  \/ k = "dir" /\ Mkdir(path)

LEMMA MadeGrafts ==
    ASSUME Trees, NEW path, Len(path) \in Nat, Missing(path), Room(path), NEW k, Makes(path, k),
           UNCHANGED mount, NEW v, v = get_vnode(path).node, NEW m, m = Min(Fresh)
    PROVE  /\ Fresh # {} /\ v \in Nodes
           /\ \E i \in Slots : entry[v][i].next = NULL /\ Grafted(v, i, Last(path), m, k)
<1> DEFINE i == IF k = "file" THEN Max(FreeSlots(v)) ELSE Min(FreeSlots(v))
<1>1. v \in Nodes
  BY MissingFacts
<1>2. FreeSlots(v) # {} /\ FreeSlots(v) \in SUBSET (0 .. MaxEntry) /\ MaxEntry \in Nat
  BY FilesAssumption DEF Room, FreeSlots, Slots
<1>3. FreeSlots(v) \in SUBSET Nat
  BY <1>2
<1>4. i \in FreeSlots(v)
  BY <1>2, <1>3, MaxIn, MinIn
<1>5. Entered(v, i, Last(path), m, k) /\ Fresh # {} /\ k \in {"dir", "file"}
  BY DEF Makes, Create, Mkdir, NewNode, Linked, Entered
<1>6. m \in Nodes
  BY <1>5, FreshNode
<1>7. i \in Slots /\ entry[v][i].next = NULL
  BY <1>4 DEF FreeSlots
<1> HIDE DEF i
<1>8. Grafted(v, i, Last(path), m, k)
  BY <1>1, <1>5, <1>6, <1>7, EnteredFacts
<1> QED BY <1>1, <1>5, <1>7, <1>8

(* The next node is the next number. *)
LEMMA NextNode ==
    ASSUME Trees, NEW n \in Nat, Building(n), n + 1 < MaxNodes
    PROVE  Fresh # {} /\ Min(Fresh) = n + 2
<1>1. n + 2 \in Nodes /\ n + 1 \in Nodes
  BY FilesAssumption DEF Nodes
<1>2. kind[n + 2] = "none"
  BY <1>1 DEF Building
<1>3. Fresh # {}
  BY <1>1, <1>2 DEF Fresh
<1>4. PICK m : m = Min(Fresh)
  OBVIOUS
<1>5. m \in Nodes /\ kind[m] = "none" /\ \A v \in Nodes : v < m => v \in Alloc
  BY <1>3, <1>4, FreshNode
<1>6. m > n + 1
  BY <1>5 DEF Building
<1>7. ~(n + 2 < m)
  BY <1>1, <1>2, <1>5 DEF Alloc
<1>8. m \in Nat
  BY <1>5, FilesAssumption DEF Nodes
<1> QED BY <1>3, <1>4, <1>6, <1>7, <1>8

(* What is written into an empty buffer is what it holds then. *)
LEMMA WrittenWhole ==
    ASSUME NEW t \in Seq(Int)
    PROVE  Written(<<>>, 0, t) = t
<1>0. PICK b : b = <<>>
  OBVIOUS
<1>1. b \in Seq(Int) /\ b = <<>> /\ Len(b) = 0
  BY <1>0
<1>2. PICK w : w = Written(b, 0, t)
  OBVIOUS
<1>3. Overwritten(b, 0, t, Written(b, 0, t)) /\ Written(b, 0, t) \in Seq(Int)
  <2>1. 0 \in Nat
    OBVIOUS
  <2> QED BY <1>1, <2>1, WrittenBytes, WrittenFacts
<1>4. Overwritten(b, 0, t, w) /\ w \in Seq(Int)
  BY <1>2, <1>3
<1>5. Len(t) \in Nat /\ Len(w) \in Nat
  BY <1>4
<1>6. Len(w) = Len(t)
  BY <1>1, <1>4, <1>5 DEF Overwritten
<1>7. \A x \in 1 .. Len(w) : w[x] = t[x]
  <2>1. SUFFICES ASSUME NEW x \in 1 .. Len(w) PROVE w[x] = t[x]
    OBVIOUS
  <2>2. x \in (0 + 1) .. (0 + Len(t)) /\ x - 0 = x
    BY <1>5, <1>6
  <2> QED BY <1>4, <2>2 DEF Overwritten
<1>8. w = t
  <2>1. t = [x \in 1 .. Len(t) |-> t[x]]
    OBVIOUS
  <2>2. w = [x \in 1 .. Len(w) |-> w[x]]
    BY <1>4
  <2> QED BY <1>6, <1>7, <2>1, <2>2
<1> QED BY <1>1, <1>2, <1>8

(* One step of the boot. *)
LEMMA BuildingNext ==
    ASSUME Whole, Trees, Trees', Sized, NEW n \in Nat, n < Len(Boot), Building(n),
           NEW e, e = Boot[n + 1], NEW k, Makes(e.path, k), UNCHANGED mount,
           \/ k = "dir" /\ e.what = "dir" /\ UNCHANGED data
           \/ k = "file" /\ e.what = "file" /\ Unpacked(n + 2, e)
           \/ k = "file" /\ e.what \in {"uart", "frame"} /\ UNCHANGED data
    PROVE  Building(n + 1)'
<1>1. n + 1 \in 1 .. Len(Boot) /\ Len(Boot) \in Nat /\ n + 1 <= Len(Boot)
  BY BootIs
<1>2. e.path \in Seq(Words) /\ e.path # <<>> /\ Len(e.path) \in Nat
  <2>1. e.path \in Seq(Words) /\ e.path # <<>>
    BY <1>1, WholeStep
  <2> QED BY <2>1
<1>3. PICK p, c : p = Front(e.path) /\ c = Last(e.path)
  OBVIOUS
<1>4. p \in Seq(Words) /\ Len(p) \in Nat /\ Len(p) = Len(e.path) - 1
  BY <1>2, <1>3, FrontFacts
<1>5. PICK g : g = get_vnode(p)
  OBVIOUS
<1>6. PICK v : v = Home(n + 1)
  OBVIOUS
<1>7. g.ret = OK /\ g.node = v /\ g.used = Len(p) /\ v \in Nodes /\ kind[v] = "dir"
  BY <1>3, <1>4, <1>5, <1>6, HomeReady
<1>8. Missing(e.path) /\ get_vnode(e.path).node = v
  BY <1>6, NextMissing
<1>9. Room(e.path)
  BY <1>6, <1>7, <1>8, NextRoom DEF Room
<1>10. Fresh # {} /\ Min(Fresh) = n + 2
  <2>1. n + 1 < MaxNodes
    <3>1. Len(Boot) < MaxNodes
      BY DEF Whole
    <3>2. MaxNodes \in Nat
      BY FilesAssumption
    <3> QED BY <1>1, <3>1, <3>2
  <2> QED BY <2>1, NextNode
<1>11. PICK i \in Slots : entry[v][i].next = NULL /\ Grafted(v, i, c, n + 2, k)
  BY <1>2, <1>3, <1>8, <1>9, <1>10, MadeGrafts
<1>12. n + 2 \in Nodes /\ kind[n + 2] = "none" /\ n + 2 # NULL
  BY <1>10, FreshNode
<1>13. Grows
  <2>1. Create(e.path) \/ Mkdir(e.path)
    BY DEF Makes
  <2> QED BY <1>2, <1>8, <1>9, <2>1, MadeGrows
(* mounts, and the nodes taken *)
<1>14. ASSUME NEW u \in Nodes
       PROVE  mount'[u] = NULL /\ (kind'[u] = "none" <=> u > (n + 1) + 1)
  <2>1. mount'[u] = NULL /\ (kind[u] = "none" <=> u > n + 1) /\ u \in Nat
    BY FilesAssumption DEF Building, Nodes
  <2>2. kind'[n + 2] = k /\ (u # n + 2 => kind'[u] = kind[u])
    BY <1>11 DEF Grafted
  <2>3. k # "none"
    OBVIOUS
  <2>4. CASE u = n + 2
    BY <2>1, <2>2, <2>3, <2>4
  <2>5. CASE u # n + 2
    <3>1. u > n + 1 <=> u > (n + 1) + 1
      BY <2>1, <2>5
    <3> QED BY <2>1, <2>2, <2>5, <3>1
  <2> QED BY <2>4, <2>5
(* what was placed *)
<1>15. ASSUME NEW j \in 1 .. n PROVE Placed(j)'
  <2>1. PICK f : f = Boot[j]
    OBVIOUS
  <2>2. j \in 1 .. Len(Boot) /\ j + 1 # n + 2 /\ j + 1 \in Nat
    BY <1>1
  <2>3. /\ get_vnode(f.path).ret = OK /\ get_vnode(f.path).node = j + 1
        /\ f.what = "dir" => kind[j + 1] = "dir"
        /\ f.what = "file" => kind[j + 1] = "file" /\ data[j + 1] = f.data
    BY <2>1 DEF Building, Placed
  <2>4. Len(f.path) \in Nat
    <3>1. f.path \in Seq(Words)
      BY <2>1, <2>2, WholeStep
    <3> QED BY <3>1
  <2>5. get_vnode(f.path)' = get_vnode(f.path)
    BY <1>13, <2>3, <2>4, GrowsSame
  <2>6. j + 1 \in Nodes
    BY <2>3, <2>4, VnodeFacts DEF Reached, Alloc
  <2>7. kind'[j + 1] = kind[j + 1]
    BY <1>11, <2>2, <2>6 DEF Grafted
  <2>8. data'[j + 1] = data[j + 1]
    BY <2>2, <2>6 DEF Unpacked, Sized
  <2> QED BY <2>1, <2>3, <2>5, <2>7, <2>8 DEF Placed
(* what is placed *)
<1>16. Placed(n + 1)'
  <2>1. get_vnode(p)' = g
    BY <1>4, <1>5, <1>7, <1>13, GrowsSame
  <2>2. PICK h : h = get_vnode(e.path)'
    OBVIOUS
  <2>3. h = Walked(g, c)'
    <3>1. \A path \in Seq(Words) : path # <<>> =>
              get_vnode(path)' = Walked(get_vnode(Front(path)), Last(path))'
      BY WalkLastAfter DEF WalkLasts
    <3> QED BY <1>2, <1>3, <2>1, <2>2, <3>1
  <2>4. Lookup(v, c)' = [ret |-> OK, node |-> n + 2]
    <3>1. Finds'
      BY TreesFind, PTL
    <3>2. entry'[v][i].name = c /\ entry'[v][i].next = n + 2
      BY <1>11 DEF Grafted
    <3>3. ASSUME NEW x, x = entry'[v][i].name, entry'[v][i].next # NULL
          PROVE  Lookup(v, x)' = [ret |-> OK, node |-> entry'[v][i].next]
      BY <1>7, <3>1, <3>3 DEF Finds
    <3> QED BY <1>12, <3>2, <3>3
  <2>5. Followed'[n + 2] = n + 2
    <3>1. NotCovered'
      BY TreesNotCovered, PTL
    <3> QED BY <1>12, <1>14, <3>1 DEF NotCovered
  <2>6. h = [ret |-> OK, used |-> g.used + 1, node |-> n + 2]
    BY <1>7, <2>3, <2>4, <2>5 DEF Walked
  <2>7. kind'[n + 2] = k
    BY <1>11 DEF Grafted
  <2>8. e.what = "file" => data'[n + 2] = e.data
    <3>1. SUFFICES ASSUME e.what = "file" PROVE data'[n + 2] = e.data
      OBVIOUS
    <3>2. data' = [data EXCEPT ![n + 2] = Written(@, 0, e.data)]
      BY <3>1 DEF Unpacked
    <3>3. data[n + 2] = <<>> /\ data \in [Nodes -> Seq(Int)]
      BY <1>12 DEF Sized
    <3>4. e.data \in Seq(Int)
      BY <1>1, <3>1, StepPaths
    <3> QED BY <1>12, <3>2, <3>3, <3>4, WrittenWhole
  <2>9. (n + 1) + 1 = n + 2
    OBVIOUS
  <2> QED BY <2>2, <2>6, <2>7, <2>8, <2>9 DEF Placed
(* the slots *)
<1>17. ASSUME NEW u \in Nodes, NEW s \in Slots, entry'[u][s].next # NULL
       PROVE  Occupied(u, s, n + 1)'
  <2>1. CASE <<u, s>> = <<v, i>>
    <3>1. entry'[u][s].name = c /\ entry'[u][s].next = n + 2
      BY <1>11, <2>1 DEF Grafted
    <3>2. n + 2 = (n + 1) + 1 /\ n + 1 \in 1 .. (n + 1) /\ u = v
      BY <2>1
    <3> QED BY <1>3, <1>6, <3>1, <3>2 DEF Occupied
  <2>2. CASE <<u, s>> # <<v, i>>
    <3>1. entry'[u][s] = entry[u][s]
      BY <1>11, <2>2 DEF Grafted
    <3>2. Occupied(u, s, n)
      BY <1>17, <3>1 DEF Building
    <3>3. PICK j \in 1 .. n : /\ entry[u][s].next = j + 1 /\ u = Home(j)
                              /\ entry[u][s].name = Last(Boot[j].path)
      BY <3>2 DEF Occupied
    <3>4. j \in 1 .. (n + 1)
      OBVIOUS
    <3> QED BY <3>1, <3>3, <3>4 DEF Occupied
  <2> QED BY <2>1, <2>2
<1>18. \A j \in 1 .. (n + 1) : Placed(j)'
  <2>1. \A j \in 1 .. (n + 1) : j \in 1 .. n \/ j = n + 1
    OBVIOUS
  <2> QED BY <1>15, <1>16, <2>1
<1> QED BY <1>1, <1>14, <1>17, <1>18 DEF Building

(* The archive is unpacked, and nothing is lost on the way. *)
Unlost == pc = "lost" => misuse # {} \/ tainted # {}
Booting == Promise /\ Built /\ Unlost

LEMMA BootBuilds ==
    ASSUME Whole, Types, BootStep, Built
    PROVE  pc' = "boot" /\ Built'
<1>1. PICK n : n = calls
  OBVIOUS
<1>2. PICK e : e = Boot[n + 1]
  OBVIOUS
<1>3. n \in Nat /\ n < Len(Boot) /\ pc = "boot" /\ calls' = n + 1 /\ Building(n)
  BY <1>1 DEF BootStep, Built, Types, Rest
<1>4. BootDir(e) \/ BootFile(e) \/ BootDevice(e)
  BY <1>1, <1>2 DEF BootStep
<1> Trees /\ Sized
  BY DEF Types
<1>5. Trees'
  BY <1>1, <1>3, BootTrees
<1>6. /\ get_vnode(e.path).ret = PATH_NOT_FOUND /\ Missing(e.path)
      /\ get_vnode(e.path).node = Home(n + 1)
  BY <1>2, <1>3, NextMissing
<1>7. Room(e.path)
  <2>1. Home(n + 1) \in Nodes
    BY <1>3, HomeReady
  <2> QED BY <1>3, <1>6, <2>1, NextRoom DEF Room
<1>8. Fresh # {} /\ Min(Fresh) = n + 2
  <2>1. Len(Boot) < MaxNodes
    BY DEF Whole
  <2>2. MaxNodes \in Nat /\ Len(Boot) \in Nat
    BY FilesAssumption, BootIs
  <2>3. n + 1 < MaxNodes
    BY <1>3, <2>1, <2>2
  <2> QED BY <1>3, <2>3, NextNode
<1>9. \E k : /\ Makes(e.path, k) /\ UNCHANGED <<mount, pc>>
             /\ \/ k = "dir" /\ e.what = "dir" /\ UNCHANGED data
                \/ k = "file" /\ e.what = "file" /\ Unpacked(n + 2, e)
                \/ k = "file" /\ e.what \in {"uart", "frame"} /\ UNCHANGED data
  <2>1. CASE BootDir(e)
    <3>1. Makes(e.path, "dir") /\ UNCHANGED <<mount, pc, data>> /\ e.what = "dir"
      BY <1>6, <1>7, <2>1 DEF BootDir, Makes
    <3> QED BY <3>1
  <2>2. CASE BootDevice(e)
    <3>1. Makes(e.path, "file") /\ UNCHANGED <<mount, pc, data>> /\ e.what \in {"uart", "frame"}
      BY <1>6, <1>7, <2>2 DEF BootDevice, Makes
    <3> QED BY <3>1
  <2>3. CASE BootFile(e)
    <3>1. get_vnode(e.path).ret # OK
      BY <1>6, Answered
    <3>2. Create(e.path) /\ Unpacked(Min(Fresh), e) /\ UNCHANGED <<mount, pc>> /\ e.what = "file"
      BY <1>6, <1>7, <2>3, <3>1 DEF BootFile
    <3>3. Makes(e.path, "file") /\ Unpacked(n + 2, e)
      BY <1>8, <3>2 DEF Makes
    <3> QED BY <3>2, <3>3
  <2> QED BY <1>4, <2>1, <2>2, <2>3
<1>10. PICK k : /\ Makes(e.path, k) /\ UNCHANGED <<mount, pc>>
                /\ \/ k = "dir" /\ e.what = "dir" /\ UNCHANGED data
                   \/ k = "file" /\ e.what = "file" /\ Unpacked(n + 2, e)
                   \/ k = "file" /\ e.what \in {"uart", "frame"} /\ UNCHANGED data
  BY <1>9
<1>11. Building(n + 1)'
  BY <1>2, <1>3, <1>5, <1>10, BuildingNext
<1>12. Building(calls)'
  BY <1>3, <1>11 DEF Building
<1> QED BY <1>3, <1>10, <1>12 DEF Built

LEMMA BuildingStill ==
    ASSUME Whole, Trees, Trees', NEW n \in Nat, Building(n), UNCHANGED <<kind, entry, mount, data>>
    PROVE  Building(n)'
<1>1. Followed' = Followed
  BY DEF Followed
<1>2. \A v \in Alloc : \A c : Lookup(v, c).ret = OK => Lookup(v, c)' = Lookup(v, c)
  BY LookupSame
<1>3. ASSUME NEW j \in 1 .. n PROVE Placed(j)'
  <2>1. PICK f : f = Boot[j]
    OBVIOUS
  <2>2. j \in 1 .. Len(Boot)
    BY BootIs DEF Building
  <2>3. f.path \in Seq(Words)
    BY <2>1, <2>2, WholeStep
  <2>4. /\ get_vnode(f.path).ret = OK /\ get_vnode(f.path).node = j + 1
        /\ f.what = "dir" => kind[j + 1] = "dir"
        /\ f.what = "file" => kind[j + 1] = "file" /\ data[j + 1] = f.data
    BY <2>1 DEF Building, Placed
  <2>5. Len(f.path) \in Nat
    BY <2>3
  <2>6. get_vnode(f.path)' = get_vnode(f.path)
    BY <1>1, <1>2, <2>4, <2>5, WalkSame
  <2> QED BY <2>1, <2>4, <2>6 DEF Placed
<1> QED BY <1>3 DEF Building, Occupied

LEMMA NextBooting ==
    ASSUME Whole, Booting, [Next]_vars
    PROVE  Booting'
<1>1. Promise'
  BY NextPromise DEF Booting
<1>2. Inv /\ Forward /\ Types
  BY DEF Booting, Promise, Types
<1>3. Built' /\ (pc # "lost" /\ pc' = "lost" => pc = "run")
  <2>1. CASE BootStep
    BY <1>2, <2>1, BootBuilds DEF Booting
  <2>2. CASE Booted
    BY <2>2 DEF Booted, Built
  <2>3. CASE UNCHANGED vars
    <3>1. UNCHANGED <<kind, entry, mount, data, pc, calls>>
      BY <2>3 DEF vars, tree
    <3>2. CASE pc = "boot"
      <4>1. PICK n : n = calls
        OBVIOUS
      <4>2. Building(n) /\ n \in Nat /\ Trees /\ Trees'
        BY <1>1, <1>2, <3>2, <4>1 DEF Booting, Built, Types, Promise, Rest
      <4>3. Building(n)'
        BY <3>1, <4>2, BuildingStill
      <4>4. Building(calls)'
        BY <3>1, <4>1, <4>3 DEF Building
      <4> QED BY <3>1, <4>4 DEF Built
    <3>3. CASE pc # "boot"
      BY <3>1, <3>3 DEF Built
    <3> QED BY <3>1, <3>2, <3>3
  <2> QED BY <2>1, <2>2, <2>3, RunningStep DEF Built
<1>4. Unlost'
  <2>1. CASE pc = "run"
    BY <1>2, <2>1, NextDerailed DEF Derailed, Unlost
  <2>2. CASE pc = "lost"
    <3>1. UNCHANGED vars
      BY <2>2, RunningStep DEF BootStep, Booted
    <3> QED BY <3>1 DEF vars, Unlost, Booting
  <2>3. CASE pc = "boot"
    BY <1>3, <2>3 DEF Unlost
  <2> QED BY <1>2, <2>1, <2>2, <2>3 DEF Types, Rest
<1> QED BY <1>1, <1>3, <1>4 DEF Booting

LEMMA InitBooting == Init => Booting
<1> SUFFICES ASSUME Init PROVE Booting
  OBVIOUS
<1>1. /\ pc = "boot" /\ calls = 0 /\ mount = [v \in Nodes |-> NULL]
      /\ kind = [v \in Nodes |-> IF v = Root THEN "dir" ELSE "none"]
      /\ entry = [v \in Nodes |-> Empty]
  BY DEF Init
<1>2. \A v \in Nodes : mount[v] = NULL /\ (kind[v] = "none" <=> v > 0 + 1)
  BY <1>1, FilesAssumption DEF Nodes, Root
<1>3. \A v \in Nodes, s \in Slots : entry[v][s].next = NULL
  BY <1>1 DEF Empty
<1>4. Building(0)
  BY <1>2, <1>3, BootIs DEF Building
<1>5. Built /\ Unlost
  BY <1>1, <1>4 DEF Built, Unlost
<1> QED BY <1>5, InitPromise DEF Booting

(* The kernel follows a bad pointer only after a program misused the calls *)
(* or closed a standard descriptor: when the archive fits, open (vfs.c)    *)
(* fails on none of its files, so what initramfs does with its result      *)
(* without a look at it is never done to NULL.                             *)
THEOREM LostOnlyIfMisused == ASSUME Whole PROVE Spec => []LostOnlyIf
<1>1. Booting => LostOnlyIf
  BY DEF Booting, Unlost, LostOnlyIf
<1>2. Booting /\ [Next]_vars => Booting'
  BY NextBooting
<1> QED BY <1>1, <1>2, InitBooting, PTL DEF Spec

(* When the boot is over every file of an archive that fits can be found   *)
(* under its path and holds its bytes (initramfs, vfs_open, tmpfs_write).  *)
Complete ==
    pc = "boot" /\ pc' = "run" =>
        \A i \in 1 .. Len(Archive) :
            LET g == get_vnode(Archive[i].path)
            IN /\ g.ret = OK
               /\ Archive[i].what = "file" => data[g.node] = Archive[i].data

THEOREM ArchiveIsUnpacked == ASSUME Whole PROVE Spec => ArchiveUnpacked
<1>1. Booting /\ [Next]_vars => [Complete]_vars
  <2>1. SUFFICES ASSUME Booting, Next, pc = "boot", pc' = "run", NEW i \in 1 .. Len(Archive)
                 PROVE  LET g == get_vnode(Archive[i].path)
                        IN /\ g.ret = OK
                           /\ Archive[i].what = "file" => data[g.node] = Archive[i].data
    BY DEF Complete
  <2>2. ~BootStep
    BY <2>1, BootBuilds DEF Booting, Promise
  <2>3. ~UNCHANGED vars
    BY <2>1 DEF vars
  <2>4. Booted
    BY <2>1, <2>2, <2>3, RunningStep
  <2>5. Building(Len(Boot))
    BY <2>1, <2>4 DEF Booted, Booting, Built
  <2>6. i + 1 \in 1 .. Len(Boot) /\ Boot[i + 1] = Archive[i]
    BY BootIs
  <2>7. Placed(i + 1)
    BY <2>5, <2>6 DEF Building
  <2> QED BY <2>6, <2>7 DEF Placed
<1>2. Booting /\ [Next]_vars => Booting'
  BY NextBooting
<1> QED BY <1>1, <1>2, InitBooting, PTL DEF Spec, ArchiveUnpacked, Complete
=============================================================================
