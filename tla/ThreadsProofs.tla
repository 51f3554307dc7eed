---------------------------- MODULE ThreadsProofs ----------------------------
(***************************************************************************)
(* Proofs about module Threads, for every number of threads, signals,      *)
(* handler pages and calls: type correctness, that a thread is in one      *)
(* place (OneHome), and that a handler returns to the frame its signal     *)
(* interrupted (MaskedFrame), stray sigreturns and forks inside handlers   *)
(* included; then the pages handlers run on (StackPages), and that only    *)
(* such a sigreturn or fork, or the end of the last thread, makes the      *)
(* kernel derail (DerailsOnlyIf).                                          *)
(***************************************************************************)
EXTENDS Threads, FiniteSetTheorems, WellFoundedInduction, TLAPS

(***************************************************************************)
(* The inductive invariant.                                                *)
(***************************************************************************)
In(q, t) == \E k \in DOMAIN q : q[k] = t
Once(q) == \A j, k \in DOMAIN q : q[j] = q[k] => j = k

(* The queues hold the threads that wait and the zombies, each once.       *)
Homes ==
    pc # "lost" =>
        /\ Once(run_queue) /\ Once(kill_queue)
        /\ \A t \in Threads :
              /\ In(run_queue, t) <=> (status[t] = "RUN" /\ t # current)
              /\ In(kill_queue, t) <=> (status[t] = "ZONBIE" /\ t # current)
        /\ status[current] # "none"
        /\ pc \in {"run", "check"} => status[current] = "RUN"

(* A thread that does not execute has left a frame.  The frame of an       *)
(* activity inside uart_read or uart_write lies on the frame of its svc,   *)
(* so leaving it finds one; inside a handler both lie above ksp, so the    *)
(* frame the signal interrupted stays.                                     *)
Waiting(t) == t # current \/ pc \in {"schedule", "check"}
InIo(t) == t = current /\ pc = "run" /\ act[t].io
IoHigh(s) == \A k \in DOMAIN s : s[k].io => k >= 2
KeptIn(s, p, f) == /\ p \in DOMAIN s /\ s[p] = f
                   /\ \A k \in DOMAIN s : k > p /\ s[k].io => k >= p + 2
Framed(t) ==
    /\ Waiting(t) \/ InIo(t) => kstk[t] # <<>>
    /\ IoHigh(kstk[t])
    /\ Waiting(t) /\ ~fresh[t] /\ ~masked[t] => ksp[t] = Len(kstk[t])
Kept(t) ==
    masked[t] =>
        /\ KeptIn(kstk[t], ksp[t], interrupted[t])
        /\ Waiting(t) \/ InIo(t) => ksp[t] < Len(kstk[t])
Sound(t) ==
    /\ status[t] = "RUN" => Framed(t) /\ Kept(t)
    /\ status[t] = "none" => ~masked[t]
    /\ fresh[t] => ~masked[t] /\ t # current

Inv == /\ TypeOK
       /\ Homes
       /\ \A t \in Threads : Sound(t)

(***************************************************************************)
(* Sequences.                                                              *)
(***************************************************************************)
LEMMA AppendFacts ==
    ASSUME NEW S, NEW s \in Seq(S), NEW x \in S
    PROVE  /\ Append(s, x) \in Seq(S) /\ Len(Append(s, x)) = Len(s) + 1
           /\ Append(s, x) # <<>>
           /\ DOMAIN Append(s, x) = 1 .. (Len(s) + 1) /\ DOMAIN s = 1 .. Len(s)
           /\ Len(s) \in Nat
           /\ Append(s, x)[Len(s) + 1] = x
           /\ \A k \in 1 .. Len(s) : Append(s, x)[k] = s[k]
OBVIOUS

LEMMA PrefixFacts ==
    ASSUME NEW S, NEW s \in Seq(S), NEW n \in 1 .. (Len(s) + 1)
    PROVE  /\ SubSeq(s, 1, n - 1) \in Seq(S) /\ Len(SubSeq(s, 1, n - 1)) = n - 1
           /\ \A k \in 1 .. (n - 1) : SubSeq(s, 1, n - 1)[k] = s[k]
OBVIOUS

LEMMA FrontFacts ==
    ASSUME NEW S, NEW s \in Seq(S), s # <<>>
    PROVE  /\ Front(s) \in Seq(S) /\ Len(Front(s)) = Len(s) - 1
           /\ DOMAIN Front(s) = 1 .. (Len(s) - 1) /\ DOMAIN s = 1 .. Len(s)
           /\ Len(s) \in Nat /\ Len(s) >= 1
           /\ Last(s) = s[Len(s)] /\ Last(s) \in S
           /\ \A k \in 1 .. (Len(s) - 1) : Front(s)[k] = s[k]
<1>1. Len(s) \in Nat /\ Len(s) >= 1
  OBVIOUS
<1>2. Last(s) = s[Len(s)] /\ Last(s) \in S
  BY <1>1 DEF Last
<1>3. Front(s) = SubSeq(s, 1, Len(s) - 1)
  BY DEF Front
<1>4. Len(s) \in 1 .. (Len(s) + 1)
  BY <1>1
<1>5. /\ Front(s) \in Seq(S) /\ Len(Front(s)) = Len(s) - 1
      /\ \A k \in 1 .. (Len(s) - 1) : Front(s)[k] = s[k]
  BY <1>3, <1>4, PrefixFacts
<1>6. DOMAIN Front(s) = 1 .. (Len(s) - 1) /\ DOMAIN s = 1 .. Len(s)
  BY <1>5
<1> QED BY <1>1, <1>2, <1>5, <1>6

LEMMA RemoveFacts ==
    ASSUME NEW S, NEW s \in Seq(S), NEW k \in DOMAIN s
    PROVE  /\ RemoveAt(s, k) \in Seq(S)
           /\ Len(RemoveAt(s, k)) = Len(s) - 1
           /\ \A i \in 1 .. (Len(s) - 1) :
                RemoveAt(s, k)[i] = IF i < k THEN s[i] ELSE s[i + 1]
<1> DEFINE a == SubSeq(s, 1, k - 1)
           b == SubSeq(s, k + 1, Len(s))
<1>1. k \in 1 .. Len(s) /\ Len(s) \in Nat
  OBVIOUS
<1>2. a \in Seq(S) /\ Len(a) = k - 1 /\ \A i \in 1 .. (k - 1) : a[i] = s[i]
  BY <1>1
<1>3. b \in Seq(S) /\ Len(b) = Len(s) - k /\ \A i \in 1 .. (Len(s) - k) : b[i] = s[k + i]
  <2>1. CASE k = Len(s)
    BY <1>1, <2>1
  <2>2. CASE k < Len(s)
    BY <1>1, <2>2
  <2> QED BY <1>1, <2>1, <2>2
<1> HIDE DEF a, b
<1>4. RemoveAt(s, k) = a \o b
  BY DEF RemoveAt, a, b
<1> QED BY <1>1, <1>2, <1>3, <1>4

(* list_add_tail and list_del, of queues that hold nothing twice.          *)
LEMMA Enqueue ==
    ASSUME NEW q \in Seq(Threads), Once(q), NEW t \in Threads, ~In(q, t)
    PROVE  /\ Append(q, t) \in Seq(Threads) /\ Once(Append(q, t))
           /\ \A u \in Threads : In(Append(q, t), u) <=> In(q, u) \/ u = t
<1>1. /\ Append(q, t) \in Seq(Threads) /\ Len(q) \in Nat
      /\ DOMAIN Append(q, t) = 1 .. (Len(q) + 1) /\ DOMAIN q = 1 .. Len(q)
      /\ Append(q, t)[Len(q) + 1] = t
      /\ \A k \in 1 .. Len(q) : Append(q, t)[k] = q[k]
  BY AppendFacts
<1> DEFINE r == Append(q, t)
<1> HIDE DEF r
<1>2. ASSUME NEW j \in DOMAIN r, NEW k \in DOMAIN r, r[j] = r[k]
      PROVE  j = k
  <2>1. \A i \in DOMAIN r : (i \in DOMAIN q /\ r[i] = q[i]) \/ (i = Len(q) + 1 /\ r[i] = t)
    BY <1>1 DEF r
  <2>2. CASE j \in DOMAIN q /\ k \in DOMAIN q
    BY <1>1, <1>2, <2>2 DEF r, Once
  <2>3. CASE j \notin DOMAIN q \/ k \notin DOMAIN q
    BY <1>2, <2>1, <2>3 DEF In
  <2> QED BY <2>2, <2>3
<1>3. ASSUME NEW u \in Threads PROVE In(r, u) <=> In(q, u) \/ u = t
  <2>1. In(r, u) => In(q, u) \/ u = t
    <3>1. \A i \in DOMAIN r : (i \in DOMAIN q /\ r[i] = q[i]) \/ r[i] = t
      BY <1>1 DEF r
    <3> QED BY <3>1 DEF In
  <2>2. In(q, u) => In(r, u)
    <3>1. \A i \in DOMAIN q : i \in DOMAIN r /\ r[i] = q[i]
      BY <1>1 DEF r
    <3> QED BY <3>1 DEF In
  <2>3. In(r, t)
    <3>1. Len(q) + 1 \in DOMAIN r /\ r[Len(q) + 1] = t
      BY <1>1 DEF r
    <3> QED BY <3>1 DEF In
  <2> QED BY <2>1, <2>2, <2>3
<1> QED BY <1>1, <1>2, <1>3 DEF Once, r

LEMMA Dequeue ==
    ASSUME NEW q \in Seq(Threads), Once(q), NEW k \in DOMAIN q
    PROVE  /\ RemoveAt(q, k) \in Seq(Threads) /\ Once(RemoveAt(q, k)) /\ q[k] \in Threads
           /\ \A u \in Threads : In(RemoveAt(q, k), u) <=> In(q, u) /\ u # q[k]
<1> DEFINE r == RemoveAt(q, k)
<1>1. /\ r \in Seq(Threads) /\ Len(r) = Len(q) - 1
      /\ \A i \in 1 .. (Len(q) - 1) : r[i] = IF i < k THEN q[i] ELSE q[i + 1]
  BY RemoveFacts
<1> HIDE DEF r
<1>2. /\ DOMAIN r = 1 .. (Len(q) - 1) /\ DOMAIN q = 1 .. Len(q)
      /\ Len(q) \in Nat /\ k \in 1 .. Len(q) /\ q[k] \in Threads
  BY <1>1
<1> DEFINE from(i) == IF i < k THEN i ELSE i + 1
<1>3. \A i \in DOMAIN r : from(i) \in DOMAIN q /\ from(i) # k /\ r[i] = q[from(i)]
  BY <1>1, <1>2
<1>4. \A i, j \in DOMAIN r : from(i) = from(j) => i = j
  BY <1>2
<1>5. \A j \in DOMAIN q : j # k => \E i \in DOMAIN r : from(i) = j
  <2> SUFFICES ASSUME NEW j \in DOMAIN q, j # k PROVE \E i \in DOMAIN r : from(i) = j
    OBVIOUS
  <2>1. CASE j < k
    <3>1. j \in DOMAIN r /\ from(j) = j
      BY <1>2, <2>1
    <3> QED BY <3>1
  <2>2. CASE j > k
    <3>1. j - 1 \in DOMAIN r /\ from(j - 1) = j
      BY <1>2, <2>2
    <3> QED BY <3>1
  <2> QED BY <1>2, <2>1, <2>2
<1> HIDE DEF from
<1>6. Once(r)
  BY <1>3, <1>4 DEF Once
<1>7. ASSUME NEW u \in Threads PROVE In(r, u) <=> In(q, u) /\ u # q[k]
  <2>1. In(r, u) => In(q, u) /\ u # q[k]
    BY <1>3 DEF In, Once
  <2>2. In(q, u) /\ u # q[k] => In(r, u)
    BY <1>3, <1>5 DEF In
  <2> QED BY <2>1, <2>2
<1> QED BY <1>1, <1>2, <1>6, <1>7 DEF r

(***************************************************************************)
(* The queues.                                                             *)
(***************************************************************************)

(* Steps of the running thread that leave it running, or let it enter      *)
(* schedule, as itself or as a zombie.                                     *)
LEMMA HomesStay ==
    ASSUME Inv, pc \in {"run", "check"}, run_queue' = run_queue, kill_queue' = kill_queue,
           current' = current, status' = status
    PROVE  Homes'
<1>1. Homes /\ status[current] = "RUN"
  BY DEF Inv, Homes
<1> QED BY <1>1 DEF Homes, Once, In

LEMMA HomesDie ==
    ASSUME Inv, pc \in {"run", "check"}, run_queue' = run_queue, kill_queue' = kill_queue,
           current' = current, status' = [status EXCEPT ![current] = "ZONBIE"],
           pc' = "schedule"
    PROVE  Homes'
<1>1. Homes /\ status \in [Threads -> {"RUN", "ZONBIE", "none"}] /\ current \in Threads
  BY DEF Inv, TypeOK
<1>2. status'[current] = "ZONBIE" /\ \A t \in Threads : t # current => status'[t] = status[t]
  BY <1>1
<1> QED BY <1>1, <1>2 DEF Homes, Once, In

LEMMA HomesSchedule ==
    ASSUME Inv, schedule
    PROVE  Homes'
<1>0. /\ pc = "schedule" /\ status' = status /\ current \in Threads
      /\ run_queue \in Seq(Threads) /\ kill_queue \in Seq(Threads)
      /\ status \in [Threads -> {"RUN", "ZONBIE", "none"}]
      /\ status[current] \in {"RUN", "ZONBIE"} /\ Homes
  BY DEF schedule, Inv, TypeOK, Homes
<1> DEFINE q == IF status[current] = "RUN" THEN Enqueued(run_queue, current) ELSE run_queue
<1>1. /\ Once(run_queue) /\ Once(kill_queue)
      /\ ~In(run_queue, current) /\ ~In(kill_queue, current)
  BY <1>0 DEF Homes
<1>2. /\ q \in Seq(Threads) /\ Once(q)
      /\ \A t \in Threads : In(q, t) <=> status[t] = "RUN"
  <2>1. CASE status[current] = "RUN"
    <3>1. q = Append(run_queue, current)
      BY <2>1 DEF Enqueued
    <3> HIDE DEF q
    <3>2. \A t \in Threads : In(q, t) <=> In(run_queue, t) \/ t = current
      BY <1>0, <1>1, <3>1, Enqueue
    <3>3. q \in Seq(Threads) /\ Once(q)
      BY <1>0, <1>1, <3>1, Enqueue
    <3> QED BY <1>0, <2>1, <3>2, <3>3 DEF Homes
  <2>2. CASE status[current] = "ZONBIE"
    <3>1. q = run_queue
      BY <2>2
    <3> HIDE DEF q
    <3> QED BY <1>0, <1>1, <2>2, <3>1 DEF Homes
  <2> QED BY <1>0, <2>1, <2>2
<1>3. /\ Once(kill_queue')
      /\ \A t \in Threads : In(kill_queue', t) <=> status[t] = "ZONBIE"
  <2>1. kill_queue' = IF status[current] = "ZONBIE" THEN Append(kill_queue, current)
                      ELSE kill_queue
    BY DEF schedule
  <2>2. CASE status[current] = "ZONBIE"
    <3>1. kill_queue' = Append(kill_queue, current)
      BY <2>1, <2>2
    <3>2. /\ Once(kill_queue')
          /\ \A t \in Threads : In(kill_queue', t) <=> In(kill_queue, t) \/ t = current
      BY <1>0, <1>1, <3>1, Enqueue
    <3> QED BY <1>0, <2>2, <3>2 DEF Homes
  <2>3. CASE status[current] = "RUN"
    <3>1. kill_queue' = kill_queue
      BY <2>1, <2>3
    <3> QED BY <1>0, <1>1, <2>3, <3>1 DEF Homes
  <2> QED BY <1>0, <2>2, <2>3
<1>4. \/ pc' = "lost"
      \/ \E k \in DOMAIN q : /\ status[q[k]] = "RUN" /\ run_queue' = Dequeued(q, k)
                             /\ current' = q[k] /\ pc' \in {"run", "check"}
  BY DEF schedule
<1> HIDE DEF q
<1>5. CASE pc' = "lost"
  BY <1>5 DEF Homes
<1>6. CASE \E k \in DOMAIN q : /\ status[q[k]] = "RUN" /\ run_queue' = Dequeued(q, k)
                              /\ current' = q[k] /\ pc' \in {"run", "check"}
  <2>1. PICK k \in DOMAIN q : /\ status[q[k]] = "RUN" /\ run_queue' = RemoveAt(q, k)
                             /\ current' = q[k] /\ pc' \in {"run", "check"}
    BY <1>6 DEF Dequeued
  <2>2. /\ Once(run_queue') /\ current' \in Threads
        /\ \A t \in Threads : In(run_queue', t) <=> In(q, t) /\ t # current'
    BY <1>2, <2>1, Dequeue
  <2>3. \A t \in Threads : /\ In(run_queue', t) <=> (status'[t] = "RUN" /\ t # current')
                           /\ In(kill_queue', t) <=> (status'[t] = "ZONBIE" /\ t # current')
    BY <1>0, <1>2, <1>3, <2>1, <2>2
  <2>4. status'[current'] = "RUN"
    BY <1>0, <2>1
  <2> QED BY <1>3, <2>2, <2>3, <2>4 DEF Homes
<1> QED BY <1>4, <1>5, <1>6

LEMMA HomesFork ==
    ASSUME Inv, NEW c \in Threads, Fork(c)
    PROVE  Homes'
<1>1. /\ pc = "run" /\ pc' = pc /\ current' = current /\ kill_queue' = kill_queue
      /\ status[c] = "none" /\ status' = [status EXCEPT ![c] = "RUN"]
      /\ run_queue' = Append(run_queue, c)
  BY DEF Fork, Calling
<1>2. /\ Homes /\ status \in [Threads -> {"RUN", "ZONBIE", "none"}] /\ current \in Threads
      /\ run_queue \in Seq(Threads)
  BY DEF Inv, TypeOK
<1>3. /\ Once(run_queue) /\ Once(kill_queue) /\ status[current] = "RUN" /\ c # current
      /\ ~In(run_queue, c) /\ ~In(kill_queue, c)
  BY <1>1, <1>2 DEF Homes
<1>4. /\ Once(run_queue')
      /\ \A t \in Threads : In(run_queue', t) <=> In(run_queue, t) \/ t = c
  BY <1>1, <1>2, <1>3, Enqueue
<1>5. status'[c] = "RUN" /\ \A t \in Threads : t # c => status'[t] = status[t]
  BY <1>1, <1>2
<1>6. \A t \in Threads : /\ In(run_queue', t) <=> (status'[t] = "RUN" /\ t # current')
                         /\ In(kill_queue', t) <=> (status'[t] = "ZONBIE" /\ t # current')
  BY <1>1, <1>2, <1>3, <1>4, <1>5 DEF Homes
<1> QED BY <1>1, <1>2, <1>3, <1>4, <1>5, <1>6 DEF Homes

LEMMA HomesNext == ASSUME Inv, [Next]_vars PROVE Homes'
<1>1. CASE TimerIrq \/ EnterHandler \/ IgnoreSignal \/ Resume
  BY <1>1, HomesStay DEF TimerIrq, EnterHandler, IgnoreSignal, Resume, queues
<1>2. CASE DieOfSignal \/ Exit
  BY <1>2, HomesDie DEF DieOfSignal, Exit
<1>3. CASE schedule
  BY <1>3, HomesSchedule
<1>4. CASE Exec \/ IoBegin \/ IoEnd \/ SigReturn
  BY <1>4, HomesStay DEF Exec, IoBegin, IoEnd, SigReturn, Calling, queues
<1>5. ASSUME NEW t \in Threads, Fork(t) PROVE Homes'
  BY <1>5, HomesFork
<1>6. ASSUME NEW t \in Threads, LibKill(t) PROVE Homes'
  BY <1>6, HomesStay DEF LibKill, Calling, queues
<1>7. ASSUME NEW s \in Sigs, Signal(s) PROVE Homes'
  BY <1>7, HomesStay DEF Signal, Calling, queues
<1>8. ASSUME NEW s \in Sigs, NEW t \in Threads, Kill(id[t], s) PROVE Homes'
  BY <1>8, HomesStay DEF Kill, Calling, queues
<1>9. CASE Lost \/ UNCHANGED vars
  BY <1>9 DEF Lost, vars, Inv, Homes, Once, In
<1> QED BY <1>1, <1>2, <1>3, <1>4, <1>5, <1>6, <1>7, <1>8, <1>9
        DEF Next, KernelStep, UserStep

(***************************************************************************)
(* The frames.                                                             *)
(***************************************************************************)
LEMMA PushFrame ==
    ASSUME NEW s \in Seq(Activities), NEW a \in Activities, IoHigh(s), a.io => s # <<>>
    PROVE  /\ Append(s, a) \in Seq(Activities) /\ Append(s, a) # <<>> /\ IoHigh(Append(s, a))
           /\ \A p \in Nat, f \in Activities :
                KeptIn(s, p, f) /\ (a.io => p < Len(s))
                  => KeptIn(Append(s, a), p, f) /\ p < Len(Append(s, a))
<1>1. /\ Append(s, a) \in Seq(Activities) /\ Len(Append(s, a)) = Len(s) + 1
      /\ Append(s, a) # <<>>
      /\ DOMAIN Append(s, a) = 1 .. (Len(s) + 1) /\ DOMAIN s = 1 .. Len(s) /\ Len(s) \in Nat
      /\ Append(s, a)[Len(s) + 1] = a
      /\ \A k \in 1 .. Len(s) : Append(s, a)[k] = s[k]
  BY AppendFacts
<1>2. a.io => Len(s) >= 1
  BY <1>1
<1> DEFINE r == Append(s, a)
<1> HIDE DEF r
<1>3. IoHigh(r)
  BY <1>1, <1>2 DEF IoHigh, r
<1>4. ASSUME NEW p \in Nat, NEW f \in Activities, KeptIn(s, p, f), a.io => p < Len(s)
      PROVE  KeptIn(r, p, f) /\ p < Len(r)
  BY <1>1, <1>4 DEF KeptIn, r
<1> QED BY <1>1, <1>3, <1>4 DEF r

LEMMA PopFrame ==
    ASSUME NEW s \in Seq(Activities), s # <<>>, IoHigh(s)
    PROVE  /\ Front(s) \in Seq(Activities) /\ Last(s) \in Activities /\ IoHigh(Front(s))
           /\ Last(s).io => Front(s) # <<>>
           /\ \A p \in Nat, f \in Activities :
                KeptIn(s, p, f) /\ p < Len(s)
                  => KeptIn(Front(s), p, f) /\ (Last(s).io => p < Len(Front(s)))
<1>1. /\ Front(s) \in Seq(Activities) /\ Len(Front(s)) = Len(s) - 1
      /\ DOMAIN Front(s) = 1 .. (Len(s) - 1) /\ DOMAIN s = 1 .. Len(s)
      /\ Len(s) \in Nat /\ Len(s) >= 1
      /\ Last(s) = s[Len(s)] /\ Last(s) \in Activities
      /\ \A k \in 1 .. (Len(s) - 1) : Front(s)[k] = s[k]
  BY FrontFacts
<1> DEFINE r == Front(s)
           l == Last(s)
<1> HIDE DEF r, l
<1>2. IoHigh(r)
  BY <1>1 DEF IoHigh, r
<1>3. l.io => r # <<>>
  <2>1. l.io => Len(r) >= 1
    BY <1>1 DEF IoHigh, r, l
  <2> QED BY <1>1, <2>1 DEF r
<1>4. ASSUME NEW p \in Nat, NEW f \in Activities, KeptIn(s, p, f), p < Len(s)
      PROVE  KeptIn(r, p, f) /\ (l.io => p < Len(r))
  BY <1>1, <1>4 DEF KeptIn, r, l
<1> QED BY <1>1, <1>2, <1>3, <1>4 DEF r, l

LEMMA Types ==
    ASSUME Inv
    PROVE  /\ status \in [Threads -> {"RUN", "ZONBIE", "none"}]
           /\ current \in Threads /\ act \in [Threads -> Activities]
           /\ kstk \in [Threads -> Seq(Activities)] /\ ksp \in [Threads -> Nat]
           /\ fresh \in [Threads -> BOOLEAN] /\ masked \in [Threads -> BOOLEAN]
           /\ interrupted \in [Threads -> Activities]
BY DEF Inv, TypeOK

(* What a step does not touch stays sound.                                 *)
LEMMA OtherSound ==
    ASSUME Inv, NEW t \in Threads, Waiting(t)' => Waiting(t), InIo(t)' => Waiting(t) \/ InIo(t),
           status'[t] = status[t], kstk'[t] = kstk[t], ksp'[t] = ksp[t],
           masked'[t] = masked[t], interrupted'[t] = interrupted[t], fresh'[t] = fresh[t],
           fresh'[t] => t # current'
    PROVE  Sound(t)'
<1>1. Sound(t)
  BY DEF Inv
<1> QED BY <1>1 DEF Sound, Framed, Kept

LEMMA SameSound ==
    ASSUME Inv, current' = current, pc' \in {pc, "lost"}, status' = status, kstk' = kstk,
           ksp' = ksp, act' = act, masked' = masked, interrupted' = interrupted, fresh' = fresh
    PROVE  \A t \in Threads : Sound(t)'
<1> SUFFICES ASSUME NEW t \in Threads PROVE Sound(t)'
  OBVIOUS
<1>1. Sound(t)
  BY DEF Inv
<1>2. Waiting(t)' => Waiting(t)
  BY DEF Waiting
<1>3. InIo(t)' => InIo(t)
  BY DEF InIo
<1>4. fresh'[t] => t # current'
  BY <1>1 DEF Sound
<1> QED BY <1>2, <1>3, <1>4, OtherSound

(* A trap: the timer, the call of uart_read or uart_write, exec.           *)
LEMMA PushSound ==
    ASSUME Inv, pc = "run", current' = current, status' = status, masked' = masked,
           interrupted' = interrupted, fresh' = fresh,
           kstk' = [kstk EXCEPT ![current] = Append(@, act[current])],
           \/ pc' = "run" /\ ksp' = ksp
           \/ ksp' = IF ~masked[current]
                       THEN [ksp EXCEPT ![current] = Len(kstk[current]) + 1] ELSE ksp
    PROVE  \A t \in Threads : Sound(t)'
<1>1. PICK c \in Threads : c = current
  BY Types
<1>2. /\ kstk[c] \in Seq(Activities) /\ act[c] \in Activities /\ ksp[c] \in Nat
      /\ interrupted[c] \in Activities /\ status[c] = "RUN" /\ Sound(c) /\ ~fresh[c]
  <2>1. status[c] = "RUN" /\ Sound(c) /\ ~fresh[c]
    BY <1>1 DEF Inv, Homes, Sound
  <2> QED BY <2>1, Types
<1>3. IoHigh(kstk[c]) /\ (act[c].io => kstk[c] # <<>>)
  BY <1>1, <1>2 DEF Sound, Framed, InIo
<1>4. masked[c] => KeptIn(kstk[c], ksp[c], interrupted[c]) /\ (act[c].io => ksp[c] < Len(kstk[c]))
  BY <1>1, <1>2 DEF Sound, Kept, InIo
<1>5. kstk'[c] = Append(kstk[c], act[c]) /\ \A t \in Threads : t # c => kstk'[t] = kstk[t]
  BY <1>1, Types
<1>6. /\ kstk'[c] # <<>> /\ IoHigh(kstk'[c])
      /\ masked[c] => KeptIn(kstk'[c], ksp[c], interrupted[c]) /\ ksp[c] < Len(kstk'[c])
  BY <1>2, <1>3, <1>4, <1>5, PushFrame
<1>7. /\ \A t \in Threads : t # c => ksp'[t] = ksp[t]
      /\ masked[c] => ksp'[c] = ksp[c]
      /\ ~masked[c] => pc' = "run" \/ ksp'[c] = Len(kstk'[c])
  <2>1. Len(kstk'[c]) = Len(kstk[c]) + 1
    BY <1>2, <1>5, AppendFacts
  <2> QED BY <1>1, <2>1, Types
<1>8. Sound(c)'
  <2>1. pc' = "run" => ~Waiting(c)'
    BY <1>1 DEF Waiting
  <2> QED BY <1>1, <1>2, <1>6, <1>7, <2>1 DEF Sound, Framed, Kept
<1>9. ASSUME NEW t \in Threads, t # c PROVE Sound(t)'
  <2>1. Waiting(t) /\ Waiting(t)' /\ ~InIo(t)'
    BY <1>1, <1>9 DEF Waiting, InIo
  <2>2. fresh'[t] => t # current'
    BY <1>1, <1>9
  <2> QED BY <1>5, <1>7, <1>9, <2>1, <2>2, OtherSound
<1> QED BY <1>8, <1>9

(* A return: from the interrupt, from uart_read or uart_write, and of a    *)
(* thread dispatched for the first time.                                   *)
LEMMA PopSound ==
    ASSUME Inv, NEW c \in Threads, status[c] = "RUN", Waiting(c) \/ InIo(c),
           \A t \in Threads : t # c => Waiting(t), pc' = "run",
           current' = c, status' = status, masked' = masked, interrupted' = interrupted,
           ksp' = ksp, ~fresh'[c], \A t \in Threads : t # c => fresh'[t] = fresh[t],
           kstk' = [kstk EXCEPT ![c] = Front(@)], act' = [act EXCEPT ![c] = Last(kstk[c])]
    PROVE  /\ \A t \in Threads : Sound(t)'
           /\ kstk' \in [Threads -> Seq(Activities)] /\ act' \in [Threads -> Activities]
<1>1. /\ kstk[c] \in Seq(Activities) /\ kstk[c] # <<>> /\ ksp[c] \in Nat
      /\ interrupted[c] \in Activities /\ IoHigh(kstk[c])
      /\ masked[c] => KeptIn(kstk[c], ksp[c], interrupted[c]) /\ ksp[c] < Len(kstk[c])
  <2>1. Sound(c)
    BY DEF Inv
  <2> QED BY <2>1, Types DEF Sound, Framed, Kept
<1>2. /\ kstk'[c] = Front(kstk[c]) /\ act'[c] = Last(kstk[c])
      /\ \A t \in Threads : t # c => kstk'[t] = kstk[t]
  BY Types
<1>3. /\ Front(kstk[c]) \in Seq(Activities) /\ Last(kstk[c]) \in Activities
      /\ IoHigh(kstk'[c]) /\ (act'[c].io => kstk'[c] # <<>>)
      /\ masked[c] => /\ KeptIn(kstk'[c], ksp[c], interrupted[c])
                      /\ act'[c].io => ksp[c] < Len(kstk'[c])
  BY <1>1, <1>2, PopFrame
<1>4. Sound(c)'
  <2>1. ~Waiting(c)' /\ (InIo(c)' => act'[c].io)
    BY DEF Waiting, InIo
  <2> QED BY <1>3, <2>1 DEF Sound, Framed, Kept
<1>5. ASSUME NEW t \in Threads, t # c PROVE Sound(t)'
  <2>1. Waiting(t) /\ Waiting(t)' /\ ~InIo(t)'
    BY <1>5 DEF Waiting, InIo
  <2> QED BY <1>2, <1>5, <2>1, OtherSound
<1>6. kstk' \in [Threads -> Seq(Activities)] /\ act' \in [Threads -> Activities]
  BY <1>3, Types
<1> QED BY <1>4, <1>5, <1>6

LEMMA ScheduleSound ==
    ASSUME Inv, schedule
    PROVE  \A t \in Threads : Sound(t)'
<1> DEFINE q == IF status[current] = "RUN" THEN Enqueued(run_queue, current) ELSE run_queue
<1>1. /\ pc = "schedule" /\ status' = status /\ ksp' = ksp /\ masked' = masked
      /\ interrupted' = interrupted
      /\ \/ /\ pc' = "lost" /\ current' = current /\ UNCHANGED <<act, kstk, fresh>>
         \/ \E k \in DOMAIN q :
              /\ status[q[k]] = "RUN" /\ current' = q[k]
              /\ IF fresh[q[k]]
                   THEN /\ pc' = "run"
                        /\ act' = [act EXCEPT ![q[k]] = Last(kstk[q[k]])]
                        /\ kstk' = [kstk EXCEPT ![q[k]] = Front(@)]
                        /\ fresh' = [fresh EXCEPT ![q[k]] = FALSE]
                   ELSE pc' = "check" /\ UNCHANGED <<act, kstk, fresh>>
  BY DEF schedule, posix, ghost
<1>2. q \in Seq(Threads)
  <2>1. run_queue \in Seq(Threads) /\ current \in Threads
    BY DEF Inv, TypeOK
  <2> QED BY <2>1, AppendFacts DEF Enqueued
<1> HIDE DEF q
<1>3. \A t \in Threads : Waiting(t)
  BY <1>1 DEF Waiting
<1>4. CASE pc' = "lost" /\ current' = current /\ UNCHANGED <<act, kstk, fresh>>
  BY <1>1, <1>4, SameSound
<1>5. ASSUME NEW c \in Threads, status[c] = "RUN", current' = c, fresh[c],
             pc' = "run", act' = [act EXCEPT ![c] = Last(kstk[c])],
             kstk' = [kstk EXCEPT ![c] = Front(@)], fresh' = [fresh EXCEPT ![c] = FALSE]
      PROVE  \A t \in Threads : Sound(t)'
  <2>1. ~fresh'[c] /\ \A t \in Threads : t # c => fresh'[t] = fresh[t]
    BY <1>5, Types
  <2> QED BY <1>1, <1>3, <1>5, <2>1, PopSound
<1>6. ASSUME NEW c \in Threads, current' = c, ~fresh[c], pc' = "check",
             UNCHANGED <<act, kstk, fresh>>, NEW t \in Threads
      PROVE  Sound(t)'
  <2>1. fresh'[t] => t # current'
    BY <1>6
  <2> QED BY <1>1, <1>3, <1>6, <2>1, OtherSound
<1>7. CASE \E k \in DOMAIN q :
              /\ status[q[k]] = "RUN" /\ current' = q[k]
              /\ IF fresh[q[k]]
                   THEN /\ pc' = "run"
                        /\ act' = [act EXCEPT ![q[k]] = Last(kstk[q[k]])]
                        /\ kstk' = [kstk EXCEPT ![q[k]] = Front(@)]
                        /\ fresh' = [fresh EXCEPT ![q[k]] = FALSE]
                   ELSE pc' = "check" /\ UNCHANGED <<act, kstk, fresh>>
  <2>1. PICK c \in Threads :
              /\ status[c] = "RUN" /\ current' = c
              /\ IF fresh[c]
                   THEN /\ pc' = "run"
                        /\ act' = [act EXCEPT ![c] = Last(kstk[c])]
                        /\ kstk' = [kstk EXCEPT ![c] = Front(@)]
                        /\ fresh' = [fresh EXCEPT ![c] = FALSE]
                   ELSE pc' = "check" /\ UNCHANGED <<act, kstk, fresh>>
    <3>1. \A k \in DOMAIN q : q[k] \in Threads
      BY <1>2
    <3> QED BY <1>7, <3>1
  <2>2. CASE fresh[c]
    BY <1>5, <2>1, <2>2
  <2>3. CASE ~fresh[c]
    BY <1>6, <2>1, <2>3
  <2> QED BY <2>2, <2>3
<1> QED BY <1>1, <1>4, <1>7

(* run_posix: the frame on top is the one the signal interrupted.          *)
LEMMA EnterSound ==
    ASSUME Inv, EnterHandler
    PROVE  \A t \in Threads : Sound(t)'
<1>1. PICK c \in Threads : c = current
  BY Types
<1>2. /\ pc = "check" /\ pc' = "run" /\ current' = c /\ status' = status /\ kstk' = kstk
      /\ ksp' = ksp /\ fresh' = fresh
      /\ masked' = [masked EXCEPT ![c] = TRUE]
      /\ act' = [act EXCEPT ![c] = [h |-> Next1(c), io |-> FALSE]]
      /\ interrupted' = IF masked[c] THEN interrupted
                        ELSE [interrupted EXCEPT ![c] = Last(kstk[c])]
  BY <1>1 DEF EnterHandler, queues
<1>3. /\ Sound(c) /\ status[c] = "RUN" /\ Waiting(c) /\ ~fresh[c]
  BY <1>1, <1>2 DEF Inv, Homes, Sound, Waiting
<1>4. /\ kstk[c] \in Seq(Activities) /\ kstk[c] # <<>> /\ IoHigh(kstk[c])
      /\ ~masked[c] => ksp[c] = Len(kstk[c])
  BY <1>3, Types DEF Sound, Framed
<1>5. masked'[c] /\ ~act'[c].io
  BY <1>2, Types
<1>6. KeptIn(kstk[c], ksp[c], interrupted'[c])
  <2>1. CASE masked[c]
    BY <1>2, <1>3, <2>1 DEF Sound, Kept
  <2>2. CASE ~masked[c]
    <3>1. interrupted'[c] = Last(kstk[c])
      BY <1>2, <2>2, Types
    <3>2. /\ Len(kstk[c]) \in DOMAIN kstk[c] /\ Last(kstk[c]) = kstk[c][Len(kstk[c])]
          /\ \A k \in DOMAIN kstk[c] : ~(k > Len(kstk[c]))
      <4>1. /\ Last(kstk[c]) = kstk[c][Len(kstk[c])]
            /\ DOMAIN kstk[c] = 1 .. Len(kstk[c]) /\ Len(kstk[c]) \in Nat /\ Len(kstk[c]) >= 1
        BY <1>4, FrontFacts
      <4> QED BY <4>1
    <3> QED BY <1>4, <2>2, <3>1, <3>2 DEF KeptIn
  <2> QED BY <2>1, <2>2
<1>7. Sound(c)'
  <2>1. ~Waiting(c)' /\ ~InIo(c)'
    BY <1>2, <1>5 DEF Waiting, InIo
  <2> QED BY <1>2, <1>3, <1>4, <1>5, <1>6, <2>1 DEF Sound, Framed, Kept
<1>8. ASSUME NEW t \in Threads, t # c PROVE Sound(t)'
  <2>1. Waiting(t) /\ ~InIo(t)' /\ (fresh'[t] => t # current')
    BY <1>1, <1>2, <1>8 DEF Waiting, InIo
  <2>2. masked'[t] = masked[t] /\ interrupted'[t] = interrupted[t]
    BY <1>2, <1>8, Types
  <2> QED BY <1>2, <2>1, <2>2, OtherSound
<1> QED BY <1>7, <1>8

LEMMA DieSound ==
    ASSUME Inv, pc \in {"run", "check"}, current' = current,
           status' = [status EXCEPT ![current] = "ZONBIE"], kstk' = kstk, ksp' = ksp,
           masked' = masked, interrupted' = interrupted, fresh' = fresh
    PROVE  \A t \in Threads : Sound(t)'
<1>1. PICK c \in Threads : c = current
  BY Types
<1>2. status'[c] = "ZONBIE" /\ \A t \in Threads : t # c => status'[t] = status[t]
  BY <1>1, Types
<1>3. Sound(c)'
  <2>1. ~fresh[c]
    BY <1>1 DEF Inv, Sound
  <2> QED BY <1>2, <2>1 DEF Sound
<1>4. ASSUME NEW t \in Threads, t # c PROVE Sound(t)'
  <2>1. Waiting(t) /\ ~InIo(t)' /\ (fresh'[t] => t # current')
    BY <1>1, <1>4 DEF Waiting, InIo
  <2> QED BY <1>2, <1>4, <2>1, OtherSound
<1> QED BY <1>3, <1>4

LEMMA ForkSound ==
    ASSUME Inv, NEW c \in Threads, Fork(c)
    PROVE  \A t \in Threads : Sound(t)'
<1>1. /\ pc = "run" /\ pc' = pc /\ current' = current /\ ~act[current].io /\ act' = act
      /\ status[c] = "none" /\ status' = [status EXCEPT ![c] = "RUN"]
      /\ kstk' = [kstk EXCEPT ![c] = Append(kstk[current], act[current])]
      /\ fresh' = [fresh EXCEPT ![c] = TRUE]
      /\ ksp' = ksp /\ masked' = masked /\ interrupted' = interrupted
  BY DEF Fork, Calling
<1>2. /\ status[current] = "RUN" /\ c # current /\ ~masked[c]
  BY <1>1 DEF Inv, Homes, Sound
<1>3. IoHigh(kstk[current])
  BY <1>2, Types DEF Inv, Sound, Framed
<1>4. Append(kstk[current], act[current]) # <<>> /\ IoHigh(Append(kstk[current], act[current]))
  BY <1>1, <1>3, PushFrame, Types
<1>5. /\ status'[c] = "RUN" /\ fresh'[c] /\ kstk'[c] # <<>> /\ IoHigh(kstk'[c])
      /\ \A t \in Threads : t # c => /\ status'[t] = status[t] /\ fresh'[t] = fresh[t]
                                    /\ kstk'[t] = kstk[t]
  BY <1>1, <1>4, Types
<1>6. Sound(c)'
  BY <1>1, <1>2, <1>5 DEF Sound, Framed, Kept
<1>7. ASSUME NEW t \in Threads, t # c PROVE Sound(t)'
  <2>1. Sound(t)
    BY DEF Inv
  <2>2. (Waiting(t)' => Waiting(t)) /\ (InIo(t)' => InIo(t))
    BY <1>1 DEF Waiting, InIo
  <2>3. fresh'[t] => t # current'
    BY <1>1, <1>5, <1>7, <2>1 DEF Sound
  <2> QED BY <1>1, <1>5, <1>7, <2>2, <2>3, OtherSound
<1> QED BY <1>6, <1>7

(* return_posix drops the frame at ksp and all above.                      *)
LEMMA ReturnFrames ==
    ASSUME Inv, pc = "run", ~act[current].io, Returns(current)
    PROVE  /\ kstk' \in [Threads -> Seq(Activities)] /\ act' \in [Threads -> Activities]
           /\ IoHigh(kstk'[current]) /\ (act'[current].io => kstk'[current] # <<>>)
           /\ \A t \in Threads : t # current => kstk'[t] = kstk[t]
<1>1. PICK c \in Threads : c = current
  BY Types
<1>2. /\ kstk[c] \in Seq(Activities) /\ ksp[c] \in 1 .. (Len(kstk[c]) + 1) /\ IoHigh(kstk[c])
      /\ Len(kstk[c]) \in Nat /\ DOMAIN kstk[c] = 1 .. Len(kstk[c])
  <2>1. IoHigh(kstk[c])
    BY <1>1 DEF Inv, Homes, Sound, Framed
  <2>2. kstk[c] \in Seq(Activities)
    BY Types
  <2> QED BY <1>1, <2>1, <2>2 DEF Returns, FrameAt
<1> DEFINE n == ksp[c]
           r == SubSeq(kstk[c], 1, n - 1)
<1>3. /\ act' = [act EXCEPT ![c] = IF n > Len(kstk[c]) THEN @ ELSE kstk[c][n]]
      /\ kstk' = [kstk EXCEPT ![c] = r]
  BY <1>1 DEF Returns
<1>4. /\ r \in Seq(Activities) /\ Len(r) = n - 1
      /\ \A k \in 1 .. (n - 1) : r[k] = kstk[c][k]
  BY <1>2, PrefixFacts
<1> HIDE DEF r
<1>5. kstk'[c] = r /\ \A t \in Threads : t # c => kstk'[t] = kstk[t]
  BY <1>3, Types
<1>6. IoHigh(r)
  BY <1>2, <1>4 DEF IoHigh
<1>7. act' \in [Threads -> Activities] /\ (act'[c].io => r # <<>>)
  <2>1. CASE n > Len(kstk[c])
    <3>1. act' = act
      BY <1>3, <2>1, Types
    <3> QED BY <1>1, <3>1, Types
  <2>2. CASE n <= Len(kstk[c])
    <3>1. n \in DOMAIN kstk[c] /\ kstk[c][n] \in Activities
      BY <1>2, <2>2
    <3>2. act' \in [Threads -> Activities] /\ act'[c] = kstk[c][n]
      BY <1>2, <1>3, <2>2, <3>1, Types
    <3>3. act'[c].io => Len(r) >= 1
      BY <1>2, <1>4, <3>1, <3>2 DEF IoHigh
    <3> QED BY <3>2, <3>3
  <2> QED BY <1>2, <2>1, <2>2
<1>8. kstk' \in [Threads -> Seq(Activities)]
  BY <1>3, <1>4, Types
<1> QED BY <1>1, <1>5, <1>6, <1>7, <1>8

LEMMA SigReturnSound ==
    ASSUME Inv, pc = "run", ~act[current].io, Returns(current) \/ Derails(current),
           current' = current, status' = status, ksp' = ksp, fresh' = fresh
    PROVE  \A t \in Threads : Sound(t)'
<1>1. CASE Derails(current)
  BY <1>1, SameSound DEF Derails
<1>2. CASE Returns(current)
  <2>1. PICK c \in Threads : c = current
    BY Types
  <2>2. /\ masked' = [masked EXCEPT ![c] = FALSE] /\ pc' = pc
        /\ interrupted' = [interrupted EXCEPT ![c] = Main]
    BY <1>2, <2>1 DEF Returns, MaskAfter
  <2>3. /\ IoHigh(kstk'[c]) /\ (act'[c].io => kstk'[c] # <<>>)
        /\ \A t \in Threads : t # c => kstk'[t] = kstk[t]
    BY <1>2, <2>1, ReturnFrames
  <2>4. ~masked'[c]
        /\ \A t \in Threads : t # c => masked'[t] = masked[t] /\ interrupted'[t] = interrupted[t]
    BY <2>2, Types
  <2>5. Sound(c)'
    <3>1. ~Waiting(c)' /\ (InIo(c)' => act'[c].io)
      BY <2>1, <2>2 DEF Waiting, InIo
    <3>2. ~fresh[c]
      BY <2>1 DEF Inv, Sound
    <3> QED BY <2>3, <2>4, <3>1, <3>2 DEF Sound, Framed, Kept
  <2>6. ASSUME NEW t \in Threads, t # c PROVE Sound(t)'
    <3>1. Waiting(t) /\ ~InIo(t)' /\ (fresh'[t] => t # current')
      BY <2>1, <2>6 DEF Waiting, InIo
    <3> QED BY <2>3, <2>4, <2>6, <3>1, OtherSound
  <2> QED BY <2>5, <2>6
<1> QED BY <1>1, <1>2

LEMMA SoundNext == ASSUME Inv, [Next]_vars PROVE \A t \in Threads : Sound(t)'
<1>0. current \in Threads /\ Sound(current) /\ (pc \in {"run", "check"} => status[current] = "RUN")
      /\ ~fresh[current] /\ \A t \in Threads : t # current => Waiting(t)
  BY Types DEF Inv, Homes, Waiting, Sound
<1>1. CASE TimerIrq
  BY <1>1, PushSound DEF TimerIrq, SavesKsp, queues, posix, ghost
<1>2. CASE Exec \/ IoBegin
  BY <1>2, PushSound DEF Exec, IoBegin, Calling, queues, posix, ghost
<1>3. CASE schedule
  BY <1>3, ScheduleSound
<1>4. CASE EnterHandler
  BY <1>4, EnterSound
<1>5. CASE DieOfSignal \/ Exit
  BY <1>5, DieSound DEF DieOfSignal, Exit, stack, posix, ghost
<1>6. CASE IgnoreSignal
  BY <1>6, SameSound DEF IgnoreSignal, queues, stack, ghost
<1>7. CASE Resume
  <2>1. Waiting(current)
    BY <1>7 DEF Resume, Waiting
  <2> QED BY <1>0, <1>7, <2>1, PopSound DEF Resume, queues, posix, ghost
<1>8. CASE IoEnd
  <2>1. InIo(current)
    BY <1>8 DEF IoEnd, InIo
  <2> QED BY <1>0, <1>8, <2>1, PopSound DEF IoEnd, queues, posix, ghost
<1>9. CASE SigReturn
  BY <1>9, SigReturnSound DEF SigReturn, Calling, queues
<1>10. ASSUME NEW u \in Threads, LibKill(u) PROVE \A t \in Threads : Sound(t)'
  BY <1>10, SigReturnSound DEF LibKill, Calling, queues
<1>11. ASSUME NEW c \in Threads, Fork(c) PROVE \A t \in Threads : Sound(t)'
  BY <1>11, ForkSound
<1>12. ASSUME NEW s \in Sigs, Signal(s) PROVE \A t \in Threads : Sound(t)'
  BY <1>12, SameSound DEF Signal, queues, stack, ghost
<1>13. ASSUME NEW s \in Sigs, NEW u \in Threads, Kill(id[u], s)
       PROVE  \A t \in Threads : Sound(t)'
  BY <1>13, SameSound DEF Kill, queues, stack
<1>14. CASE Lost \/ UNCHANGED vars
  BY <1>14, SameSound DEF Lost, vars
<1> QED BY <1>1, <1>2, <1>3, <1>4, <1>5, <1>6, <1>7, <1>8, <1>9, <1>10, <1>11, <1>12,
           <1>13, <1>14 DEF Next, KernelStep, UserStep

(***************************************************************************)
(* Types.                                                                  *)
(***************************************************************************)
Less == {ss \in Nat \X Nat : ss[1] < ss[2]}

LEMMA LeastNumber ==
    ASSUME NEW S \in SUBSET Nat, S # {}
    PROVE  \E m \in S : \A n \in S : m <= n
<1>1. IsWellFoundedOn(Less, Nat)
  BY NatLessThanWellFounded DEF OpToRel, Less
<1>2. PICK m \in S : \A n \in S : <<n, m>> \notin Less
  BY <1>1, WFMin
<1>3. \A n \in S : ~(n < m)
  BY <1>2 DEF Less
<1> QED BY <1>3

(* check_posix takes a signal there is.                                    *)
LEMMA SignalTaken ==
    ASSUME Inv, signal[current] # {}
    PROVE  Next1(current) \in Sigs /\ Cleared(current) \in [Threads -> SUBSET Sigs]
<1>1. /\ signal \in [Threads -> SUBSET Sigs] /\ current \in Threads
      /\ signal[current] \in SUBSET Sigs /\ signal[current] \in SUBSET Nat
  <2>1. signal \in [Threads -> SUBSET Sigs] /\ current \in Threads
    BY DEF Inv, TypeOK
  <2>2. Sigs \subseteq Nat
    BY ThreadAssumption
  <2>3. signal[current] \in SUBSET Sigs
    BY <2>1
  <2> QED BY <2>1, <2>2, <2>3
<1>2. \E s \in signal[current] : \A r \in signal[current] : s <= r
  BY <1>1, LeastNumber
<1>3. Next1(current) \in signal[current]
  BY <1>2 DEF Next1
<1> QED BY <1>1, <1>3 DEF Cleared

LEMMA FramesTyped ==
    ASSUME Inv
    PROVE  /\ [kstk EXCEPT ![current] = Append(@, act[current])] \in [Threads -> Seq(Activities)]
           /\ Len(kstk[current]) + 1 \in Nat
<1>1. kstk[current] \in Seq(Activities) /\ act[current] \in Activities
  BY Types
<1>2. Append(kstk[current], act[current]) \in Seq(Activities) /\ Len(kstk[current]) \in Nat
  BY <1>1, AppendFacts
<1> QED BY <1>2, Types

LEMMA ScheduleTypes == ASSUME Inv, schedule PROVE TypeOK'
<1> DEFINE q == IF status[current] = "RUN" THEN Enqueued(run_queue, current) ELSE run_queue
<1>1. TypeOK /\ current \in Threads /\ run_queue \in Seq(Threads) /\ kill_queue \in Seq(Threads)
  BY DEF Inv, TypeOK
<1>2. q \in Seq(Threads)
  BY <1>1, AppendFacts DEF Enqueued
<1>3. kill_queue' \in Seq(Threads)
  <2>1. Append(kill_queue, current) \in Seq(Threads)
    BY <1>1, AppendFacts
  <2> QED BY <1>1, <2>1 DEF schedule
<1>4. /\ UNCHANGED <<status, id, thread_cnt, ksp, posix, pages, calls, interrupted, asked>>
      /\ pc = "schedule"
      /\ \/ /\ pc' = "lost" /\ cause' = cause \cup {"last thread gone"} /\ run_queue' = q
            /\ UNCHANGED <<current, act, kstk, fresh>>
         \/ /\ cause' = cause
            /\ \E k \in DOMAIN q :
                /\ run_queue' = Dequeued(q, k) /\ current' = q[k] /\ status[q[k]] = "RUN"
                /\ IF fresh[q[k]]
                     THEN /\ pc' = "run"
                          /\ act' = [act EXCEPT ![q[k]] = Last(kstk[q[k]])]
                          /\ kstk' = [kstk EXCEPT ![q[k]] = Front(@)]
                          /\ fresh' = [fresh EXCEPT ![q[k]] = FALSE]
                     ELSE pc' = "check" /\ UNCHANGED <<act, kstk, fresh>>
  BY DEF schedule
<1> HIDE DEF q
<1>5. CASE /\ pc' = "lost" /\ cause' = cause \cup {"last thread gone"} /\ run_queue' = q
           /\ UNCHANGED <<current, act, kstk, fresh>>
  BY <1>1, <1>2, <1>3, <1>4, <1>5 DEF TypeOK, posix, pages
<1>6. ASSUME cause' = cause, NEW k \in DOMAIN q,
             run_queue' = Dequeued(q, k), current' = q[k], status[q[k]] = "RUN",
             IF fresh[q[k]]
               THEN /\ pc' = "run"
                    /\ act' = [act EXCEPT ![q[k]] = Last(kstk[q[k]])]
                    /\ kstk' = [kstk EXCEPT ![q[k]] = Front(@)]
                    /\ fresh' = [fresh EXCEPT ![q[k]] = FALSE]
               ELSE pc' = "check" /\ UNCHANGED <<act, kstk, fresh>>
      PROVE  TypeOK'
  <2>1. PICK c \in Threads : c = q[k]
    BY <1>2
  <2>2. run_queue' \in Seq(Threads)
    BY <1>2, <1>6, RemoveFacts DEF Dequeued
  <2>3. /\ act' \in [Threads -> Activities] /\ kstk' \in [Threads -> Seq(Activities)]
        /\ fresh' \in [Threads -> BOOLEAN] /\ pc' \in {"run", "check"}
    <3>1. kstk[c] # <<>> /\ kstk[c] \in Seq(Activities)
      <4>1. Waiting(c) /\ status[c] = "RUN"
        BY <1>4, <1>6, <2>1 DEF Waiting
      <4> QED BY <4>1, Types DEF Inv, Sound, Framed
    <3>2. Front(kstk[c]) \in Seq(Activities) /\ Last(kstk[c]) \in Activities
      BY <3>1, FrontFacts
    <3>3. CASE fresh[c]
      <4>1. /\ pc' = "run" /\ act' = [act EXCEPT ![c] = Last(kstk[c])]
            /\ kstk' = [kstk EXCEPT ![c] = Front(kstk[c])]
            /\ fresh' = [fresh EXCEPT ![c] = FALSE]
        BY <1>6, <2>1, <3>3
      <4> QED BY <3>2, <4>1, Types
    <3>4. CASE ~fresh[c]
      BY <1>6, <2>1, <3>4, Types
    <3> QED BY <3>3, <3>4
  <2>4. current' \in Threads
    BY <1>6, <2>1
  <2> QED BY <1>1, <1>3, <1>4, <1>6, <2>2, <2>3, <2>4 DEF TypeOK, posix, pages
<1> QED BY <1>4, <1>5, <1>6

LEMMA EnterTypes == ASSUME Inv, EnterHandler PROVE TypeOK'
<1>1. TypeOK /\ current \in Threads
  BY DEF Inv, TypeOK
<1>2. Next1(current) \in Sigs /\ signal' \in [Threads -> SUBSET Sigs]
  BY SignalTaken DEF EnterHandler
<1>3. /\ sig_sp' \in [Threads -> SigPages \cup {0}] /\ mapped' \in [Threads -> SigPages \cup {0}]
      /\ taken' \subseteq SigPages /\ refcnt' \in [SigPages -> Int]
  <2>1. PICK p \in FreePages :
               /\ sig_sp' = [sig_sp EXCEPT ![current] = p]
               /\ mapped' = [mapped EXCEPT ![current] = p]
               /\ taken' = taken \cup {p}
               /\ refcnt' = [refcnt EXCEPT ![p] = @ + 1]
    BY DEF EnterHandler
  <2>2. p \in SigPages
    BY DEF FreePages
  <2>3. /\ sig_sp \in [Threads -> SigPages \cup {0}] /\ mapped \in [Threads -> SigPages \cup {0}]
        /\ taken \subseteq SigPages /\ refcnt \in [SigPages -> Int]
    BY <1>1 DEF TypeOK
  <2>4. sig_sp' \in [Threads -> SigPages \cup {0}]
    BY <2>1, <2>2, <2>3
  <2>5. mapped' \in [Threads -> SigPages \cup {0}]
    BY <2>1, <2>2, <2>3
  <2>6. taken' \subseteq SigPages
    BY <2>1, <2>2, <2>3
  <2>7. refcnt' \in [SigPages -> Int]
    BY <2>1, <2>2, <2>3
  <2> QED BY <2>4, <2>5, <2>6, <2>7
<1>4. act' \in [Threads -> Activities]
  <2>1. [h |-> Next1(current), io |-> FALSE] \in Activities
    BY <1>2 DEF Activities
  <2>2. act' = [act EXCEPT ![current] = [h |-> Next1(current), io |-> FALSE]]
    BY DEF EnterHandler
  <2> QED BY <2>1, <2>2, Types
<1>5. interrupted' \in [Threads -> Activities]
  <2>1. kstk[current] # <<>> /\ kstk[current] \in Seq(Activities)
    <3>1. Waiting(current) /\ status[current] = "RUN" /\ Sound(current)
      BY DEF EnterHandler, Inv, Homes, TypeOK, Waiting
    <3> QED BY <3>1, Types DEF Sound, Framed
  <2>2. Last(kstk[current]) \in Activities
    BY <2>1, FrontFacts
  <2> QED BY <2>2, Types DEF EnterHandler
<1>6. masked' \in [Threads -> BOOLEAN] /\ pc' = "run"
      /\ UNCHANGED <<queues, id, thread_cnt, current, kstk, ksp, fresh, signal_handler,
                     calls, cause, asked>>
  BY Types DEF EnterHandler
<1> QED BY <1>1, <1>2, <1>3, <1>4, <1>5, <1>6 DEF TypeOK, queues

LEMMA ForkTypes == ASSUME Inv, NEW c \in Threads, Fork(c) PROVE TypeOK'
<1>1. TypeOK /\ current \in Threads
  BY DEF Inv, TypeOK
<1>2. kstk' \in [Threads -> Seq(Activities)]
  <2>1. kstk[current] \in Seq(Activities) /\ act[current] \in Activities
    BY Types
  <2>2. Append(kstk[current], act[current]) \in Seq(Activities)
    BY <2>1, AppendFacts
  <2> QED BY <2>2, Types DEF Fork
<1>3. run_queue' \in Seq(Threads)
  <2>1. run_queue' = Append(run_queue, c) /\ run_queue \in Seq(Threads)
    BY <1>1 DEF Fork, TypeOK
  <2> QED BY <2>1, AppendFacts
<1>4. /\ status' \in [Threads -> {"RUN", "ZONBIE", "none"}] /\ id' \in [Threads -> Nat]
      /\ thread_cnt' \in Nat /\ fresh' \in [Threads -> BOOLEAN]
  <2>1. /\ id \in [Threads -> Nat] /\ thread_cnt \in Nat
        /\ id' = [id EXCEPT ![c] = thread_cnt] /\ thread_cnt' = thread_cnt + 1
    BY <1>1 DEF TypeOK, Fork
  <2>2. status' = [status EXCEPT ![c] = "RUN"] /\ fresh' = [fresh EXCEPT ![c] = TRUE]
    BY DEF Fork
  <2>3. status' \in [Threads -> {"RUN", "ZONBIE", "none"}]
    BY <2>2, Types
  <2>4. fresh' \in [Threads -> BOOLEAN]
    BY <2>2, Types
  <2>5. thread_cnt' \in Nat
    BY <2>1
  <2>6. id' \in [Threads -> Nat]
    BY <2>1
  <2> QED BY <2>3, <2>4, <2>5, <2>6
<1>5. /\ signal_handler' \in [Threads -> [Sigs -> {"none", "exit", "user"}]]
      /\ mapped' \in [Threads -> SigPages \cup {0}]
  <2>1. /\ signal_handler \in [Threads -> [Sigs -> {"none", "exit", "user"}]]
        /\ mapped \in [Threads -> SigPages \cup {0}]
    BY <1>1 DEF TypeOK
  <2>2. /\ signal_handler' = [signal_handler EXCEPT ![c] = signal_handler[current]]
        /\ mapped' = [mapped EXCEPT ![c] = mapped[current]]
    BY DEF Fork
  <2>3. signal_handler' \in [Threads -> [Sigs -> {"none", "exit", "user"}]]
    BY <1>1, <2>1, <2>2
  <2>4. mapped' \in [Threads -> SigPages \cup {0}]
    BY <1>1, <2>1, <2>2
  <2> QED BY <2>3, <2>4
<1>6. refcnt' \in [SigPages -> Int]
  <2>1. refcnt \in [SigPages -> Int]
    BY <1>1 DEF TypeOK
  <2>2. refcnt' = [p \in SigPages |-> IF p = mapped[current] THEN refcnt[p] + 1 ELSE refcnt[p]]
    BY DEF Fork
  <2> QED BY <2>1, <2>2
<1>7. cause' \subseteq {"last thread gone", "fork in a handler", "stray sigreturn"}
  BY <1>1 DEF Fork, TypeOK
<1>8. UNCHANGED <<kill_queue, current, pc, act, ksp, signal, masked, sig_sp, taken,
                  calls, interrupted, asked>>
  BY DEF Fork
<1> QED BY <1>1, <1>2, <1>3, <1>4, <1>5, <1>6, <1>7, <1>8 DEF TypeOK

LEMMA ReturnTypes ==
    ASSUME Inv, pc = "run", ~act[current].io, Returns(current) \/ Derails(current)
    PROVE  /\ act' \in [Threads -> Activities] /\ kstk' \in [Threads -> Seq(Activities)]
           /\ masked' \in [Threads -> BOOLEAN] /\ interrupted' \in [Threads -> Activities]
           /\ taken' \subseteq SigPages /\ refcnt' \in [SigPages -> Int]
           /\ pc' \in {"run", "lost"}
<1>1. /\ current \in Threads /\ taken \subseteq SigPages /\ refcnt \in [SigPages -> Int]
      /\ sig_sp[current] \in SigPages \cup {0}
  BY DEF Inv, TypeOK
<1>2. CASE Derails(current)
  BY <1>1, <1>2, Types DEF Derails
<1>3. CASE Returns(current)
  <2>1. act' \in [Threads -> Activities] /\ kstk' \in [Threads -> Seq(Activities)]
    BY <1>3, ReturnFrames
  <2>2. Main \in Activities
    BY DEF Main, Activities
  <2>3. masked' \in [Threads -> BOOLEAN] /\ interrupted' \in [Threads -> Activities]
    BY <1>3, <2>2, Types DEF Returns, MaskAfter
  <2>4. taken' \subseteq SigPages /\ refcnt' \in [SigPages -> Int] /\ pc' = pc
    BY <1>1, <1>3 DEF Returns
  <2> QED BY <2>1, <2>3, <2>4
<1> QED BY <1>2, <1>3

LEMMA TrapTypes ==
    ASSUME Inv, TimerIrq \/ Exec \/ IoBegin
    PROVE  TypeOK'
<1>1. TypeOK /\ current \in Threads /\ ksp \in [Threads -> Nat] /\ act \in [Threads -> Activities]
  BY DEF Inv, TypeOK
<1>2. kstk' \in [Threads -> Seq(Activities)]
  BY FramesTyped DEF TimerIrq, Exec, IoBegin
<1>3. ksp' \in [Threads -> Nat]
  <2>1. Len(kstk[current]) + 1 \in Nat
    BY FramesTyped
  <2>2. \/ ksp' = ksp
        \/ ksp' = [ksp EXCEPT ![current] = Len(kstk[current]) + 1]
    BY DEF TimerIrq, Exec, IoBegin
  <2> QED BY <1>1, <2>1, <2>2
<1>4. act' \in [Threads -> Activities]
  <2>1. CASE TimerIrq
    BY <1>1, <2>1 DEF TimerIrq
  <2>2. CASE Exec
    <3>1. Main \in Activities
      BY DEF Main, Activities
    <3> QED BY <1>1, <2>2, <3>1 DEF Exec
  <2>3. CASE IoBegin
    <3>1. act[current] \in Activities
      BY <1>1
    <3>2. [act[current] EXCEPT !.io = TRUE] \in Activities
      BY <3>1 DEF Activities
    <3>3. act' = [act EXCEPT ![current] = [act[current] EXCEPT !.io = TRUE]]
      BY <1>1, <2>3 DEF IoBegin
    <3> QED BY <1>1, <3>2, <3>3
  <2> QED BY <2>1, <2>2, <2>3
<1>5. calls' \in 0 .. MaxCalls
  <2>1. calls \in 0 .. MaxCalls /\ MaxCalls \in Nat
    BY <1>1, ThreadAssumption DEF TypeOK
  <2> QED BY <2>1 DEF TimerIrq, Exec, IoBegin, ghost
<1>6. /\ UNCHANGED <<queues, id, thread_cnt, current, fresh, posix, pages,
                     interrupted, cause, asked>>
      /\ pc' \in {"run", "schedule"}
  BY DEF TimerIrq, Exec, IoBegin, Calling, ghost
<1> QED BY <1>1, <1>2, <1>3, <1>4, <1>5, <1>6 DEF TypeOK, queues, posix, pages

LEMMA LeaveTypes ==
    ASSUME Inv, Resume \/ IoEnd
    PROVE  TypeOK'
<1>1. TypeOK /\ current \in Threads /\ status[current] = "RUN" /\ Sound(current)
  BY DEF Inv, TypeOK, Homes, Resume, IoEnd
<1>2. Waiting(current) \/ InIo(current)
  BY DEF Waiting, InIo, Resume, IoEnd
<1>3. kstk[current] # <<>> /\ kstk[current] \in Seq(Activities)
  BY <1>1, <1>2, Types DEF Sound, Framed
<1>4. Front(kstk[current]) \in Seq(Activities) /\ Last(kstk[current]) \in Activities
  BY <1>3, FrontFacts
<1>5. /\ act' = [act EXCEPT ![current] = Last(kstk[current])]
      /\ kstk' = [kstk EXCEPT ![current] = Front(kstk[current])]
      /\ UNCHANGED <<queues, id, thread_cnt, current, ksp, fresh, posix, pages, ghost>>
      /\ pc' = "run"
  BY DEF Resume, IoEnd
<1>6. act' \in [Threads -> Activities] /\ kstk' \in [Threads -> Seq(Activities)]
  BY <1>4, <1>5, Types
<1> QED BY <1>1, <1>5, <1>6 DEF TypeOK, queues, posix, pages, ghost

LEMMA KillTypes ==
    ASSUME Inv, NEW i, NEW s \in Sigs, Kill(i, s)
    PROVE  TypeOK'
<1>1. TypeOK
  BY DEF Inv
<1>2. signal' \in [Threads -> SUBSET Sigs]
  <2>1. PICK k \in DOMAIN run_queue :
            signal' = [signal EXCEPT ![run_queue[k]] = signal[run_queue[k]] \cup {s}]
    BY DEF Kill
  <2>2. PICK t \in Threads : t = run_queue[k]
    <3>1. run_queue \in Seq(Threads)
      BY <1>1 DEF TypeOK
    <3> QED BY <3>1
  <2>3. signal \in [Threads -> SUBSET Sigs]
    BY <1>1 DEF TypeOK
  <2>4. signal[t] \cup {s} \in SUBSET Sigs
    BY <2>3
  <2>5. signal' = [signal EXCEPT ![t] = signal[t] \cup {s}]
    BY <2>1, <2>2
  <2> QED BY <2>3, <2>4, <2>5
<1>3. calls' \in 0 .. MaxCalls
  <2>1. calls \in 0 .. MaxCalls /\ MaxCalls \in Nat
    BY <1>1, ThreadAssumption DEF TypeOK
  <2> QED BY <2>1 DEF Kill
<1>4. UNCHANGED <<queues, id, thread_cnt, current, pc, stack, signal_handler, masked,
                  sig_sp, pages, interrupted, cause, asked>>
  BY DEF Kill
<1> QED BY <1>1, <1>2, <1>3, <1>4 DEF TypeOK, queues, stack, pages

LEMMA SignalTypes ==
    ASSUME Inv, NEW s \in Sigs, Signal(s)
    PROVE  TypeOK'
<1>1. TypeOK /\ current \in Threads
  BY DEF Inv, TypeOK
<1> DEFINE H == [Sigs -> {"none", "exit", "user"}]
<1>2. signal_handler \in [Threads -> H]
  BY <1>1 DEF TypeOK
<1>3. signal_handler' = [signal_handler EXCEPT ![current]
                           = [signal_handler[current] EXCEPT ![s] = "user"]]
  BY <1>1, <1>2 DEF Signal
<1>4. [signal_handler[current] EXCEPT ![s] = "user"] \in H
  BY <1>1, <1>2
<1> HIDE DEF H
<1>5. signal_handler' \in [Threads -> H]
  BY <1>1, <1>2, <1>3, <1>4
<1>6. UNCHANGED <<queues, id, thread_cnt, current, pc, stack, signal, masked, sig_sp,
                  pages, ghost>>
  BY DEF Signal
<1> QED BY <1>1, <1>5, <1>6 DEF TypeOK, H, queues, stack, pages, ghost

LEMMA DieTypes ==
    ASSUME Inv, DieOfSignal \/ IgnoreSignal \/ Exit
    PROVE  TypeOK'
<1>1. TypeOK /\ current \in Threads
  BY DEF Inv, TypeOK
<1>2. signal' \in [Threads -> SUBSET Sigs]
  <2>1. CASE Exit
    BY <1>1, <2>1 DEF Exit, posix, TypeOK
  <2>2. CASE DieOfSignal \/ IgnoreSignal
    BY <2>2, SignalTaken DEF DieOfSignal, IgnoreSignal
  <2> QED BY <2>1, <2>2
<1>3. status' \in [Threads -> {"RUN", "ZONBIE", "none"}]
  <2>1. status' = status \/ status' = [status EXCEPT ![current] = "ZONBIE"]
    BY DEF DieOfSignal, IgnoreSignal, Exit, queues
  <2> QED BY <2>1, Types
<1>4. /\ UNCHANGED <<id, thread_cnt, run_queue, kill_queue, current, stack, signal_handler,
                     masked, sig_sp, pages, ghost>>
      /\ pc' \in {"check", "schedule"}
  BY DEF DieOfSignal, IgnoreSignal, Exit, queues, posix
<1> QED BY <1>1, <1>2, <1>3, <1>4 DEF TypeOK, stack, pages, ghost

LEMMA SigReturnTypes ==
    ASSUME Inv, SigReturn \/ \E u \in Threads : LibKill(u)
    PROVE  TypeOK'
<1>1. TypeOK
  BY DEF Inv
<1>2. /\ pc = "run" /\ ~act[current].io /\ (Returns(current) \/ Derails(current))
      /\ UNCHANGED <<queues, id, thread_cnt, current, ksp, fresh, signal, signal_handler,
                     sig_sp, mapped>>
  BY DEF SigReturn, LibKill, Calling
<1>3. /\ calls' \in 0 .. MaxCalls /\ asked' \subseteq Threads
      /\ cause' \subseteq {"last thread gone", "fork in a handler", "stray sigreturn"}
  <2>1. /\ calls \in 0 .. MaxCalls /\ MaxCalls \in Nat /\ asked \subseteq Threads
        /\ cause \subseteq {"last thread gone", "fork in a handler", "stray sigreturn"}
    BY <1>1, ThreadAssumption DEF TypeOK
  <2>2. CASE SigReturn
    BY <2>1, <2>2 DEF SigReturn
  <2>3. CASE \E u \in Threads : LibKill(u)
    <3>1. PICK u \in Threads : /\ calls < MaxCalls /\ calls' = calls + 1
                              /\ asked' = asked \cup {u}
                              /\ cause' = cause \cup {"stray sigreturn"}
      BY <2>3 DEF LibKill
    <3>2. calls' \in 0 .. MaxCalls
      <4>1. calls < MaxCalls /\ calls' = calls + 1
        BY <3>1
      <4>2. calls \in 0 .. MaxCalls /\ MaxCalls \in Nat
        BY <2>1
      <4> QED BY <4>1, <4>2
    <3>3. asked' \subseteq Threads
      BY <2>1, <3>1
    <3>4. cause' \subseteq {"last thread gone", "fork in a handler", "stray sigreturn"}
      BY <2>1, <3>1
    <3> QED BY <3>2, <3>3, <3>4
  <2> QED BY <2>2, <2>3
<1>4. /\ act' \in [Threads -> Activities] /\ kstk' \in [Threads -> Seq(Activities)]
      /\ masked' \in [Threads -> BOOLEAN] /\ interrupted' \in [Threads -> Activities]
      /\ taken' \subseteq SigPages /\ refcnt' \in [SigPages -> Int]
      /\ pc' \in {"run", "lost"}
  BY <1>2, ReturnTypes
<1> QED BY <1>1, <1>2, <1>3, <1>4 DEF TypeOK, queues

LEMMA TypeNext == ASSUME Inv, [Next]_vars PROVE TypeOK'
<1>1. CASE TimerIrq \/ Exec \/ IoBegin
  BY <1>1, TrapTypes
<1>2. CASE schedule
  BY <1>2, ScheduleTypes
<1>3. CASE EnterHandler
  BY <1>3, EnterTypes
<1>4. CASE DieOfSignal \/ IgnoreSignal \/ Exit
  BY <1>4, DieTypes
<1>5. CASE Resume \/ IoEnd
  BY <1>5, LeaveTypes
<1>6. CASE SigReturn \/ \E u \in Threads : LibKill(u)
  BY <1>6, SigReturnTypes
<1>7. ASSUME NEW c \in Threads, Fork(c) PROVE TypeOK'
  BY <1>7, ForkTypes
<1>8. ASSUME NEW s \in Sigs, Signal(s) PROVE TypeOK'
  BY <1>8, SignalTypes
<1>9. ASSUME NEW s \in Sigs, NEW t \in Threads, Kill(id[t], s) PROVE TypeOK'
  BY <1>9, KillTypes
<1>10. CASE Lost \/ UNCHANGED vars
  BY <1>10 DEF Lost, vars, Inv, TypeOK
<1> QED BY <1>1, <1>2, <1>3, <1>4, <1>5, <1>6, <1>7, <1>8, <1>9, <1>10
        DEF Next, KernelStep, UserStep

(***************************************************************************)
(* The theorems.                                                           *)
(***************************************************************************)
LEMMA InitInv == ASSUME Init PROVE Inv
<1>1. Main \in Activities /\ <<>> \in Seq(Activities) /\ <<>> \in Seq(Threads)
  BY DEF Main, Activities
<1>2. Default \in [Sigs -> {"none", "exit", "user"}]
  BY DEF Default
<1>3. TypeOK
  BY <1>1, <1>2, ThreadAssumption DEF Init, TypeOK, Each
<1>4. Homes
  BY ThreadAssumption DEF Init, Homes, Once, In
<1>5. ASSUME NEW t \in Threads PROVE Sound(t)
  <2>1. ~masked[t] /\ ~fresh[t] /\ kstk[t] = <<>>
    BY DEF Init, Each
  <2>2. status[t] = "RUN" => t = current
    BY DEF Init
  <2>3. ~act[t].io /\ pc = "run"
    BY DEF Init, Each, Main
  <2> QED BY <2>1, <2>2, <2>3 DEF Sound, Framed, Kept, Waiting, InIo, IoHigh
<1> QED BY <1>3, <1>4, <1>5 DEF Inv

(* The invariant holds in every state of the kernel.                       *)
THEOREM InvHolds == Spec => []Inv
<1>1. Init => Inv
  BY InitInv
<1>2. Inv /\ [Next]_vars => Inv'
  BY TypeNext, HomesNext, SoundNext DEF Inv
<1> QED BY <1>1, <1>2, PTL DEF Spec

(* Every variable of the scheduler and of the signals has its type: the    *)
(* queues hold threads, a frame is popped only from a stack that has one,  *)
(* and a handler runs on a page of the pool.                               *)
THEOREM TypeCorrect == Spec => []TypeOK
<1>1. Inv => TypeOK
  BY DEF Inv
<1> QED BY <1>1, InvHolds, PTL

LEMMA OncePlace ==
    ASSUME NEW q \in Seq(Threads), Once(q), NEW t \in Threads
    PROVE  Cardinality({k \in DOMAIN q : q[k] = t}) = IF In(q, t) THEN 1 ELSE 0
<1>1. CASE In(q, t)
  <2>1. PICK k \in DOMAIN q : q[k] = t
    BY <1>1 DEF In
  <2>2. {j \in DOMAIN q : q[j] = t} = {k}
    BY <2>1 DEF Once
  <2> QED BY <1>1, <2>2, FS_Singleton
<1>2. CASE ~In(q, t)
  <2>1. {j \in DOMAIN q : q[j] = t} = {}
    BY <1>2 DEF In
  <2> QED BY <1>2, <2>1, FS_EmptySet
<1> QED BY <1>1, <1>2

(* A thread runs, or waits once in the run queue, or is once in the kill   *)
(* queue as a zombie, and never in two of these places: whatever threads   *)
(* fork, exit, die of a signal or are interrupted, __schedule's list_add   *)
(* never inserts a list_head that a queue already holds.                   *)
THEOREM OneHomeHolds == Spec => []OneHome
<1>1. Inv => OneHome
  <2> SUFFICES ASSUME Inv, pc \in {"run", "check"}, NEW t \in Threads
               PROVE  /\ Places(t) = IF t = current \/ status[t] = "none" THEN 0 ELSE 1
                      /\ status[t] = "ZONBIE" <=> t \in Range(kill_queue)
    BY DEF OneHome
  <2>1. /\ run_queue \in Seq(Threads) /\ kill_queue \in Seq(Threads)
        /\ status[t] \in {"RUN", "ZONBIE", "none"}
    BY DEF Inv, TypeOK
  <2>2. /\ Once(run_queue) /\ Once(kill_queue) /\ status[current] = "RUN"
        /\ In(run_queue, t) <=> (status[t] = "RUN" /\ t # current)
        /\ In(kill_queue, t) <=> (status[t] = "ZONBIE" /\ t # current)
    BY DEF Inv, Homes
  <2>3. /\ Cardinality({k \in DOMAIN run_queue : run_queue[k] = t})
              = IF In(run_queue, t) THEN 1 ELSE 0
        /\ Cardinality({k \in DOMAIN kill_queue : kill_queue[k] = t})
              = IF In(kill_queue, t) THEN 1 ELSE 0
    BY <2>1, <2>2, OncePlace
  <2>4. Places(t) = IF t = current \/ status[t] = "none" THEN 0 ELSE 1
    BY <2>1, <2>2, <2>3 DEF Places
  <2>5. t \in Range(kill_queue) <=> In(kill_queue, t)
    BY DEF Range, In
  <2> QED BY <2>2, <2>4, <2>5
<1> QED BY <1>1, InvHolds, PTL

(* The frame sigreturn goes back to is there and is the one the signal     *)
(* interrupted, for every sequence of ticks, system calls, forks, execs    *)
(* and nested handlers: save_sp leaves ksp alone while masked is set, and  *)
(* nothing below ksp is popped before sigreturn.                           *)
THEOREM HandlersReturn == Spec => []MaskedFrame
<1>1. Inv => MaskedFrame
  BY DEF Inv, Sound, Kept, KeptIn, MaskedFrame
<1> QED BY <1>1, InvHolds, PTL

(* First in, first out: every schedule gives the CPU to the thread that    *)
(* waits longest, and no step lets one overtake another.                   *)
InOrder ==
    IF pc = "schedule" /\ pc' # "lost"
      THEN run_queue # <<>> =>
             /\ current' = run_queue[1]
             /\ \A k \in 2 .. Len(run_queue) :
                  k - 1 \in DOMAIN run_queue' /\ run_queue'[k - 1] = run_queue[k]
      ELSE \A k \in DOMAIN run_queue :
             k \in DOMAIN run_queue' /\ run_queue'[k] = run_queue[k]

LEMMA ScheduleInOrder == ASSUME Inv, schedule PROVE InOrder
<1> DEFINE w == run_queue
           q == IF status[current] = "RUN" THEN Enqueued(w, current) ELSE w
<1>1. /\ pc = "schedule" /\ w \in Seq(Threads) /\ current \in Threads
      /\ Len(w) \in Nat /\ DOMAIN w = 1 .. Len(w)
  <2>1. pc = "schedule" /\ w \in Seq(Threads) /\ current \in Threads
    BY DEF schedule, Inv, TypeOK
  <2> QED BY <2>1
<1>2. /\ q \in Seq(Threads) /\ Len(q) \in Nat /\ Len(w) <= Len(q) /\ DOMAIN q = 1 .. Len(q)
      /\ \A k \in 1 .. Len(w) : q[k] = w[k]
  <2>1. CASE status[current] = "RUN"
    <3>1. q = Append(w, current)
      BY <2>1 DEF Enqueued
    <3> HIDE DEF q
    <3> QED BY <1>1, <3>1, AppendFacts
  <2>2. CASE status[current] # "RUN"
    BY <1>1, <2>2
  <2> QED BY <2>1, <2>2
<1>3. \/ pc' = "lost" /\ run_queue' = q
      \/ /\ pc' # "lost"
         /\ \E k \in DOMAIN q : /\ \A j \in 1 .. (k - 1) : status[q[j]] # "RUN"
                                /\ run_queue' = RemoveAt(q, k) /\ current' = q[k]
  BY DEF schedule, Dequeued
<1> HIDE DEF q
<1>4. CASE pc' = "lost" /\ run_queue' = q
  <2>1. \A k \in DOMAIN w : k \in DOMAIN q /\ q[k] = w[k]
    BY <1>1, <1>2
  <2> QED BY <1>4, <2>1 DEF InOrder
<1>5. ASSUME pc' # "lost", w # <<>>, NEW k \in DOMAIN q,
             \A j \in 1 .. (k - 1) : status[q[j]] # "RUN",
             run_queue' = RemoveAt(q, k), current' = q[k]
      PROVE  InOrder
  <2>1. Len(w) >= 1 /\ q[1] = w[1]
    BY <1>1, <1>2, <1>5
  <2>2. status[w[1]] = "RUN"
    <3>1. w[1] \in Threads /\ In(w, w[1])
      BY <1>1, <2>1 DEF In
    <3> QED BY <1>1, <3>1 DEF Inv, Homes
  <2>3. k = 1
    <3>1. k \in 1 .. Len(q) /\ (k > 1 => 1 \in 1 .. (k - 1))
      BY <1>2
    <3>2. 1 \in 1 .. (k - 1) => status[q[1]] # "RUN"
      BY <1>5
    <3> QED BY <2>1, <2>2, <3>1, <3>2
  <2>4. /\ run_queue' \in Seq(Threads) /\ Len(run_queue') = Len(q) - 1
        /\ \A i \in 1 .. (Len(q) - 1) : run_queue'[i] = q[i + 1]
    <3>1. run_queue' = RemoveAt(q, 1) /\ 1 \in DOMAIN q
      BY <1>5, <2>3
    <3>2. /\ run_queue' \in Seq(Threads) /\ Len(run_queue') = Len(q) - 1
          /\ \A i \in 1 .. (Len(q) - 1) :
               run_queue'[i] = IF i < 1 THEN q[i] ELSE q[i + 1]
      BY <1>2, <3>1, RemoveFacts
    <3> QED BY <1>2, <3>2
  <2>5. ASSUME NEW i \in 2 .. Len(w)
        PROVE  i - 1 \in DOMAIN run_queue' /\ run_queue'[i - 1] = w[i]
    <3>1. i \in 1 .. Len(w) /\ i - 1 \in 1 .. (Len(q) - 1) /\ i = (i - 1) + 1
      BY <1>1, <1>2
    <3>2. run_queue'[i - 1] = q[i]
      BY <2>4, <3>1
    <3>3. DOMAIN run_queue' = 1 .. (Len(q) - 1)
      BY <1>2, <2>4
    <3> QED BY <1>2, <3>1, <3>2, <3>3
  <2> QED BY <1>1, <1>5, <2>1, <2>3, <2>5 DEF InOrder
<1>6. CASE w = <<>>
  <2>1. \A k \in DOMAIN run_queue : FALSE
    BY <1>1, <1>6
  <2> QED BY <1>6, <2>1 DEF InOrder
<1> QED BY <1>3, <1>4, <1>5, <1>6 DEF InOrder

(* RoundRobin's safety half, for every number of threads: a thread that    *)
(* schedule puts at the tail of the run queue is passed by nobody, so it   *)
(* gets the CPU after as many calls of schedule as threads wait before it. *)
THEOREM NobodyOvertakes == Spec => [][InOrder]_vars
<1>1. Inv /\ [Next]_vars => [InOrder]_vars
  <2> SUFFICES ASSUME Inv, Next PROVE InOrder \/ UNCHANGED vars
    OBVIOUS
  <2>1. CASE schedule
    BY <2>1, ScheduleInOrder
  <2>2. CASE TimerIrq \/ EnterHandler \/ DieOfSignal \/ IgnoreSignal \/ Resume
    BY <2>2 DEF TimerIrq, EnterHandler, DieOfSignal, IgnoreSignal, Resume, queues, InOrder
  <2>3. CASE Exec \/ Exit \/ IoBegin \/ IoEnd \/ SigReturn
    BY <2>3 DEF Exec, Exit, IoBegin, IoEnd, SigReturn, Calling, queues, InOrder
  <2>4. ASSUME NEW c \in Threads, Fork(c) PROVE InOrder
    <3>1. pc = "run" /\ run_queue' = Append(run_queue, c) /\ run_queue \in Seq(Threads)
      BY <2>4 DEF Fork, Calling, Inv, TypeOK
    <3>2. \A k \in DOMAIN run_queue : k \in DOMAIN run_queue' /\ run_queue'[k] = run_queue[k]
      BY <3>1, AppendFacts
    <3> QED BY <3>1, <3>2 DEF InOrder
  <2>5. ASSUME NEW u \in Threads, LibKill(u) PROVE InOrder
    BY <2>5 DEF LibKill, Calling, queues, InOrder
  <2>6. ASSUME NEW s \in Sigs, Signal(s) \/ \E t \in Threads : Kill(id[t], s) PROVE InOrder
    BY <2>6 DEF Signal, Kill, Calling, queues, InOrder
  <2>7. CASE Lost
    BY <2>7 DEF Lost
  <2> QED BY <2>1, <2>2, <2>3, <2>4, <2>5, <2>6, <2>7 DEF Next, KernelStep, UserStep
<1> QED BY <1>1, InvHolds, PTL DEF Spec

(***************************************************************************)
(* What Inv does not say: which activity a thread resumes.  A thread that  *)
(* handles no signal resumes the program, and from uart_read or uart_write *)
(* returns to it; one that handles a signal finds the program at ksp.  So  *)
(* whoever makes sigreturn in a handler is masked, and gives back the page *)
(* its own handler runs on.                                                *)
(***************************************************************************)
Quiet == cause \subseteq {"last thread gone"}
OfProgram(a) == a.h = 0 /\ ~a.io
PlainAt(s, k) == s[k].h = 0 /\ (s[k].io => OfProgram(s[k - 1]))
Plain(t) ==
    status[t] = "RUN" =>
        /\ masked[t] => PlainAt(kstk[t], ksp[t])
        /\ ~masked[t] /\ Waiting(t) => PlainAt(kstk[t], Len(kstk[t]))
        /\ ~masked[t] /\ t = current /\ pc = "run" =>
             act[t].h = 0 /\ (act[t].io => OfProgram(kstk[t][Len(kstk[t])]))
OnPage(t) ==
    masked[t] =>
        /\ sig_sp[t] \in taken /\ mapped[t] = sig_sp[t] /\ refcnt[sig_sp[t]] >= 1
        /\ \A u \in Threads \ {t} : masked[u] => sig_sp[u] # sig_sp[t]
Counted == \A p \in SigPages : refcnt[p] >= 0

Calm == /\ Quiet => /\ \A t \in Threads : Plain(t) /\ OnPage(t)
                    /\ Counted
        /\ DerailsOnlyIf

LEMMA PageTypes ==
    ASSUME Inv
    PROVE  /\ sig_sp \in [Threads -> SigPages \cup {0}]
           /\ mapped \in [Threads -> SigPages \cup {0}]
           /\ taken \subseteq SigPages /\ refcnt \in [SigPages -> Int] /\ 0 \notin SigPages
BY ThreadAssumption DEF Inv, TypeOK

LEMMA CauseGrows == ASSUME [Next]_vars, Quiet' PROVE Quiet
<1>1. cause \subseteq cause'
  <2>1. CASE TimerIrq \/ EnterHandler \/ DieOfSignal \/ IgnoreSignal \/ Resume
    BY <2>1 DEF TimerIrq, EnterHandler, DieOfSignal, IgnoreSignal, Resume, ghost
  <2>2. CASE schedule
    BY <2>2 DEF schedule
  <2>3. CASE Exec \/ Exit \/ IoBegin \/ IoEnd \/ SigReturn
    BY <2>3 DEF Exec, Exit, IoBegin, IoEnd, SigReturn, ghost
  <2>4. ASSUME NEW t \in Threads, Fork(t) \/ LibKill(t) PROVE cause \subseteq cause'
    BY <2>4 DEF Fork, LibKill
  <2>5. ASSUME NEW s \in Sigs, Signal(s) \/ \E t \in Threads : Kill(id[t], s)
        PROVE  cause \subseteq cause'
    BY <2>5 DEF Signal, Kill, ghost
  <2>6. CASE Lost \/ UNCHANGED vars
    BY <2>6 DEF Lost, vars
  <2> QED BY <2>1, <2>2, <2>3, <2>4, <2>5, <2>6 DEF Next, KernelStep, UserStep
<1> QED BY <1>1 DEF Quiet

(* sigreturn in a handler, while nobody has strayed: the thread is masked, *)
(* the page it frees is its own and in use, and the frame at ksp is there. *)
LEMMA HandlerMasked ==
    ASSUME Inv, Calm, Quiet, pc = "run", act[current].h # 0
    PROVE  /\ masked[current] /\ sig_sp[current] \in taken /\ sig_sp[current] \in SigPages
           /\ sig_sp[current] # 0 /\ refcnt[sig_sp[current]] >= 1
           /\ ksp[current] \in DOMAIN kstk[current]
           /\ ~Derails(current)
<1>1. PICK c \in Threads : c = current
  BY Types
<1>2. status[c] = "RUN" /\ Sound(c) /\ Plain(c) /\ OnPage(c)
  BY <1>1 DEF Inv, Homes, Calm
<1>3. masked[c]
  BY <1>1, <1>2, Types DEF Plain
<1>4. sig_sp[c] \in taken /\ sig_sp[c] \in SigPages /\ sig_sp[c] # 0 /\ refcnt[sig_sp[c]] >= 1
  BY <1>2, <1>3, PageTypes DEF OnPage
<1>5. ksp[c] \in DOMAIN kstk[c] /\ FrameAt(c)
  <2>1. ksp[c] \in DOMAIN kstk[c] /\ kstk[c] \in Seq(Activities)
    BY <1>2, <1>3, Types DEF Sound, Kept, KeptIn
  <2>2. DOMAIN kstk[c] = 1 .. Len(kstk[c]) /\ Len(kstk[c]) \in Nat
    BY <2>1
  <2> QED BY <2>1, <2>2 DEF FrameAt
<1>6. ~DoubleFree(sig_sp[c])
  BY <1>4 DEF DoubleFree
<1> QED BY <1>1, <1>3, <1>4, <1>5, <1>6 DEF Derails

LEMMA DerailNext == ASSUME Inv, Calm, [Next]_vars PROVE DerailsOnlyIf'
<1>0. pc = "lost" => cause # {}
  BY DEF Calm, DerailsOnlyIf
<1>1. CASE schedule
  BY <1>1 DEF schedule, DerailsOnlyIf
<1>2. CASE SigReturn
  <2>1. CASE cause = {}
    <3>1. Quiet
      BY <2>1 DEF Quiet
    <3>2. ~Derails(current)
      BY <1>2, <3>1, HandlerMasked DEF SigReturn, Calling
    <3> QED BY <1>2, <3>2 DEF SigReturn, Calling, Returns, DerailsOnlyIf
  <2>2. CASE cause # {}
    BY <1>2, <2>2 DEF SigReturn, DerailsOnlyIf
  <2> QED BY <2>1, <2>2
<1>3. ASSUME NEW t \in Threads, LibKill(t) PROVE DerailsOnlyIf'
  BY <1>3 DEF LibKill, DerailsOnlyIf
<1>4. CASE TimerIrq \/ EnterHandler \/ DieOfSignal \/ IgnoreSignal \/ Resume
  BY <1>4 DEF TimerIrq, EnterHandler, DieOfSignal, IgnoreSignal, Resume, DerailsOnlyIf
<1>5. CASE Exec \/ Exit \/ IoBegin \/ IoEnd
  BY <1>5 DEF Exec, Exit, IoBegin, IoEnd, Calling, DerailsOnlyIf
<1>6. ASSUME NEW t \in Threads, Fork(t) PROVE DerailsOnlyIf'
  BY <1>6 DEF Fork, Calling, DerailsOnlyIf
<1>7. ASSUME NEW s \in Sigs, Signal(s) \/ \E t \in Threads : Kill(id[t], s)
      PROVE  DerailsOnlyIf'
  BY <1>7 DEF Signal, Kill, Calling, DerailsOnlyIf
<1>8. CASE Lost \/ UNCHANGED vars
  BY <1>0, <1>8 DEF Lost, vars, DerailsOnlyIf
<1> QED BY <1>1, <1>2, <1>3, <1>4, <1>5, <1>6, <1>7, <1>8
        DEF Next, KernelStep, UserStep

(***************************************************************************)
(* The pages.                                                              *)
(***************************************************************************)
LEMMA PagesNext ==
    ASSUME Inv, Calm, [Next]_vars, Quiet'
    PROVE  (\A t \in Threads : OnPage(t)') /\ Counted'
<1>0. /\ Quiet /\ Counted /\ \A t \in Threads : OnPage(t)
      /\ current \in Threads /\ masked \in [Threads -> BOOLEAN]
  BY CauseGrows, Types DEF Calm
<1>1. ASSUME UNCHANGED <<masked, sig_sp, mapped, taken, refcnt>>
      PROVE  (\A t \in Threads : OnPage(t)') /\ Counted'
  BY <1>0, <1>1 DEF OnPage, Counted
<1>2. CASE TimerIrq \/ schedule \/ DieOfSignal \/ IgnoreSignal \/ Resume
  BY <1>1, <1>2 DEF TimerIrq, schedule, DieOfSignal, IgnoreSignal, Resume, posix, pages
<1>3. CASE Exec \/ Exit \/ IoBegin \/ IoEnd
  BY <1>1, <1>3 DEF Exec, Exit, IoBegin, IoEnd, posix, pages
<1>4. ASSUME NEW s \in Sigs, Signal(s) \/ \E t \in Threads : Kill(id[t], s)
      PROVE  (\A t \in Threads : OnPage(t)') /\ Counted'
  BY <1>1, <1>4 DEF Signal, Kill, pages
<1>5. CASE Lost \/ UNCHANGED vars
  BY <1>1, <1>5 DEF Lost, vars
<1>6. CASE EnterHandler
  <2>1. PICK c \in Threads : c = current
    BY <1>0
  <2>2. PICK p \in FreePages : /\ sig_sp' = [sig_sp EXCEPT ![c] = p]
                              /\ mapped' = [mapped EXCEPT ![c] = p]
                              /\ taken' = taken \cup {p}
                              /\ refcnt' = [refcnt EXCEPT ![p] = @ + 1]
    BY <1>6, <2>1 DEF EnterHandler
  <2>3. p \in SigPages /\ p \notin taken /\ refcnt[p] >= 0
    BY <1>0 DEF FreePages, Counted
  <2>4. /\ sig_sp'[c] = p /\ mapped'[c] = p /\ refcnt'[p] = refcnt[p] + 1
        /\ \A q \in SigPages : q # p => refcnt'[q] = refcnt[q]
        /\ \A t \in Threads : t # c => sig_sp'[t] = sig_sp[t] /\ mapped'[t] = mapped[t]
    BY <2>2, <2>3, PageTypes
  <2>5. masked' = [masked EXCEPT ![c] = TRUE]
    BY <1>6, <2>1 DEF EnterHandler
  <2>6. \A t \in Threads : t # c => masked'[t] = masked[t]
    BY <1>0, <2>5
  <2>7. \A t \in Threads : masked[t] => sig_sp[t] \in taken /\ sig_sp[t] \in SigPages
    BY <1>0, PageTypes DEF OnPage
  <2>8. refcnt[p] \in Int
    BY <2>3, PageTypes
  <2>9. OnPage(c)'
    <3>1. \A u \in Threads \ {c} : masked'[u] => sig_sp'[u] # p
      BY <2>3, <2>4, <2>6, <2>7
    <3>2. refcnt'[p] >= 1
      BY <2>3, <2>4, <2>8
    <3>3. p \in taken'
      BY <2>2
    <3> QED BY <2>4, <3>1, <3>2, <3>3 DEF OnPage
  <2>10. ASSUME NEW t \in Threads, t # c PROVE OnPage(t)'
    <3> SUFFICES ASSUME masked[t]
                 PROVE  /\ sig_sp'[t] \in taken' /\ mapped'[t] = sig_sp'[t]
                        /\ refcnt'[sig_sp'[t]] >= 1
                        /\ \A u \in Threads \ {t} : masked'[u] => sig_sp'[u] # sig_sp'[t]
      BY <2>6, <2>10 DEF OnPage
    <3>1. /\ sig_sp[t] \in taken /\ mapped[t] = sig_sp[t] /\ refcnt[sig_sp[t]] >= 1
          /\ \A u \in Threads \ {t} : masked[u] => sig_sp[u] # sig_sp[t]
      BY <1>0 DEF OnPage
    <3>2. sig_sp[t] # p /\ sig_sp[t] \in SigPages
      BY <2>3, <2>7, <3>1
    <3>3. \A u \in Threads \ {t} : masked'[u] => sig_sp'[u] # sig_sp[t]
      BY <2>4, <2>6, <3>1, <3>2
    <3>4. sig_sp'[t] = sig_sp[t] /\ mapped'[t] = mapped[t] /\ refcnt'[sig_sp[t]] = refcnt[sig_sp[t]]
      BY <2>4, <2>10, <3>2
    <3> QED BY <2>2, <3>1, <3>3, <3>4
  <2>11. Counted'
    <3>1. \A q \in SigPages : refcnt'[q] >= 0
      BY <1>0, <2>3, <2>4, <2>8 DEF Counted
    <3> QED BY <3>1 DEF Counted
  <2> QED BY <2>9, <2>10, <2>11
<1>7. ASSUME NEW c \in Threads, Fork(c)
      PROVE  (\A t \in Threads : OnPage(t)') /\ Counted'
  <2>1. /\ masked' = masked /\ sig_sp' = sig_sp /\ taken' = taken
        /\ mapped' = [mapped EXCEPT ![c] = mapped[current]]
        /\ refcnt' = [p \in SigPages |->
                        IF p = mapped[current] THEN refcnt[p] + 1 ELSE refcnt[p]]
    BY <1>7 DEF Fork
  <2>2. ~masked[c]
    BY <1>7 DEF Fork, Inv, Sound
  <2>3. \A p \in SigPages : refcnt'[p] >= refcnt[p] /\ refcnt[p] \in Int /\ refcnt'[p] \in Int
    BY <2>1, PageTypes
  <2>4. \A t \in Threads : t # c => mapped'[t] = mapped[t]
    BY <2>1, PageTypes
  <2>5. ASSUME NEW t \in Threads PROVE OnPage(t)'
    <3> SUFFICES ASSUME masked[t]
                 PROVE  /\ sig_sp[t] \in taken /\ mapped'[t] = sig_sp[t]
                        /\ refcnt'[sig_sp[t]] >= 1
                        /\ \A u \in Threads \ {t} : masked[u] => sig_sp[u] # sig_sp[t]
      BY <2>1 DEF OnPage
    <3>1. /\ sig_sp[t] \in taken /\ mapped[t] = sig_sp[t] /\ refcnt[sig_sp[t]] >= 1
          /\ \A u \in Threads \ {t} : masked[u] => sig_sp[u] # sig_sp[t]
      BY <1>0 DEF OnPage
    <3>2. sig_sp[t] \in SigPages /\ t # c
      BY <2>2, <3>1, PageTypes
    <3>3. refcnt'[sig_sp[t]] >= 1
      BY <2>3, <3>1, <3>2
    <3> QED BY <2>4, <3>1, <3>2, <3>3
  <2>6. Counted'
    <3>1. \A p \in SigPages : refcnt'[p] >= 0
      BY <1>0, <2>3 DEF Counted
    <3> QED BY <3>1 DEF Counted
  <2> QED BY <2>5, <2>6
<1>8. CASE SigReturn
  <2>1. PICK c \in Threads : c = current
    BY <1>0
  <2> DEFINE p == sig_sp[c]
  <2>2. masked[c] /\ p \in taken /\ p \in SigPages /\ p # 0 /\ refcnt[p] >= 1 /\ ~Derails(c)
    BY <1>0, <1>8, <2>1, HandlerMasked DEF SigReturn, Calling
  <2>3. Returns(c) /\ sig_sp' = sig_sp /\ mapped' = mapped
    BY <1>8, <2>1, <2>2 DEF SigReturn
  <2>4. /\ masked' = [masked EXCEPT ![c] = FALSE]
        /\ refcnt' = [refcnt EXCEPT ![p] = @ - 1]
        /\ taken' = IF refcnt[p] > 1 THEN taken ELSE taken \ {p}
    BY <2>2, <2>3 DEF Returns, MaskAfter
  <2>5. /\ ~masked'[c] /\ \A t \in Threads : t # c => masked'[t] = masked[t]
        /\ refcnt'[p] = refcnt[p] - 1 /\ \A q \in SigPages : q # p => refcnt'[q] = refcnt[q]
        /\ refcnt[p] \in Int
    BY <1>0, <2>2, <2>4, PageTypes
  <2>6. ASSUME NEW t \in Threads PROVE OnPage(t)'
    <3> SUFFICES ASSUME masked'[t]
                 PROVE  /\ sig_sp[t] \in taken' /\ mapped[t] = sig_sp[t]
                        /\ refcnt'[sig_sp[t]] >= 1
                        /\ \A u \in Threads \ {t} : masked'[u] => sig_sp[u] # sig_sp[t]
      BY <2>3 DEF OnPage
    <3>1. t # c /\ masked[t]
      BY <2>5
    <3>2. /\ sig_sp[t] \in taken /\ mapped[t] = sig_sp[t] /\ refcnt[sig_sp[t]] >= 1
          /\ \A u \in Threads \ {t} : masked[u] => sig_sp[u] # sig_sp[t]
      BY <1>0, <3>1 DEF OnPage
    <3>3. sig_sp[t] # p /\ sig_sp[t] \in SigPages
      BY <2>2, <3>1, <3>2, PageTypes
    <3>4. sig_sp[t] \in taken' /\ refcnt'[sig_sp[t]] = refcnt[sig_sp[t]]
      BY <2>4, <2>5, <3>2, <3>3
    <3>5. \A u \in Threads \ {t} : masked'[u] => sig_sp[u] # sig_sp[t]
      BY <2>5, <3>2
    <3> QED BY <3>2, <3>4, <3>5
  <2>7. Counted'
    <3>1. \A q \in SigPages : refcnt'[q] >= 0
      BY <1>0, <2>2, <2>5 DEF Counted
    <3> QED BY <3>1 DEF Counted
  <2> QED BY <2>6, <2>7
<1>9. ASSUME NEW u \in Threads, LibKill(u)
      PROVE  (\A t \in Threads : OnPage(t)') /\ Counted'
  BY <1>9 DEF LibKill, Quiet
<1> QED BY <1>2, <1>3, <1>4, <1>5, <1>6, <1>7, <1>8, <1>9 DEF Next, KernelStep, UserStep

(***************************************************************************)
(* What a thread resumes.                                                  *)
(***************************************************************************)

(* A step that leaves a thread's frames and mask alone, and does not       *)
(* change what it executes.                                                *)
LEMMA PlainSame ==
    ASSUME NEW t \in Threads, Plain(t), status'[t] = "RUN" => status[t] = "RUN",
           kstk'[t] = kstk[t], ksp'[t] = ksp[t], masked'[t] = masked[t],
           Waiting(t)' => Waiting(t),
           t = current' /\ pc' = "run" => t = current /\ pc = "run" /\ act'[t] = act[t]
    PROVE  Plain(t)'
BY DEF Plain

LEMMA FrameFacts ==
    ASSUME Inv, NEW t \in Threads, status[t] = "RUN"
    PROVE  /\ kstk[t] \in Seq(Activities) /\ Len(kstk[t]) \in Nat
           /\ DOMAIN kstk[t] = 1 .. Len(kstk[t])
           /\ \A k \in DOMAIN kstk[t] : kstk[t][k].io => k >= 2
           /\ Waiting(t) \/ InIo(t) => Len(kstk[t]) >= 1
           /\ masked[t] => ksp[t] \in DOMAIN kstk[t]
           /\ masked[t] /\ (Waiting(t) \/ InIo(t)) => ksp[t] < Len(kstk[t])
           /\ Waiting(t) /\ ~fresh[t] /\ ~masked[t] => ksp[t] = Len(kstk[t])
<1>1. Framed(t) /\ Kept(t) /\ kstk[t] \in Seq(Activities)
  BY Types DEF Inv, Sound
<1>2. /\ Len(kstk[t]) \in Nat /\ DOMAIN kstk[t] = 1 .. Len(kstk[t])
      /\ kstk[t] # <<>> => Len(kstk[t]) >= 1
  BY <1>1
<1> QED BY <1>1, <1>2 DEF Framed, Kept, KeptIn, IoHigh

(* The timer, the call of uart_read or uart_write, exec.                   *)
LEMMA PlainPush ==
    ASSUME Inv, NEW c \in Threads, c = current, pc = "run", Plain(c),
           kstk' = [kstk EXCEPT ![c] = Append(@, act[c])],
           masked' = masked, masked[c] => ksp'[c] = ksp[c],
           act'[c].h \in {0, act[c].h},
           pc' = "run" => ~act'[c].io \/ ~act[c].io
    PROVE  Plain(c)'
<1>1. status[c] = "RUN" /\ act[c] \in Activities
  BY Types DEF Inv, Homes
<1> DEFINE s == kstk[c]
           r == Append(s, act[c])
<1>2. /\ s \in Seq(Activities) /\ Len(s) \in Nat /\ DOMAIN s = 1 .. Len(s)
      /\ \A k \in DOMAIN s : s[k].io => k >= 2
      /\ act[c].io => Len(s) >= 1
      /\ masked[c] => ksp[c] \in DOMAIN s
  BY <1>1, FrameFacts DEF InIo
<1>3. /\ kstk'[c] = r /\ Len(r) = Len(s) + 1 /\ r[Len(s) + 1] = act[c]
      /\ \A k \in 1 .. Len(s) : r[k] = s[k]
  BY <1>1, <1>2, AppendFacts, Types
<1> HIDE DEF r
<1>4. masked'[c] => PlainAt(kstk'[c], ksp'[c])
  <2> SUFFICES ASSUME masked[c] PROVE PlainAt(r, ksp[c])
    BY <1>3
  <2>1. PlainAt(s, ksp[c])
    BY <1>1 DEF Plain
  <2>2. ksp[c] \in 1 .. Len(s) /\ (s[ksp[c]].io => ksp[c] - 1 \in 1 .. Len(s))
    BY <1>2
  <2> QED BY <1>3, <2>1, <2>2 DEF PlainAt
<1>5. CASE masked[c]
  BY <1>4, <1>5 DEF Plain
<1>6. CASE ~masked[c]
  <2>1. act[c].h = 0 /\ (act[c].io => OfProgram(s[Len(s)]))
    BY <1>1, <1>6 DEF Plain
  <2>2. PlainAt(r, Len(r))
    <3>1. Len(r) - 1 = Len(s) /\ (act[c].io => r[Len(r) - 1] = s[Len(s)])
      BY <1>2, <1>3
    <3> QED BY <1>3, <2>1, <3>1 DEF PlainAt
  <2>3. r[Len(r)] = act[c]
    BY <1>3
  <2>4. pc' = "run" => act'[c].h = 0 /\ (act'[c].io => OfProgram(r[Len(r)]))
    BY <2>1, <2>3 DEF OfProgram
  <2> QED BY <1>3, <1>6, <2>2, <2>4 DEF Plain
<1> QED BY <1>5, <1>6

(* A return to what the top frame holds.                                   *)
LEMMA PlainPop ==
    ASSUME Inv, NEW c \in Threads, status[c] = "RUN", Plain(c),
           Waiting(c) \/ (InIo(c) /\ ~Waiting(c)), current' = c, pc' = "run",
           kstk' = [kstk EXCEPT ![c] = Front(@)], act' = [act EXCEPT ![c] = Last(kstk[c])],
           masked' = masked, ksp' = ksp
    PROVE  Plain(c)'
<1> DEFINE s == kstk[c]
           r == Front(s)
<1>1. /\ s \in Seq(Activities) /\ Len(s) \in Nat /\ Len(s) >= 1 /\ DOMAIN s = 1 .. Len(s)
      /\ \A k \in DOMAIN s : s[k].io => k >= 2
      /\ masked[c] => ksp[c] \in DOMAIN s /\ ksp[c] < Len(s)
  BY FrameFacts
<1>2. /\ Len(r) = Len(s) - 1 /\ \A k \in 1 .. (Len(s) - 1) : r[k] = s[k]
      /\ Last(s) = s[Len(s)]
  <2>1. s # <<>>
    BY <1>1
  <2> QED BY <1>1, <2>1, FrontFacts
<1>3. kstk'[c] = r /\ act'[c] = s[Len(s)]
  BY <1>2, Types
<1> HIDE DEF r
<1>4. ~Waiting(c)'
  BY DEF Waiting
<1>5. CASE masked[c]
  <2>1. PlainAt(s, ksp[c])
    BY <1>5 DEF Plain
  <2>2. ksp[c] \in 1 .. (Len(s) - 1) /\ (s[ksp[c]].io => ksp[c] - 1 \in 1 .. (Len(s) - 1))
    BY <1>1, <1>5
  <2>3. PlainAt(r, ksp[c])
    BY <1>2, <2>1, <2>2 DEF PlainAt
  <2> QED BY <1>3, <1>5, <2>3 DEF Plain
<1>6. CASE ~masked[c]
  <2>1. act'[c].h = 0 /\ (act'[c].io => OfProgram(r[Len(r)]))
    <3>1. CASE Waiting(c)
      <4>1. PlainAt(s, Len(s))
        BY <1>6, <3>1 DEF Plain
      <4>2. s[Len(s)].io => r[Len(r)] = s[Len(s) - 1]
        BY <1>1, <1>2
      <4> QED BY <1>3, <4>1, <4>2 DEF PlainAt
    <3>2. CASE InIo(c) /\ ~Waiting(c)
      BY <1>3, <1>6, <3>2 DEF Plain, InIo, OfProgram
    <3> QED BY <3>1, <3>2
  <2> QED BY <1>3, <1>4, <1>6, <2>1 DEF Plain
<1> QED BY <1>5, <1>6

LEMMA PlainSchedule ==
    ASSUME Inv, \A t \in Threads : Plain(t), schedule, pc' # "lost"
    PROVE  \A t \in Threads : Plain(t)'
<1> DEFINE q == IF status[current] = "RUN" THEN Enqueued(run_queue, current) ELSE run_queue
<1>1. /\ pc = "schedule" /\ status' = status /\ ksp' = ksp /\ masked' = masked
      /\ \E k \in DOMAIN q :
           /\ status[q[k]] = "RUN" /\ current' = q[k]
           /\ IF fresh[q[k]]
                THEN /\ pc' = "run"
                     /\ act' = [act EXCEPT ![q[k]] = Last(kstk[q[k]])]
                     /\ kstk' = [kstk EXCEPT ![q[k]] = Front(@)]
                ELSE pc' = "check" /\ UNCHANGED <<act, kstk>>
  BY DEF schedule, posix
<1>2. q \in Seq(Threads)
  BY AppendFacts DEF Enqueued, Inv, TypeOK
<1> HIDE DEF q
<1>3. PICK c \in Threads :
           /\ status[c] = "RUN" /\ current' = c
           /\ IF fresh[c]
                THEN /\ pc' = "run"
                     /\ act' = [act EXCEPT ![c] = Last(kstk[c])]
                     /\ kstk' = [kstk EXCEPT ![c] = Front(@)]
                ELSE pc' = "check" /\ UNCHANGED <<act, kstk>>
  BY <1>1, <1>2
<1>4. \A t \in Threads : Waiting(t)
  BY <1>1 DEF Waiting
<1>5. CASE ~fresh[c]
  BY <1>1, <1>3, <1>4, <1>5, PlainSame
<1>6. CASE fresh[c]
  <2>1. Plain(c)'
    BY <1>1, <1>3, <1>4, <1>6, PlainPop
  <2>2. ASSUME NEW t \in Threads, t # c PROVE Plain(t)'
    <3>1. kstk'[t] = kstk[t]
      BY <1>3, <1>6, <2>2, Types
    <3> QED BY <1>1, <1>3, <1>4, <2>2, <3>1, PlainSame
  <2> QED BY <2>1, <2>2
<1> QED BY <1>5, <1>6

LEMMA PlainEnter ==
    ASSUME Inv, \A t \in Threads : Plain(t), EnterHandler
    PROVE  \A t \in Threads : Plain(t)'
<1>1. PICK c \in Threads : c = current
  BY Types
<1>2. /\ pc = "check" /\ pc' = "run" /\ current' = current /\ status' = status
      /\ kstk' = kstk /\ ksp' = ksp /\ masked' = [masked EXCEPT ![c] = TRUE]
  BY <1>1 DEF EnterHandler, queues
<1>3. /\ masked'[c] /\ \A t \in Threads : t # c => masked'[t] = masked[t]
      /\ status[c] = "RUN" /\ Waiting(c) /\ ~fresh[c]
  BY <1>1, <1>2, Types DEF Waiting, Inv, Homes, Sound
<1>4. PlainAt(kstk[c], ksp[c])
  <2>1. CASE masked[c]
    BY <1>3, <2>1 DEF Plain
  <2>2. CASE ~masked[c]
    <3>1. ksp[c] = Len(kstk[c])
      BY <1>3, <2>2, FrameFacts
    <3> QED BY <1>3, <2>2, <3>1 DEF Plain
  <2> QED BY <2>1, <2>2
<1>5. Plain(c)'
  BY <1>2, <1>3, <1>4 DEF Plain
<1>6. ASSUME NEW t \in Threads, t # c PROVE Plain(t)'
  <2>1. Waiting(t)
    BY <1>1, <1>6 DEF Waiting
  <2> QED BY <1>1, <1>2, <1>3, <1>6, <2>1, PlainSame
<1> QED BY <1>5, <1>6

LEMMA PlainFork ==
    ASSUME Inv, \A t \in Threads : Plain(t), NEW c \in Threads, Fork(c), Quiet'
    PROVE  \A t \in Threads : Plain(t)'
<1>1. /\ pc = "run" /\ pc' = pc /\ current' = current /\ status[c] = "none"
      /\ status' = [status EXCEPT ![c] = "RUN"] /\ ~act[current].io
      /\ act' = act /\ ksp' = ksp /\ masked' = masked
      /\ kstk' = [kstk EXCEPT ![c] = Append(kstk[current], act[current])]
  BY DEF Fork, Calling
<1>2. act[current].h = 0
  BY DEF Fork, Quiet
<1>3. status[current] = "RUN" /\ ~masked[c]
  BY <1>1 DEF Inv, Homes, Sound
<1>4. c # current
  BY <1>1, <1>3
<1>5. PlainAt(kstk'[c], Len(kstk'[c]))
  <2>1. kstk[current] \in Seq(Activities) /\ act[current] \in Activities
    BY Types
  <2>2. kstk'[c] = Append(kstk[current], act[current])
    BY <1>1, Types
  <2>3. kstk'[c][Len(kstk'[c])] = act[current]
    BY <2>1, <2>2, AppendFacts
  <2> QED BY <1>1, <1>2, <2>3 DEF PlainAt
<1>6. Plain(c)'
  BY <1>1, <1>3, <1>4, <1>5 DEF Plain
<1>7. ASSUME NEW t \in Threads, t # c PROVE Plain(t)'
  <2>1. kstk'[t] = kstk[t] /\ status'[t] = status[t] /\ (Waiting(t)' => Waiting(t))
    BY <1>1, <1>7, Types DEF Waiting
  <2> QED BY <1>1, <1>7, <2>1, PlainSame
<1> QED BY <1>6, <1>7

LEMMA PlainReturn ==
    ASSUME Inv, Calm, Quiet, SigReturn
    PROVE  \A t \in Threads : Plain(t)'
<1>0. \A t \in Threads : Plain(t)
  BY DEF Calm
<1>1. PICK c \in Threads : c = current
  BY Types
<1>2. /\ pc = "run" /\ current' = current /\ status' = status /\ ksp' = ksp
      /\ masked[c] /\ ksp[c] \in DOMAIN kstk[c] /\ Returns(c)
  BY <1>1, HandlerMasked DEF SigReturn, Calling, queues
<1>3. status[c] = "RUN"
  BY <1>1, <1>2 DEF Inv, Homes
<1> DEFINE s == kstk[c]
           k == ksp[c]
           r == SubSeq(s, 1, k - 1)
<1>4. /\ s \in Seq(Activities) /\ Len(s) \in Nat /\ k \in 1 .. Len(s)
      /\ s[k].io => k >= 2
  BY <1>2, <1>3, FrameFacts
<1>5. Len(r) = k - 1 /\ \A j \in 1 .. (k - 1) : r[j] = s[j]
  <2>1. k \in 1 .. (Len(s) + 1)
    BY <1>4
  <2> QED BY <1>4, <2>1, PrefixFacts
<1>6. /\ kstk' = [kstk EXCEPT ![c] = r] /\ masked' = [masked EXCEPT ![c] = FALSE]
      /\ act' = [act EXCEPT ![c] = IF k > Len(s) THEN @ ELSE s[k]] /\ pc' = pc
  BY <1>2 DEF Returns, MaskAfter
<1> HIDE DEF r
<1>7. /\ kstk'[c] = r /\ ~masked'[c] /\ act'[c] = s[k]
      /\ \A t \in Threads : t # c => kstk'[t] = kstk[t] /\ masked'[t] = masked[t]
  BY <1>4, <1>6, Types
<1>8. PlainAt(s, k)
  BY <1>0, <1>2, <1>3 DEF Plain
<1>9. act'[c].h = 0 /\ (act'[c].io => OfProgram(r[Len(r)]))
  <2>1. s[k].io => r[Len(r)] = s[k - 1]
    BY <1>4, <1>5
  <2> QED BY <1>7, <1>8, <2>1 DEF PlainAt
<1>10. Plain(c)'
  <2>1. ~Waiting(c)'
    BY <1>1, <1>2, <1>6 DEF Waiting
  <2> QED BY <1>7, <1>9, <2>1 DEF Plain
<1>11. ASSUME NEW t \in Threads, t # c PROVE Plain(t)'
  <2>1. Waiting(t)
    BY <1>1, <1>11 DEF Waiting
  <2> QED BY <1>0, <1>1, <1>2, <1>7, <1>11, <2>1, PlainSame
<1> QED BY <1>10, <1>11

LEMMA PlainNext ==
    ASSUME Inv, Calm, [Next]_vars, Quiet'
    PROVE  \A t \in Threads : Plain(t)'
<1>0. Quiet /\ current \in Threads /\ \A t \in Threads : Plain(t)
  BY CauseGrows, Types DEF Calm
<1>1. ASSUME pc = "run", current' = current, status' = status, masked' = masked,
             kstk' = [kstk EXCEPT ![current] = Append(@, act[current])],
             act' \in [Threads -> Activities], act'[current].h \in {0, act[current].h},
             \A t \in Threads : t # current \/ masked[t] => ksp'[t] = ksp[t],
             pc' = "run" => ~act'[current].io \/ ~act[current].io
      PROVE  \A t \in Threads : Plain(t)'
  <2>1. PICK c \in Threads : c = current
    BY <1>0
  <2>2. Plain(c)'
    BY <1>0, <1>1, <2>1, PlainPush
  <2>3. ASSUME NEW t \in Threads, t # c PROVE Plain(t)'
    <3>1. kstk'[t] = kstk[t] /\ Waiting(t)
      BY <1>1, <2>1, <2>3, Types DEF Waiting
    <3> QED BY <1>0, <1>1, <2>1, <2>3, <3>1, PlainSame
  <2> QED BY <2>2, <2>3
<1>2. ASSUME status[current] = "RUN", Waiting(current) \/ InIo(current), current' = current,
             status' = status, pc' = "run", masked' = masked, ksp' = ksp,
             kstk' = [kstk EXCEPT ![current] = Front(@)],
             act' = [act EXCEPT ![current] = Last(kstk[current])]
      PROVE  \A t \in Threads : Plain(t)'
  <2>1. PICK c \in Threads : c = current
    BY <1>0
  <2>2. Plain(c)'
    BY <1>0, <1>2, <2>1, PlainPop
  <2>3. ASSUME NEW t \in Threads, t # c PROVE Plain(t)'
    <3>1. kstk'[t] = kstk[t] /\ Waiting(t)
      BY <1>2, <2>1, <2>3, Types DEF Waiting
    <3> QED BY <1>0, <1>2, <2>1, <2>3, <3>1, PlainSame
  <2> QED BY <2>2, <2>3
<1>3. ASSUME current' = current, kstk' = kstk, ksp' = ksp, masked' = masked, act' = act,
             pc' \in {pc, "schedule", "lost"}, pc' = "schedule" => status'[current] # "RUN",
             \A t \in Threads : status'[t] = "RUN" => status[t] = "RUN"
      PROVE  \A t \in Threads : Plain(t)'
  <2> SUFFICES ASSUME NEW t \in Threads, status'[t] = "RUN" PROVE Plain(t)'
    BY DEF Plain
  <2>1. Waiting(t)' => Waiting(t)
    BY <1>3 DEF Waiting
  <2> QED BY <1>0, <1>3, <2>1, PlainSame
<1>4. CASE TimerIrq
  <2>1. \A t \in Threads : t # current \/ masked[t] => ksp'[t] = ksp[t]
    BY <1>0, <1>4, Types DEF TimerIrq, SavesKsp
  <2> QED BY <1>1, <1>4, <2>1, Types DEF TimerIrq, queues, posix
<1>5. CASE Exec
  <2>1. Main \in Activities /\ Main.h = 0 /\ ~Main.io
    BY DEF Main, Activities
  <2>2. act' \in [Threads -> Activities] /\ act'[current] = Main
    BY <1>5, <2>1, Types DEF Exec
  <2> QED BY <1>1, <1>5, <2>1, <2>2 DEF Exec, Calling, queues, posix
<1>6. CASE IoBegin
  <2>1. act[current] \in Activities
    BY <1>0, Types
  <2>2. [act[current] EXCEPT !.io = TRUE] \in Activities
        /\ [act[current] EXCEPT !.io = TRUE].h = act[current].h
    BY <2>1 DEF Activities
  <2>3. act' = [act EXCEPT ![current] = [act[current] EXCEPT !.io = TRUE]]
    BY <1>0, <1>6, Types DEF IoBegin
  <2>4. act' \in [Threads -> Activities] /\ act'[current].h = act[current].h
    BY <1>0, <2>2, <2>3, Types
  <2> QED BY <1>1, <1>6, <2>4 DEF IoBegin, Calling, queues, posix
<1>7. CASE schedule
  <2>1. CASE pc' = "lost"
    BY <1>3, <1>7, <2>1 DEF schedule, posix
  <2>2. CASE pc' # "lost"
    BY <1>0, <1>7, <2>2, PlainSchedule
  <2> QED BY <2>1, <2>2
<1>8. CASE EnterHandler
  BY <1>0, <1>8, PlainEnter
<1>9. CASE DieOfSignal \/ Exit
  <2>1. status' = [status EXCEPT ![current] = "ZONBIE"]
    BY <1>9 DEF DieOfSignal, Exit
  <2>2. status'[current] = "ZONBIE" /\ \A t \in Threads : status'[t] = "RUN" => status[t] = "RUN"
    BY <1>0, <2>1, Types
  <2> QED BY <1>3, <1>9, <2>2 DEF DieOfSignal, Exit, stack, posix
<1>10. CASE Resume \/ IoEnd
  <2>1. status[current] = "RUN" /\ (Waiting(current) \/ InIo(current))
    BY <1>10 DEF Resume, IoEnd, Waiting, InIo, Inv, Homes
  <2> QED BY <1>2, <1>10, <2>1 DEF Resume, IoEnd, queues, posix
<1>11. CASE SigReturn
  BY <1>0, <1>11, PlainReturn
<1>12. ASSUME NEW u \in Threads, LibKill(u) PROVE \A t \in Threads : Plain(t)'
  BY <1>12 DEF LibKill, Quiet
<1>13. ASSUME NEW c \in Threads, Fork(c) PROVE \A t \in Threads : Plain(t)'
  BY <1>0, <1>13, PlainFork
<1>14. CASE IgnoreSignal
  BY <1>3, <1>14 DEF IgnoreSignal, stack, queues
<1>15. ASSUME NEW s \in Sigs, Signal(s) \/ \E t \in Threads : Kill(id[t], s)
       PROVE  \A t \in Threads : Plain(t)'
  BY <1>3, <1>15 DEF Signal, Kill, Calling, stack, queues
<1>16. CASE Lost \/ UNCHANGED vars
  <2>1. UNCHANGED vars
    BY <1>16 DEF Lost
  <2> QED BY <1>0, <2>1, PlainSame DEF vars, Waiting
<1> QED BY <1>4, <1>5, <1>6, <1>7, <1>8, <1>9, <1>10, <1>11, <1>12, <1>13, <1>14, <1>15,
           <1>16 DEF Next, KernelStep, UserStep

(***************************************************************************)
(* The theorems.                                                           *)
(***************************************************************************)
LEMMA InitCalm == ASSUME Init PROVE Calm
<1>1. (\A t \in Threads : OnPage(t)) /\ Counted
  BY DEF Init, Each, OnPage, Counted
<1>2. ASSUME NEW t \in Threads PROVE Plain(t)
  <2>1. ~masked[t] /\ act[t] = Main /\ pc = "run"
    BY <1>2 DEF Init, Each
  <2>2. status[t] = "RUN" => t = current
    BY DEF Init
  <2>3. Main.h = 0 /\ ~Main.io
    BY DEF Main
  <2> QED BY <2>1, <2>2, <2>3 DEF Plain, Waiting
<1>3. DerailsOnlyIf
  BY DEF Init, DerailsOnlyIf
<1> QED BY <1>1, <1>2, <1>3 DEF Calm

(* The strengthened invariant holds in every state.                        *)
THEOREM CalmHolds == Spec => []Calm
<1>1. Init => Calm
  BY InitCalm
<1>2. Inv /\ Calm /\ [Next]_vars => Calm'
  <2> SUFFICES ASSUME Inv, Calm, [Next]_vars PROVE Calm'
    OBVIOUS
  <2>1. DerailsOnlyIf'
    BY DerailNext
  <2>2. Quiet' => /\ \A t \in Threads : Plain(t)' /\ OnPage(t)'
                  /\ Counted'
    BY PlainNext, PagesNext
  <2> QED BY <2>1, <2>2 DEF Calm
<1> QED BY <1>1, <1>2, InvHolds, PTL DEF Spec

(* Every handler runs on a page of its own: kmalloc gives run_posix a page *)
(* no other handler runs on, and sigreturn frees it once, unless somebody  *)
(* made a stray sigreturn or forked inside a handler.                      *)
THEOREM StackPagesHolds == Spec => []StackPages
<1>1. Calm => StackPages
  BY DEF Calm, Quiet, OnPage, StackPages
<1> QED BY <1>1, CalmHolds, PTL

(* The kernel loads a frame that is not there, or frees a page twice, only *)
(* after a fork inside a handler, a sigreturn without a signal or the      *)
(* death of the last thread: however handlers nest, and whatever they      *)
(* interrupt, uart_read, uart_write, exec and ticks included.              *)
THEOREM DerailsOnlyIfHolds == Spec => []DerailsOnlyIf
<1>1. Calm => DerailsOnlyIf
  BY DEF Calm
<1> QED BY <1>1, CalmHolds, PTL
==============================================================================
