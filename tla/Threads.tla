------------------------------- MODULE Threads -------------------------------
(***************************************************************************)
(* Threads and signals: src/thread.c, src/posix.c, the exception entries   *)
(* of exception.S and the context switch of sched.S.  One CPU; the timer   *)
(* interrupts user code, and the kernel inside uart_read and uart_write,   *)
(* which run with interrupts on; everything else in the kernel is atomic.  *)
(*                                                                         *)
(* What a thread executes is an activity [h, io]: h is 0 in the program    *)
(* and s in the handler of signal s, io says it is inside uart_read or     *)
(* uart_write.  kstk[t] holds the trap frames on its kernel stack.         *)
(* A thread leaves by exit, by a default SIGKILL or by a segmentation      *)
(* fault, all of them __exit; idle and kill_zombies are called by nobody.  *)
(***************************************************************************)
EXTENDS Integers, Sequences, FiniteSets, SequencesExt

CONSTANTS Threads,    \* room for this many struct thread_t
          InitThread, \* the one init_thread makes
          InitId,     \* its id, 100
          Sigs,       \* signal numbers
          SIGKILL,
          SigPages,   \* pages kmalloc(4096) may return for handler stacks
          MaxCalls,   \* bound: kill, exec and library kill, together
          MaxStack    \* bound: trap frames on a stack that execs or forks

ASSUME ThreadAssumption ==
    /\ InitThread \in Threads /\ InitId \in Nat
    /\ Sigs \subseteq 1 .. 15 /\ SIGKILL \in Sigs
    /\ MaxCalls \in Nat /\ MaxStack \in Nat
    /\ 0 \notin SigPages /\ IsFiniteSet(SigPages) /\ Cardinality(SigPages) >= MaxCalls

VARIABLES status,     \* RUN, ZONBIE, or none when the slot is unused
          id, thread_cnt,
          run_queue, kill_queue,
          current,    \* tpidr_el1
          pc,         \* where the CPU is: in the activity of current (run), in
                      \* schedule, in check_posix (check), or lost
          act, kstk, ksp,
          fresh,      \* context.lr is return_to_user: never dispatched yet
          signal, signal_handler, masked, sig_sp,
          mapped,     \* the page the thread's POSIX_SP maps to, 0: none
          taken, refcnt,  \* SigPages in use, and their reference_cnt
          calls, interrupted, cause, asked   \* recorded, not in the code

posix == <<signal, signal_handler, masked, sig_sp>>
stack == <<act, kstk, ksp, fresh>>
queues == <<status, run_queue, kill_queue>>
pages == <<mapped, taken, refcnt>>
ghost == <<calls, interrupted, cause, asked>>
vars == <<status, id, thread_cnt, run_queue, kill_queue, current, pc, act, kstk,
          ksp, fresh, signal, signal_handler, masked, sig_sp, mapped, taken,
          refcnt, calls, interrupted, cause, asked>>

Main == [h |-> 0, io |-> FALSE]
Activities == [h : Sigs \cup {0}, io : BOOLEAN]
Each(v) == [t \in Threads |-> v]
Default == [s \in Sigs |-> IF s = SIGKILL THEN "exit" ELSE "none"]   \* init_posix

Init == /\ status = [t \in Threads |-> IF t = InitThread THEN "RUN" ELSE "none"]
        /\ id = [t \in Threads |-> IF t = InitThread THEN InitId ELSE 0]
        /\ thread_cnt = 1
        /\ run_queue = <<>> /\ kill_queue = <<>>
        /\ current = InitThread /\ pc = "run"
        /\ act = Each(Main) /\ kstk = Each(<<>>) /\ ksp = Each(0) /\ fresh = Each(FALSE)
        /\ signal = Each({}) /\ signal_handler = Each(Default)
        /\ masked = Each(FALSE) /\ sig_sp = Each(0)
        /\ mapped = Each(0) /\ taken = {} /\ refcnt = [p \in SigPages |-> 0]
        /\ calls = 0 /\ interrupted = Each(Main) /\ cause = {} /\ asked = {}

(***************************************************************************)
(* The timer interrupt, schedule and check_posix.                          *)
(***************************************************************************)
SavesKspAlways(t) == TRUE   \* mutant
SavesKsp(t) == ~masked[t]   \* save_sp

(* save_all, save_sp, context_sw_timer *)
TimerIrq ==
    /\ pc = "run"
    /\ kstk' = [kstk EXCEPT ![current] = Append(@, act[current])]
    /\ ksp' = IF SavesKsp(current)
                THEN [ksp EXCEPT ![current] = Len(kstk[current]) + 1] ELSE ksp
    /\ pc' = "schedule"
    /\ UNCHANGED <<queues, id, thread_cnt, current, act, fresh, posix, pages, ghost>>

EnqueuedFirst(q, t) == <<t>> \o q   \* mutant: list_add
Enqueued(q, t) == Append(q, t)      \* list_add_tail

DequeuedNot(q, k) == q              \* mutant: no list_del
Dequeued(q, k) == RemoveAt(q, k)    \* list_del

schedule ==
    /\ pc = "schedule"
    /\ LET q == IF status[current] = "RUN" THEN Enqueued(run_queue, current) ELSE run_queue
       IN \/ \E k \in DOMAIN q :
                /\ status[q[k]] = "RUN"
                /\ \A j \in 1 .. (k - 1) : status[q[j]] # "RUN"
                /\ run_queue' = Dequeued(q, k)
                /\ current' = q[k]
                /\ IF fresh[q[k]]   \* switch_to returns into return_to_user
                     THEN /\ pc' = "run"
                          /\ act' = [act EXCEPT ![q[k]] = Last(kstk[q[k]])]
                          /\ kstk' = [kstk EXCEPT ![q[k]] = Front(@)]
                          /\ fresh' = [fresh EXCEPT ![q[k]] = FALSE]
                     ELSE pc' = "check" /\ UNCHANGED <<act, kstk, fresh>>
                /\ UNCHANGED cause
          \/ /\ \A k \in DOMAIN q : status[q[k]] # "RUN"
             /\ pc' = "lost"   \* the list head is taken for a thread
             /\ cause' = cause \cup {"last thread gone"}
             /\ run_queue' = q
             /\ UNCHANGED <<current, act, kstk, fresh>>
    /\ kill_queue' = IF status[current] = "ZONBIE" THEN Append(kill_queue, current)
                     ELSE kill_queue
    /\ UNCHANGED <<status, id, thread_cnt, ksp, posix, pages, calls, interrupted, asked>>

(* check_posix takes the lowest pending signal ... *)
Next1(t) == CHOOSE s \in signal[t] : \A r \in signal[t] : s <= r
ClearedAll(t) == [signal EXCEPT ![t] = {}]   \* mutant
Cleared(t) == [signal EXCEPT ![t] = @ \ {Next1(t)}]

FreePagesAny == SigPages   \* mutant: a stack in use is handed out
FreePagesOrNull == (SigPages \ taken) \cup {0}   \* mutant: NULL is not told from a page
FreePages == SigPages \ taken

(* ... and enters its handler, on a stack of its own (run_posix), *)
EnterHandler ==
    /\ pc = "check" /\ signal[current] # {}
    /\ LET t == current
           s == Next1(t)
       IN /\ signal_handler[t][s] = "user"
          /\ signal' = Cleared(t)
          /\ masked' = [masked EXCEPT ![t] = TRUE]
          /\ \E p \in FreePages :
               /\ sig_sp' = [sig_sp EXCEPT ![t] = p]
               /\ mapped' = [mapped EXCEPT ![t] = p]
               /\ taken' = taken \cup {p}
               /\ refcnt' = [refcnt EXCEPT ![p] = @ + 1]
          /\ act' = [act EXCEPT ![t] = [h |-> s, io |-> FALSE]]
          /\ interrupted' = IF masked[t] THEN interrupted
                            ELSE [interrupted EXCEPT ![t] = Last(kstk[t])]
    /\ pc' = "run"
    /\ UNCHANGED <<queues, id, thread_cnt, current, kstk, ksp, fresh, signal_handler,
                   calls, cause, asked>>

(* ... or exits, *)
DieOfSignal ==
    /\ pc = "check" /\ signal[current] # {}
    /\ signal_handler[current][Next1(current)] = "exit"
    /\ signal' = Cleared(current)
    /\ status' = [status EXCEPT ![current] = "ZONBIE"]
    /\ pc' = "schedule"
    /\ UNCHANGED <<id, thread_cnt, run_queue, kill_queue, current, stack,
                   signal_handler, masked, sig_sp, pages, ghost>>

(* ... or goes on to the next, *)
IgnoreSignal ==
    /\ pc = "check" /\ signal[current] # {}
    /\ signal_handler[current][Next1(current)] = "none"
    /\ signal' = Cleared(current)
    /\ UNCHANGED <<queues, id, thread_cnt, current, pc, stack, signal_handler,
                   masked, sig_sp, pages, ghost>>

(* and in the end the interrupt returns: load_all, eret. *)
Resume ==
    /\ pc = "check" /\ signal[current] = {}
    /\ act' = [act EXCEPT ![current] = Last(kstk[current])]
    /\ kstk' = [kstk EXCEPT ![current] = Front(@)]
    /\ pc' = "run"
    /\ UNCHANGED <<queues, id, thread_cnt, current, ksp, fresh, posix, pages, ghost>>

(***************************************************************************)
(* System calls of the running thread.                                     *)
(***************************************************************************)
Calling == pc = "run" /\ ~act[current].io

(* __fork: the child returns from the same svc, with the handlers but none *)
(* of the signals, and shares the page mapped at POSIX_SP, used or stale.  *)
Fork(c) ==
    /\ Calling /\ status[c] = "none" /\ Len(kstk[current]) < MaxStack
    /\ status' = [status EXCEPT ![c] = "RUN"]
    /\ id' = [id EXCEPT ![c] = thread_cnt]
    /\ thread_cnt' = thread_cnt + 1
    /\ run_queue' = Append(run_queue, c)
    /\ kstk' = [kstk EXCEPT ![c] = Append(kstk[current], act[current])]
    /\ fresh' = [fresh EXCEPT ![c] = TRUE]
    /\ signal_handler' = [signal_handler EXCEPT ![c] = signal_handler[current]]
    /\ mapped' = [mapped EXCEPT ![c] = mapped[current]]
    /\ refcnt' = [p \in SigPages |-> IF p = mapped[current] THEN refcnt[p] + 1 ELSE refcnt[p]]
    /\ cause' = IF act[current].h # 0 THEN cause \cup {"fork in a handler"} ELSE cause
    /\ UNCHANGED <<kill_queue, current, pc, act, ksp, signal, masked, sig_sp, taken,
                   calls, interrupted, asked>>

(* __exec leaves to_el0 from the bottom of the svc: its frame stays, and   *)
(* so do the handlers, the mask and the pending signals.                   *)
Exec ==
    /\ Calling /\ Len(kstk[current]) < MaxStack /\ calls < MaxCalls
    /\ kstk' = [kstk EXCEPT ![current] = Append(@, act[current])]
    /\ act' = [act EXCEPT ![current] = Main]
    /\ calls' = calls + 1
    /\ UNCHANGED <<queues, id, thread_cnt, current, pc, ksp, fresh, posix, pages,
                   interrupted, cause, asked>>

(* __exit, called by the program or on a segmentation fault *)
Exit ==
    /\ pc = "run"
    /\ status' = [status EXCEPT ![current] = "ZONBIE"]
    /\ pc' = "schedule"
    /\ UNCHANGED <<id, thread_cnt, run_queue, kill_queue, current, stack, posix, pages, ghost>>

(* __kill finds the first queued thread with the id; the caller, and a     *)
(* zombie, are on no queue it searches.                                    *)
Kill(i, s) ==
    /\ Calling /\ calls < MaxCalls
    /\ \E k \in DOMAIN run_queue :
         /\ id[run_queue[k]] = i
         /\ \A j \in 1 .. (k - 1) : id[run_queue[j]] # i
         /\ signal' = [signal EXCEPT ![run_queue[k]] = @ \cup {s}]
    /\ calls' = calls + 1
    /\ UNCHANGED <<queues, id, thread_cnt, current, pc, stack, signal_handler, masked,
                   sig_sp, pages, interrupted, cause, asked>>

(* __signal with a function of the program; no program unregisters one *)
Signal(s) ==
    /\ Calling
    /\ signal_handler' = [signal_handler EXCEPT ![current][s] = "user"]
    /\ UNCHANGED <<queues, id, thread_cnt, current, pc, stack, signal, masked, sig_sp,
                   pages, ghost>>

(* uart_read and uart_write unmask interrupts on the trap frame of the svc *)
IoBegin ==
    /\ Calling
    /\ kstk' = [kstk EXCEPT ![current] = Append(@, act[current])]
    /\ act' = [act EXCEPT ![current].io = TRUE]
    /\ UNCHANGED <<queues, id, thread_cnt, current, pc, ksp, fresh, posix, pages, ghost>>

IoEnd ==
    /\ pc = "run" /\ act[current].io
    /\ act' = [act EXCEPT ![current] = Last(kstk[current])]
    /\ kstk' = [kstk EXCEPT ![current] = Front(@)]
    /\ UNCHANGED <<queues, id, thread_cnt, current, pc, ksp, fresh, posix, pages, ghost>>

(***************************************************************************)
(* __sigreturn: unmask, free the handler's stack, and return_posix(ksp),   *)
(* which loads the frame at ksp, still there or not.  One frame above the  *)
(* top lies the frame of this very svc, so the call then just returns.     *)
(* Freeing a page that is not in use ends in while(1); a null sig_sp makes *)
(* kfree read and write outside the frame table, with or without harm.     *)
(***************************************************************************)
MaskAfter(t) == FALSE

DoubleFree(p) == p \in SigPages \ taken /\ refcnt[p] <= 1
FrameAt(t) == ksp[t] \in 1 .. (Len(kstk[t]) + 1)

Returns(t) ==
    /\ ~DoubleFree(sig_sp[t]) /\ FrameAt(t)
    /\ LET p == sig_sp[t]
       IN /\ refcnt' = IF p = 0 THEN refcnt ELSE [refcnt EXCEPT ![p] = @ - 1]
          /\ taken' = IF p # 0 /\ refcnt[p] > 1 THEN taken ELSE taken \ {p}
    /\ masked' = [masked EXCEPT ![t] = MaskAfter(t)]
    /\ act' = [act EXCEPT ![t] = IF ksp[t] > Len(kstk[t]) THEN @ ELSE kstk[t][ksp[t]]]
    /\ kstk' = [kstk EXCEPT ![t] = SubSeq(@, 1, ksp[t] - 1)]
    /\ interrupted' = [interrupted EXCEPT ![t] = Main]
    /\ UNCHANGED pc

Derails(t) ==
    /\ sig_sp[t] = 0 \/ DoubleFree(sig_sp[t]) \/ ~FrameAt(t)
    /\ pc' = "lost"
    /\ UNCHANGED <<act, kstk, masked, taken, refcnt, interrupted>>

SigReturn ==
    /\ Calling /\ act[current].h # 0
    /\ Returns(current) \/ Derails(current)
    /\ UNCHANGED <<queues, id, thread_cnt, current, ksp, fresh, signal, signal_handler,
                   sig_sp, mapped, calls, cause, asked>>

(* kill(pid) of the user library makes system call 7, which is sigreturn   *)
LibKill(u) ==
    /\ Calling /\ calls < MaxCalls /\ status[u] = "RUN" /\ u # current
    /\ Returns(current) \/ Derails(current)
    /\ cause' = cause \cup {"stray sigreturn"}
    /\ asked' = asked \cup {u}
    /\ calls' = calls + 1
    /\ UNCHANGED <<queues, id, thread_cnt, current, ksp, fresh, signal, signal_handler,
                   sig_sp, mapped>>

Lost == pc = "lost" /\ UNCHANGED vars

KernelStep == schedule \/ EnterHandler \/ DieOfSignal \/ IgnoreSignal \/ Resume
UserStep == \/ Exec \/ Exit \/ IoBegin \/ IoEnd \/ SigReturn
            \/ \E t \in Threads : Fork(t) \/ LibKill(t)
            \/ \E s \in Sigs : Signal(s) \/ \E t \in Threads : Kill(id[t], s)

Next == TimerIrq \/ KernelStep \/ UserStep \/ Lost

(* The kernel runs on once entered, and the timer, re-armed by every tick, *)
(* interrupts whatever runs with interrupts on.  Programs promise nothing. *)
Spec == Init /\ [][Next]_vars /\ WF_vars(KernelStep) /\ WF_vars(TimerIrq)

(***************************************************************************)
(* Properties.                                                             *)
(***************************************************************************)
TypeOK ==
    /\ status \in [Threads -> {"RUN", "ZONBIE", "none"}]
    /\ id \in [Threads -> Nat] /\ thread_cnt \in Nat
    /\ run_queue \in Seq(Threads) /\ kill_queue \in Seq(Threads)
    /\ current \in Threads /\ pc \in {"run", "schedule", "check", "lost"}
    /\ act \in [Threads -> Activities] /\ kstk \in [Threads -> Seq(Activities)]
    /\ ksp \in [Threads -> Nat] /\ fresh \in [Threads -> BOOLEAN]
    /\ signal \in [Threads -> SUBSET Sigs]
    /\ signal_handler \in [Threads -> [Sigs -> {"none", "exit", "user"}]]
    /\ masked \in [Threads -> BOOLEAN]
    /\ sig_sp \in [Threads -> SigPages \cup {0}]
    /\ mapped \in [Threads -> SigPages \cup {0}]
    /\ taken \subseteq SigPages /\ refcnt \in [SigPages -> Int]
    /\ calls \in 0 .. MaxCalls /\ interrupted \in [Threads -> Activities]
    /\ cause \subseteq {"last thread gone", "fork in a handler", "stray sigreturn"}
    /\ asked \subseteq Threads

Places(t) == Cardinality({k \in DOMAIN run_queue : run_queue[k] = t})
             + Cardinality({k \in DOMAIN kill_queue : kill_queue[k] = t})

(* A thread is in one place: it runs, or it waits once in the run queue,   *)
(* or it is a zombie, once in the kill queue and in no other.  One         *)
(* list_head links it into either queue: a second insertion would tie the  *)
(* two queues into a ring.                                                 *)
OneHome ==
    pc \in {"run", "check"} =>
        \A t \in Threads :
            /\ Places(t) = IF t = current \/ status[t] = "none" THEN 0 ELSE 1
            /\ status[t] = "ZONBIE" <=> t \in Range(kill_queue)

(* While a signal is being handled, the frame at ksp is what the signal    *)
(* interrupted, whatever ticks, system calls, forks and further handlers   *)
(* come before sigreturn: the program resumes where it was.                *)
MaskedFrame ==
    \A t \in Threads :
        status[t] = "RUN" /\ masked[t] =>
            /\ ksp[t] \in DOMAIN kstk[t]
            /\ kstk[t][ksp[t]] = interrupted[t]

(* The handler's stack is a page in use, mapped at POSIX_SP, and no other  *)
(* thread's handler runs on it, unless somebody made a stray sigreturn or  *)
(* forked inside a handler: sig_sp is never reset, so a child that returns *)
(* twice frees twice, the second time perhaps another handler's page.      *)
StackPages ==
    cause \subseteq {"last thread gone"} =>
        \A t \in Threads :
            masked[t] =>
                /\ sig_sp[t] \in taken /\ mapped[t] = sig_sp[t] /\ refcnt[sig_sp[t]] >= 1
                /\ \A u \in Threads \ {t} : masked[u] => sig_sp[u] # sig_sp[t]

(* The kernel derails, into a frame that is not there or into the double   *)
(* free, only after a fork inside a handler, a sigreturn without a signal  *)
(* (or the death of the last thread): nested and interrupted handlers and  *)
(* signals during uart_read and uart_write never do it.                    *)
DerailsOnlyIf == pc = "lost" => cause # {}

(* Round robin: a queued thread gets the CPU.                              *)
RoundRobin ==
    \A t \in Threads :
        (status[t] = "RUN" /\ current # t) ~> (current = t \/ pc = "lost")

(* A pending signal with a handler is delivered, one handler per signal,   *)
(* unless the thread dies first: none is dropped by another's delivery.    *)
Delivery ==
    \A t \in Threads, s \in Sigs :
        (s \in signal[t] /\ signal_handler[t][s] = "user")
            ~> (act[t].h = s \/ status[t] = "ZONBIE" \/ pc = "lost")

(* "kill [pid]: Kill process by pid." says the help of the user shell: the *)
(* process it names dies.                                                  *)
LibKillKills ==
    \A t \in Threads : (t \in asked) ~> (status[t] = "ZONBIE" \/ pc = "lost")
==============================================================================
