---------------------------- MODULE PrivateMemory ----------------------------
(***************************************************************************)
(* What virtual memory promises: every process has a memory of its own.    *)
(* An access a process has started reads or writes that memory, in one     *)
(* step, or the process is killed for a write it may not do.  Fork gives   *)
(* the child a copy; exec replaces the text and leaves the rest.           *)
(***************************************************************************)
CONSTANTS Procs, First, Pages, Text, Data,
          Zero,      \* what an untouched page, and the text's image, hold
          Kinds,     \* the values that are written, and Read
          Read, Nothing

VARIABLES proc,
          mem,
          want,      \* the access a process is about to make, <<page, kind>>
          sound      \* the machine is one the promise is made for

vars == <<proc, mem, want, sound>>

Init == /\ proc = [p \in Procs |-> IF p = First THEN "live" ELSE "none"]
        /\ mem = [p \in Procs |-> [v \in Pages |-> Zero]]
        /\ want = [p \in Procs |-> Nothing]
        /\ sound \in BOOLEAN

Ready(p) == proc[p] = "live" /\ want[p] = Nothing
Wants(p, v, x) == proc[p] = "live" /\ want[p] = <<v, x>>

Start(p, v, x) == /\ Ready(p)
                  /\ want' = [want EXCEPT ![p] = <<v, x>>]
                  /\ UNCHANGED <<proc, mem>>

Done(p, v, x) == /\ Wants(p, v, x)
                 /\ mem' = IF x = Read THEN mem ELSE [mem EXCEPT ![p][v] = x]
                 /\ want' = [want EXCEPT ![p] = Nothing]
                 /\ UNCHANGED proc

Refused(p, v, x) == /\ Wants(p, v, x) /\ x # Read /\ v \notin Data
                    /\ proc' = [proc EXCEPT ![p] = "dead"]
                    /\ want' = [want EXCEPT ![p] = Nothing]
                    /\ UNCHANGED mem

Fork(p, c) == /\ Ready(p) /\ proc[c] = "none"
              /\ proc' = [proc EXCEPT ![c] = "live"]
              /\ mem' = [mem EXCEPT ![c] = mem[p]]
              /\ UNCHANGED want

Exec(p) == /\ Ready(p)
           /\ mem' = [mem EXCEPT ![p] = [v \in Pages |-> IF v \in Text THEN Zero ELSE @[v]]]
           /\ UNCHANGED <<proc, want>>

Exit(p) == /\ Ready(p)
           /\ proc' = [proc EXCEPT ![p] = "dead"]
           /\ UNCHANGED <<mem, want>>

Step(p) == \/ \E v \in Pages, x \in Kinds : Start(p, v, x) \/ Done(p, v, x) \/ Refused(p, v, x)
           \/ \E c \in Procs : Fork(p, c)
           \/ Exec(p) \/ Exit(p)

Next == /\ UNCHANGED sound
        /\ sound => \E p \in Procs : Step(p)

Spec == Init /\ [][Next]_vars
==============================================================================
