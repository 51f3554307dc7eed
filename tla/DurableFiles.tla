---------------------------- MODULE DurableFiles ----------------------------
(***************************************************************************)
(* What src/fat32.c promises of files of at most one block while programs  *)
(* append to them and read within them: reads give what was written, and a *)
(* file that has not changed since a sync that completed survives a loss   *)
(* of power.  What other files hold after it is not specified.  Excuse is  *)
(* all that ends the promise.                                              *)
(***************************************************************************)
EXTENDS Integers, Sequences

CONSTANTS Names, Handles,
          Bufs, Lens, Offsets,
          Limit     \* what a file holds
NoFile == [exists |-> FALSE, text |-> <<>>]
Closed == [name |-> "", pos |-> 0]

VARIABLES now,      \* now[n]: the file n, [exists, text]
          safe,     \* safe[n]: the same after the last sync or boot
          at,       \* at[h]: [name, pos]
          got,      \* what the last call read
          sound,    \* FALSE once the promise is void
          owned,    \* the files whose blocks on the card are found and are theirs
          room      \* so would be those of the next file

vars == <<now, safe, at, got, sound>>

Init == safe = now /\ at = [h \in Handles |-> Closed] /\ got = <<>> /\ sound = TRUE

Open(h, n) ==
    /\ \/ now[n].exists /\ UNCHANGED now
       \/ ~now[n].exists /\ now' = [now EXCEPT ![n] = [exists |-> TRUE, text |-> <<>>]]
    /\ at' = [at EXCEPT ![h] = [name |-> n, pos |-> 0]]
    /\ got' = <<>> /\ UNCHANGED safe

Close(h) == /\ at' = [at EXCEPT ![h] = Closed]
            /\ got' = <<>> /\ UNCHANGED <<now, safe>>

Seek(h, q) == /\ at[h] # Closed /\ at' = [at EXCEPT ![h].pos = q]
              /\ got' = <<>> /\ UNCHANGED <<now, safe>>

Write(h, s) ==
    LET n == at[h].name
    IN /\ at[h] # Closed /\ at[h].pos = Len(now[n].text)
       /\ now' = [now EXCEPT ![n].text = @ \o s]
       /\ at' = [at EXCEPT ![h].pos = @ + Len(s)]
       /\ got' = <<>> /\ UNCHANGED safe

Read(h, k) ==
    LET text == now[at[h].name].text
        end == IF at[h].pos + k < Len(text) THEN at[h].pos + k ELSE Len(text)
    IN /\ at[h] # Closed /\ at[h].pos <= Len(text)
       /\ got' = SubSeq(text, at[h].pos + 1, end)
       /\ at' = [at EXCEPT ![h].pos = end]
       /\ UNCHANGED <<now, safe>>

Sync == safe' = now /\ got' = <<>> /\ UNCHANGED <<now, at>>

(* a call that fails, or a sync that only begins *)
Other == got' = <<>> /\ UNCHANGED <<now, safe, at>>

PowerCut == /\ \A n \in Names : now[n] = safe[n] => now'[n] = safe[n]
            /\ safe' = now'
            /\ at' = [h \in Handles |-> Closed] /\ got' = <<>>

(* The calls that end the promise: a write elsewhere than at the end or to *)
(* a file that is not owned, a read from beyond the end, a new file when   *)
(* there is no room for it,                                                *)
Elsewhere(h, s) ==
    /\ at[h] # Closed
    /\ at[h].pos # Len(now[at[h].name].text) \/ at[h].name \notin owned
    /\ at' = [at EXCEPT ![h].pos = @ + Len(s)] /\ got' = <<>>

Beyond(h, k) ==
    /\ at[h] # Closed /\ at[h].pos > Len(now[at[h].name].text)
    /\ at' = [at EXCEPT ![h].pos = @ + k]

Shared(h, n) ==
    /\ ~now[n].exists /\ ~room
    /\ at' = [at EXCEPT ![h] = [name |-> n, pos |-> 0]] /\ got' = <<>>

(* and a call from which the kernel does not come back: it takes a file    *)
(* that is not owned, or a position beyond the end, or the limit, or the   *)
(* lack of room                                                            *)
Derailed ==
    /\ UNCHANGED <<now, safe, at, got>>
    /\ \/ ~room
       \/ \E h \in Handles : at[h] # Closed /\
            \/ at[h].name \notin owned
            \/ at[h].pos > Len(now[at[h].name].text)
            \/ at[h].pos >= Limit
            \/ \E s \in Bufs : at[h].pos + Len(s) > Limit

Excuse ==
    \/ Derailed
    \/ \E h \in Handles :
         \/ \E s \in Bufs : Elsewhere(h, s)
         \/ \E k \in Lens : Beyond(h, k)
         \/ \E n \in Names : Shared(h, n)

Next == \/ sound /\ sound' /\
             \/ \E h \in Handles :
                  \/ \E n \in Names : Open(h, n)
                  \/ Close(h)
                  \/ \E q \in Offsets : Seek(h, q)
                  \/ \E s \in Bufs : Write(h, s)
                  \/ \E k \in Lens : Read(h, k)
             \/ Sync
             \/ Other
             \/ PowerCut
        \/ sound /\ ~sound' /\ Excuse
        \/ ~sound /\ ~sound'

Spec == Init /\ [][Next]_vars
=============================================================================
