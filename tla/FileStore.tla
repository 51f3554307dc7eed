----------------------------- MODULE FileStore -----------------------------
(***************************************************************************)
(* What the descriptors of src/vfs.c, src/tmpfs.c promise a program: a     *)
(* descriptor names one file and one position from the open to the close;  *)
(* what is written there stays until it is written over; reading inside    *)
(* the file gives what was written last.  The standard descriptors of a    *)
(* process are opened together and have one position between them; no      *)
(* other descriptor has its position moved by another.  A gap is filled    *)
(* with 0; the bytes read past the end are not specified.  A program that  *)
(* misuses the interface loses the promise for everybody: sound becomes    *)
(* FALSE.                                                                  *)
(***************************************************************************)
EXTENDS Integers, Sequences

CONSTANTS Files, Handles,
          Standard,   \* the sets of handles that are opened together
          Bufs,       \* what is written by one call
          Lens,       \* the lengths that are read
          MaxPos      \* bound on positions
None == [file |-> 0, pos |-> 0, with |-> {}]

VARIABLES content,    \* content[f]: a sequence of bytes
          at,         \* at[h]: the file, the position and the handles that
                      \* share it, or None
          got,        \* what the last call returned to a reader
          up,         \* the boot is over
          sound

vars == <<content, at, got, up, sound>>

Init == /\ content \in [Files -> {<<>>}]
        /\ at = [h \in Handles |-> None]
        /\ got = <<>>
        /\ up = FALSE /\ sound = TRUE

Open(H, f) == /\ \A h \in H : at[h] = None
              /\ at' = [h \in Handles |->
                          IF h \in H THEN [file |-> f, pos |-> 0, with |-> H] ELSE at[h]]
              /\ got' = <<>>
              /\ UNCHANGED content

Close(h) == /\ at[h].with = {h}
            /\ at' = [at EXCEPT ![h] = None]
            /\ got' = <<>>
            /\ UNCHANGED content

(* the position of h becomes q, for those that share it too *)
Moved(h, q) == at' = [g \in Handles |-> IF g \in at[h].with THEN [at[h] EXCEPT !.pos = q]
                                                            ELSE at[g]]

Seek(h, n) == /\ at[h] # None
              /\ Moved(h, n)
              /\ got' = <<>>
              /\ UNCHANGED content

(* The bytes k = 1 .. Len(s) of s go to f at position q *)
Stored(f, q, s, new) ==
    LET old == content[f]
    IN /\ Len(new) = IF Len(old) > q + Len(s) THEN Len(old) ELSE q + Len(s)
       /\ \A k \in 1 .. Len(new) :
            /\ k \in (q + 1) .. (q + Len(s)) => new[k] = s[k - q]
            /\ k <= q => new[k] = IF k <= Len(old) THEN old[k] ELSE 0
            /\ k > q + Len(s) => new[k] = old[k]

Write(h, s) ==
    /\ at[h] # None
    /\ Stored(at[h].file, at[h].pos, s, content'[at[h].file])
    /\ \A f \in Files \ {at[h].file} : content'[f] = content[f]
    /\ Moved(h, at[h].pos + Len(s))
    /\ got' = <<>>

(* No byte that was written is withheld, and none is wrong *)
Read(h, n) ==
    LET a == at[h]
        inside == {k \in 1 .. n : a.pos + k <= Len(content[a.file])}
    IN /\ a # None
       /\ \A k \in inside : k \in 1 .. Len(got') /\ got'[k] = content[a.file][a.pos + k]
       /\ Len(got') <= n
       /\ Moved(h, a.pos + n)
       /\ UNCHANGED content

(* Nothing is open until the boot is over; the boot fills files. *)
Fill(f) == /\ \A e \in Files \ {f} : content'[e] = content[e]
           /\ UNCHANGED at
           /\ got' = <<>>
Boot == \E f \in Files : Fill(f)

(* a call that neither reads nor changes a file *)
Other == got' = <<>> /\ UNCHANGED <<content, at>>

Serve == \/ Other
         \/ \E h \in Handles :
              \/ Close(h)
              \/ \E n \in 0 .. MaxPos : Seek(h, n)
              \/ \E s \in Bufs : Write(h, s)
              \/ \E n \in Lens : Read(h, n)
              \/ \E f \in Files : Open({h}, f)
         \/ \E H \in Standard, f \in Files : Open(H, f)

Next == \/ sound /\ sound' /\ ~up /\ Boot
        \/ sound /\ sound' /\ up' /\ (IF up THEN Serve ELSE UNCHANGED <<content, at, got>>)
        \/ ~sound'     \* misuse: nothing is promised any more

Spec == Init /\ [][Next]_vars
=============================================================================
