------------------------------ MODULE VfsTest ------------------------------
(***************************************************************************)
(* vfs_test of user/programs/vfs2/main.c, the test program of the file     *)
(* system, on the system of module Files: its calls one after the other,   *)
(* with the checks it prints success or failed for.  A string it writes is *)
(* one byte here.  Its reads of the console at the end are left out.       *)
(***************************************************************************)
EXTENDS Files

CONSTANT Prog       \* the process that runs it

VARIABLES at,       \* the next line of the script
          num,      \* fd: what the last open returned
          buf,      \* what the last read left in buf[0 .. len)
          failed    \* the checks that printed failed

prog == <<at, num, buf, failed>>

Call(c, path, t) == [call |-> c, path |-> path, t |-> t]
(* write t to a new file and read it back *)
Stores(path, t) == <<Call("open", path, TRUE), Call("write", path, t), Call("close", path, 0)>>
Loads(path, t) == <<Call("open", path, FALSE), Call("read", path, 0), Call("close", path, 0),
                    Call("check", path, t)>>

Script ==
    Stores(<<"tmpfile">>, 1) \o Loads(<<"tmpfile">>, 1)
    \o <<Call("mkdir", <<"tmp">>, 0)>>
    \o Stores(<<"tmp", "tmpfile">>, 2) \o Loads(<<"tmp", "tmpfile">>, 2)
    \o <<Call("mount", <<"tmp">>, 0)>>
    \o Stores(<<"tmp", "tmpfile">>, 3) \o Loads(<<"tmp", "tmpfile">>, 3)
    \o <<Call("chdir", <<"tmp">>, 0)>>
    \o Stores(<<"lookup1">>, 4)             \* "./lookup1"
    \o Stores(<<"lookup2">>, 5)             \* "../lookup2"
    \o <<Call("chdir", <<>>, 0)>>
    \o Loads(<<"tmp", "lookup1">>, 4)       \* "./tmp/lookup1"
    \o Loads(<<"lookup2">>, 5)              \* "./lookup2"
    \o Loads(<<"initramfs", "vfs2.img">>, 6)

Line == Script[at]
Is(c) == pc = "run" /\ live = {Prog} /\ at <= Len(Script) /\ Line.call = c
Advance == at' = at + 1

(* the number is returned whether or not vfs_open found anything *)
OpenLine ==
    /\ Is("open") /\ num' = Min(EmptyFds(Prog))
    /\ \/ Open(Prog, Line.path, Line.t)
       \/ /\ get_vnode(Line.path).ret # OK /\ ~(Line.t /\ Missing(Line.path) /\ Room(Line.path))
          /\ UNCHANGED vars
    /\ Advance /\ UNCHANGED <<buf, failed>>
WriteLine ==
    /\ Is("write")
    /\ IF fd[Prog][num] = NULL THEN UNCHANGED vars ELSE Write(Prog, num, <<Line.t>>)
    /\ Advance /\ UNCHANGED <<num, buf, failed>>
ReadLine ==
    /\ Is("read")
    /\ IF fd[Prog][num] = NULL THEN UNCHANGED vars /\ buf' = <<>>
                               ELSE \E n \in Lens : Read(Prog, num, n) /\ buf' = got'
    /\ Advance /\ UNCHANGED <<num, failed>>
CloseLine ==
    /\ Is("close")
    /\ IF fd[Prog][num] = NULL THEN UNCHANGED vars ELSE Close(Prog, num)
    /\ Advance /\ UNCHANGED <<num, buf, failed>>
MkdirLine ==
    /\ Is("mkdir") /\ MkdirCall(Prog, Line.path)
    /\ Advance /\ UNCHANGED <<num, buf, failed>>
MountLine ==
    /\ Is("mount") /\ Mount(Prog, Line.path)
    /\ Advance /\ UNCHANGED <<num, buf, failed>>
(* system call 17 does nothing *)
ChdirLine ==
    /\ Is("chdir") /\ UNCHANGED vars
    /\ Advance /\ UNCHANGED <<num, buf, failed>>
CheckLine ==
    /\ Is("check") /\ UNCHANGED vars
    /\ failed' = IF buf = <<Line.t>> THEN failed ELSE failed \cup {Line.path}
    /\ Advance /\ UNCHANGED <<num, buf>>

TestNext ==
    \/ (BootStep \/ Booted \/ Spawn(Prog)) /\ UNCHANGED prog
    \/ OpenLine \/ WriteLine \/ ReadLine \/ CloseLine
    \/ MkdirLine \/ MountLine \/ ChdirLine \/ CheckLine

TestSpec ==
    /\ Init /\ at = 1 /\ num = 0 /\ buf = <<>> /\ failed = {}
    /\ [][TestNext]_<<vars, prog>>

(* Every check of the program prints success. *)
NoCheckFails == failed = {}
=============================================================================
