------------------------------- MODULE Files -------------------------------
(***************************************************************************)
(* Files: src/vfs.c, src/tmpfs.c, src/dev.c and the descriptor calls of   *)
(* src/execption.c.  They run with interrupts masked, so a call is a step. *)
(* A path is what follows its first component, which strtok drops: "/a",   *)
(* "./a" and "../a" are all <<"a">>, and a trailing / gives a last         *)
(* component "".  struct file comes from the pool of 32-byte objects, as   *)
(* do vnodes and short strings: whatever the kernel allocates may be an    *)
(* object that was freed under a descriptor.  Undefined behaviour that     *)
(* this module does not follow any further is pc = "lost".                 *)
(***************************************************************************)
EXTENDS Integers, Sequences, FiniteSets, SequencesExt, FiniteSetsExt

CONSTANTS Procs,
          NFds,       \* fd_size
          MaxEntry,   \* MAX_ENTRY
          Archive,    \* the initramfs: a sequence of [path, what, data]
          Paths,      \* the paths programs use
          Bufs,       \* what one write writes: sequences of bytes # 0
          Lens,       \* the lengths of reads
          Offsets,    \* the offsets of lseek64
          LongNames,  \* the names of more than 8 characters
          FbSize,     \* the frame buffer
          MaxPos,     \* the largest block of kmalloc; bound on positions
          MaxNodes, MaxObjs, MaxCalls   \* bounds

Nodes == 1 .. MaxNodes
Objs == 1 .. MaxObjs
Slots == 1 .. MaxEntry
Fds == 0 .. (NFds - 1)
Stdio == 0 .. 2
NULL == 0
Root == 1           \* rootfs.root
Junk == -1          \* a byte of memory nobody wrote
OK == 0
PATH_NOT_FOUND == -1
FILE_FOUND == -2
Abort == -3         \* lookup dereferences NULL

ASSUME FilesAssumption ==
    /\ NFds \in Nat /\ NFds > 2 /\ MaxEntry \in Nat \ {0}
    /\ FbSize \in Nat /\ MaxPos \in Nat /\ MaxCalls \in Nat
    /\ MaxNodes \in Nat \ {0} /\ MaxObjs \in Nat \ {0}
    /\ Lens \subseteq Nat \ {0} /\ Offsets \subseteq 0 .. MaxPos
    /\ FbSize <= MaxPos
(* what strtok and the parser of the archive yield *)
ASSUME CallAssumption ==
    /\ Paths \subseteq Seq(STRING) /\ LongNames \subseteq STRING
    /\ Bufs \subseteq Seq(Nat)
    /\ Archive \in Seq([path : Seq(STRING), what : {"dir", "file"}, data : Seq(Nat)])
    /\ \A i \in 1 .. Len(Archive) : Len(Archive[i].data) <= MaxPos

VARIABLES kind,     \* kind[v]: "none", "dir" or "file"
          ops,      \* ops[v]: whose read and write its f_ops are
          entry,    \* entry[v][i]: a directory slot, [name, next]
          data,     \* data[v]: the buffer of a file, capacity bytes
          mount,    \* mount[v]: the root of what is mounted on v, or NULL
          obj,      \* obj[o]: [vnode, pos, free: times on the free list,
                    \*          use: "none", "file" or "other"]
          fd,       \* fd[p][d]: an object, or NULL
          live,     \* the processes that were created
          got,      \* the bytes the last call read
          tainted,  \* recorded: objects freed while another descriptor named them
          misuse,   \* recorded: what else the programs did that corrupts memory
          pc,       \* "boot", "run" or "lost"
          calls     \* steps of the boot, then the calls that changed something

tree == <<kind, ops, entry, mount>>
vars == <<tree, data, obj, fd, live, got, tainted, misuse, pc, calls>>

Empty == [i \in Slots |-> [name |-> "", next |-> NULL]]

Init == /\ kind = [v \in Nodes |-> IF v = Root THEN "dir" ELSE "none"]
        /\ ops = [v \in Nodes |-> "tmpfs"]
        /\ entry = [v \in Nodes |-> Empty]
        /\ data = [v \in Nodes |-> <<>>]
        /\ mount = [v \in Nodes |-> NULL]
        /\ obj = [o \in Objs |-> [vnode |-> NULL, pos |-> 0, free |-> 1, use |-> "none"]]
        /\ fd = [p \in Procs |-> [d \in Fds |-> NULL]]
        /\ live = {}
        /\ got = <<>>
        /\ tainted = {} /\ misuse = {}
        /\ pc = "boot" /\ calls = 0

(***************************************************************************)
(* Paths.                                                                  *)
(***************************************************************************)
(* tmpfs_lookup: [ret, node].  Which slot is found does not matter: names *)
(* are distinct, and free slots, whose name is "", all have no next.      *)
Lookup(v, name) ==
    CASE kind[v] # "dir" -> [ret |-> FILE_FOUND, node |-> v]
      [] kind[v] = "dir" /\ \A i \in Slots : entry[v][i].name # name ->
            [ret |-> PATH_NOT_FOUND, node |-> v]
      [] OTHER -> LET i == CHOOSE i \in Slots : entry[v][i].name = name
                  IN [ret |-> IF entry[v][i].next = NULL THEN Abort ELSE OK,
                      node |-> entry[v][i].next]

Followed[v \in Nodes] == IF mount[v] = NULL THEN v ELSE Followed[mount[v]]

Walked(g, name) ==
    LET at[v \in Nodes] == Lookup(v, name)
        l == at[g.node]
    IN IF g.ret # OK THEN g
       ELSE [ret |-> l.ret, used |-> g.used + 1,
             node |-> IF l.ret = OK THEN Followed[l.node] ELSE g.node]
(* [ret, the node found last, the components consumed] *)
get_vnode(path) ==
    LET w[i \in 0 .. Len(path)] ==
          IF i = 0 THEN [ret |-> OK, node |-> Root, used |-> 0]
          ELSE Walked(w[i - 1], path[i])
    IN w[Len(path)]

(* what open, mkdir and mknod may create: only the last component is missing *)
Missing(path) ==
    LET g == get_vnode(path) IN g.ret = PATH_NOT_FOUND /\ g.used = Len(path)

FreeSlots(v) == {i \in Slots : entry[v][i].next = NULL}
Fresh == {v \in Nodes : kind[v] = "none"}

NewNode(k) == kind' = [kind EXCEPT ![Min(Fresh)] = k]
LinkedFirst(v, i, name) ==   \* mutant: the slot need not be free
    entry' = [entry EXCEPT ![v][1] = [name |-> name, next |-> Min(Fresh)]]
Linked(v, i, name) ==
    entry' = [entry EXCEPT ![v][i] = [name |-> name, next |-> Min(Fresh)]]

(* tmpfs_create takes the last free slot, tmpfs_mkdir the first *)
Create(path) == LET v == get_vnode(path).node
                IN /\ Fresh # {}
                   /\ NewNode("file") /\ Linked(v, Max(FreeSlots(v)), Last(path))
Mkdir(path) == LET v == get_vnode(path).node
               IN /\ Fresh # {}
                  /\ NewNode("dir") /\ Linked(v, Min(FreeSlots(v)), Last(path))
Room(path) == FreeSlots(get_vnode(path).node) # {}

(***************************************************************************)
(* Struct file objects.                                                    *)
(***************************************************************************)
Freed == {o \in Objs : obj[o].free > 0 /\ obj[o].vnode # NULL}
Unused == {o \in Objs : obj[o].free > 0 /\ obj[o].vnode = NULL}
(* the pages of the pool decide whether kmalloc takes a freed object first *)
Available == Freed \cup (IF Unused = {} THEN {} ELSE {Min(Unused)})
(* tmpfs_open *)
Opened(o, v) ==
    obj' = [obj EXCEPT ![o] = [vnode |-> v, pos |-> 0, free |-> @.free - 1, use |-> "file"]]
(* kmalloc for strings, vnodes and the rest of the kernel *)
Others(S) ==
    obj' = [o \in Objs |-> IF o \in S THEN [obj[o] EXCEPT !.free = @ - 1, !.use = "other"]
                                     ELSE obj[o]]
(* Freed twice, an object is handed out twice, and then the free list runs *)
(* into whatever the object holds.                                         *)
BrokenList == "freed twice" \in misuse
Holders(o) == {h \in Procs \X Fds : fd[h[1]][h[2]] = o}
(* What reads and writes find: the first word of a freed object is a link  *)
(* of the free list, but the device operations never look at it.           *)
Usable(o) == obj[o].use = "file" \/ (obj[o].use = "none" /\ ops[obj[o].vnode] # "tmpfs")

(***************************************************************************)
(* System calls.                                                           *)
(***************************************************************************)
Calling(p) == pc = "run" /\ p \in live /\ calls < MaxCalls
Returns == got' = <<>> /\ calls' = calls + 1 /\ pc' = pc
Derails == pc' = "lost" /\ UNCHANGED <<tree, data, obj, fd, live, got, calls>>
Misused(k) == misuse' = misuse \cup {k}

EmptyFds(p) == {d \in Fds : fd[p][d] = NULL}    \* get_empty_fd takes the least

(* vfs_open on a vnode *)
OpenNode(p, v) ==
    \E o \in Available :
        /\ Opened(o, v)
        /\ fd' = [fd EXCEPT ![p][Min(EmptyFds(p))] = o]

Open(p, path, creat) ==
    LET g == get_vnode(path)
    IN /\ Calling(p)
       /\ EmptyFds(p) # {}
       /\ \/ g.ret = OK /\ OpenNode(p, g.node) /\ UNCHANGED tree
          \/ /\ Missing(path) /\ creat /\ Room(path)
             /\ Create(path) /\ OpenNode(p, Min(Fresh))
             /\ UNCHANGED <<ops, mount>>
       /\ Returns
       /\ UNCHANGED <<data, live, tainted, misuse>>

OpenFile(p, d) == Calling(p) /\ fd[p][d] # NULL

ClearedNot(p, d) == UNCHANGED fd   \* mutant
Cleared(p, d) == fd' = [fd EXCEPT ![p][d] = NULL]
Close(p, d) ==
    LET o == fd[p][d]
    IN /\ OpenFile(p, d) /\ obj[o].use # "other"
       /\ obj' = [obj EXCEPT ![o].use = "none", ![o].free = @ + 1]
       /\ Cleared(p, d)
       /\ Returns
       /\ tainted' = IF Holders(o) # {<<p, d>>} THEN tainted \cup {o} ELSE tainted
       /\ IF obj[o].use = "none" THEN Misused("freed twice") ELSE UNCHANGED misuse
       /\ UNCHANGED <<tree, data, live>>

(***************************************************************************)
(* tmpfs_write: the buffer grows to the end of what is written, into       *)
(* memory that kmalloc has cleared.                                        *)
(***************************************************************************)
GrownLosing(buf, cap) == [k \in 1 .. cap |-> 0]   \* mutant: no copy of the old bytes
GrownTwice(buf, cap) ==     \* mutant: what is needed is added to the capacity
    [k \in 1 .. (cap + Len(buf)) |-> IF k <= Len(buf) THEN buf[k] ELSE 0]
Grown(buf, cap) == [k \in 1 .. cap |-> IF k <= Len(buf) THEN buf[k] ELSE 0]
Written(buf, q, s) ==
    LET to == IF Len(buf) < q + Len(s) THEN Grown(buf, q + Len(s)) ELSE buf
    IN [k \in 1 .. Len(to) |-> IF k \in (q + 1) .. (q + Len(s)) THEN s[k - q] ELSE to[k]]

Write(p, d, s) ==
    LET o == fd[p][d]
        v == obj[o].vnode
        q == obj[o].pos
    IN /\ OpenFile(p, d) /\ Usable(o)
       /\ \/ /\ ops[v] = "frame" /\ q >= 0 /\ q + Len(s) <= FbSize
             /\ UNCHANGED data
          \/ /\ ops[v] = "tmpfs" /\ kind[v] = "file"
             /\ q >= 0 /\ q + Len(s) <= MaxPos
             /\ data' = [data EXCEPT ![v] = Written(data[v], q, s)]
       /\ obj' = [obj EXCEPT ![o].pos = q + Len(s)]
       /\ Returns
       /\ UNCHANGED <<tree, fd, live, tainted, misuse>>

(***************************************************************************)
(* tmpfs_read bounds the length by the capacity, not by what is left, and  *)
(* moves the position by the length asked for.  Of a directory it takes    *)
(* bytes 8 to 11 of the name in the first slot for the capacity, and bytes *)
(* 0 to 7 for the buffer: a short name reads as an empty file.             *)
(***************************************************************************)
NamedLong(v) == kind[v] = "dir" /\ entry[v][1].name \in LongNames
BytesAt(buf, q, n) ==
    [k \in 1 .. n |-> IF q + k \in 1 .. Len(buf) THEN buf[q + k] ELSE Junk]

Read(p, d, n) ==
    LET o == fd[p][d]
        v == obj[o].vnode
        q == obj[o].pos
        cap == IF kind[v] = "file" THEN Len(data[v]) ELSE 0
        m == Min({n, cap})
    IN /\ OpenFile(p, d) /\ obj[o].use = "file" /\ ops[v] # "uart" /\ q + n <= MaxPos
       /\ ~NamedLong(v)
       /\ got' = BytesAt(data[v], q, m)
       /\ obj' = [obj EXCEPT ![o].pos = q + n]
       /\ calls' = calls + 1
       /\ UNCHANGED <<tree, data, fd, live, tainted, misuse, pc>>

(* __lseek64 with SEEK_SET.  With any other whence the offset counts from  *)
(* -1: the position n - 1, and for 0 the largest size_t, here -1.          *)
Seek(p, d, n) ==
    /\ OpenFile(p, d) /\ obj[fd[p][d]].use # "other"
    /\ obj' = [obj EXCEPT ![fd[p][d]].pos = n]
    /\ Returns
    /\ UNCHANGED <<tree, data, fd, live, tainted, misuse>>
SeekWhence(p, d, n) ==
    /\ OpenFile(p, d) /\ obj[fd[p][d]].use # "other"
    /\ obj' = [obj EXCEPT ![fd[p][d]].pos = n - 1]
    /\ Returns /\ Misused("whence")
    /\ UNCHANGED <<tree, data, fd, live, tainted>>

MkdirCall(p, path) ==
    /\ Calling(p) /\ Missing(path) /\ Room(path)
    /\ Mkdir(path) /\ Returns
    /\ UNCHANGED <<ops, mount, data, obj, fd, live, tainted, misuse>>

(* vfs_mount does not look at what get_vnode returned *)
Mount(p, path) ==
    /\ Calling(p) /\ get_vnode(path).ret # Abort /\ Fresh # {}
    /\ NewNode("dir")
    /\ mount' = [mount EXCEPT ![get_vnode(path).node] = Min(Fresh)]
    /\ Returns
    /\ UNCHANGED <<ops, entry, data, obj, fd, live, tainted, misuse>>

ChildFdsShared(p, o) ==   \* mutant: the table of another process is copied
    [d \in Fds |-> IF d \in Stdio THEN o
                   ELSE IF live = {} THEN NULL ELSE fd[CHOOSE q \in live : TRUE][d]]
ChildFds(p, o) == [d \in Fds |-> IF d \in Stdio THEN o ELSE NULL]

(* Thread() and open_uart_fds: one struct file in three descriptors; a     *)
(* forked child inherits none of its parent's.                             *)
Spawn(p) ==
    LET g == get_vnode(<<"dev", "uart">>)
    IN /\ pc = "run" /\ p \notin live
       /\ live' = live \cup {p}
       /\ IF g.ret = OK
            THEN \E o \in Available :
                   /\ Opened(o, g.node)
                   /\ fd' = [fd EXCEPT ![p] = ChildFds(p, o)]
            ELSE UNCHANGED <<obj, fd>>
       /\ got' = <<>>
       /\ UNCHANGED <<tree, data, tainted, misuse, pc, calls>>

(* Strings, vnodes and the rest of the kernel, at any time: also the ones  *)
(* a system call allocates before its struct file.                         *)
KernelAllocates ==
    /\ pc = "run"
    /\ \E S \in SUBSET Freed \ {{}} : Others(S)
    /\ got' = <<>>
    /\ UNCHANGED <<tree, data, fd, live, tainted, misuse, pc, calls>>

(***************************************************************************)
(* Undefined behaviour.                                                    *)
(***************************************************************************)
(* an object that is something else by now, or whose vnode is a list link  *)
UseDangling(p, d) ==
    /\ OpenFile(p, d)
    /\ \/ obj[fd[p][d]].use = "other"
       \/ obj[fd[p][d]].use = "none" /\ ops[obj[fd[p][d]].vnode] # "uart"
    /\ Derails /\ UNCHANGED <<tainted, misuse>>
(* Far enough past the end of a file nothing is mapped; nearer, Read finds *)
(* whatever lies there.                                                    *)
ReadAstray(p, d, n) ==
    LET o == obj[fd[p][d]]
        size == Len(data[o.vnode])
    IN /\ OpenFile(p, d) /\ o.use = "file"
       /\ NamedLong(o.vnode) \/ (size > 0 /\ o.pos + Min({n, size}) > size)
       /\ Derails /\ Misused("arguments") /\ UNCHANGED tainted
(* a directory's slots taken for a buffer; more than kmalloc has; before   *)
(* or after the frame buffer                                               *)
WriteAstray(p, d, s) ==
    LET o == obj[fd[p][d]]
    IN /\ OpenFile(p, d) /\ Usable(fd[p][d])
       /\ \/ kind[o.vnode] = "dir" /\ Misused("arguments")
          \/ ops[o.vnode] # "uart" /\ o.pos < 0 /\ UNCHANGED misuse
          \/ ops[o.vnode] = "frame" /\ o.pos + Len(s) > FbSize /\ Misused("arguments")
          \/ ops[o.vnode] = "tmpfs" /\ o.pos + Len(s) > MaxPos /\ Misused("arguments")
       /\ Derails /\ UNCHANGED tainted
(* a component "" finds a free slot, whose next is NULL *)
EmptyComponent(p, path) ==
    /\ Calling(p) /\ get_vnode(path).ret = Abort
    /\ Derails /\ Misused("arguments") /\ UNCHANGED tainted
(* get_filesystem returned NULL *)
MountUnknown(p) ==
    /\ Calling(p) /\ Derails /\ Misused("arguments") /\ UNCHANGED tainted
(* no else after the test: NULL->f_pos is set, in the caller's text *)
SeekNotOpen(p, d) ==
    /\ Calling(p) /\ fd[p][d] = NULL
    /\ Derails /\ Misused("arguments") /\ UNCHANGED tainted
(* the number is not checked: also the -1 of a failed open *)
BadNumber(p) ==
    /\ Calling(p) /\ Derails /\ Misused("arguments") /\ UNCHANGED tainted
(* the next kmalloc after an object was freed twice *)
ListRunsAstray ==
    /\ pc = "run" /\ BrokenList
    /\ Derails /\ UNCHANGED <<tainted, misuse>>

(***************************************************************************)
(* initramfs and dev_init.                                                 *)
(***************************************************************************)
Step(path, what, bytes) == [path |-> path, what |-> what, data |-> bytes]
Boot == <<Step(<<"initramfs">>, "dir", <<>>)>>
        \o Archive
        \o <<Step(<<"dev">>, "dir", <<>>), Step(<<"dev", "uart">>, "uart", <<>>),
             Step(<<"dev", "framebuffer">>, "frame", <<>>)>>

BootDir(e) ==
    /\ e.what = "dir"
    /\ IF Missing(e.path) /\ Room(e.path) THEN Mkdir(e.path) /\ UNCHANGED <<ops, mount>>
                                          ELSE UNCHANGED tree
    /\ UNCHANGED <<data, pc>>
UnpackedShort(v, e) == data' = [data EXCEPT ![v] = Tail(Written(@, 0, e.data))]   \* mutant
Unpacked(v, e) == data' = [data EXCEPT ![v] = Written(@, 0, e.data)]
(* open, write, close; what open returned is not looked at: NULL, or a     *)
(* directory, whose slots would be taken for a buffer                      *)
BootFile(e) ==
    LET g == get_vnode(e.path)
        new == Missing(e.path) /\ Room(e.path)
        old == g.ret = OK /\ kind[g.node] = "file"
    IN /\ e.what = "file"
       /\ \/ old /\ Unpacked(g.node, e) /\ UNCHANGED <<tree, pc>>
          \/ /\ new /\ Create(e.path) /\ Unpacked(Min(Fresh), e)
             /\ UNCHANGED <<ops, mount, pc>>
          \/ ~(old \/ new) /\ pc' = "lost" /\ UNCHANGED <<tree, data>>
(* mknod *)
BootDevice(e) ==
    /\ e.what \in {"uart", "frame"}
    /\ IF Missing(e.path) /\ Room(e.path)
         THEN Create(e.path) /\ ops' = [ops EXCEPT ![Min(Fresh)] = e.what] /\ UNCHANGED mount
         ELSE UNCHANGED tree
    /\ UNCHANGED <<data, pc>>

BootStep ==
    /\ pc = "boot" /\ calls < Len(Boot)
    /\ LET e == Boot[calls + 1] IN BootDir(e) \/ BootFile(e) \/ BootDevice(e)
    /\ calls' = calls + 1
    /\ UNCHANGED <<obj, fd, live, got, tainted, misuse>>
Booted ==
    /\ pc = "boot" /\ calls = Len(Boot)
    /\ pc' = "run" /\ calls' = 0
    /\ UNCHANGED <<tree, data, obj, fd, live, got, tainted, misuse>>

Next ==
    \/ BootStep \/ Booted \/ KernelAllocates \/ ListRunsAstray
    \/ \E p \in Procs :
         \/ Spawn(p) \/ BadNumber(p) \/ MountUnknown(p)
         \/ \E path \in Paths : \/ \E creat \in BOOLEAN : Open(p, path, creat)
                                \/ MkdirCall(p, path) \/ Mount(p, path)
                                \/ EmptyComponent(p, path)
         \/ \E d \in Fds : \/ Close(p, d) \/ UseDangling(p, d)
                           \/ SeekNotOpen(p, d)
                           \/ \E s \in Bufs : Write(p, d, s) \/ WriteAstray(p, d, s)
                           \/ \E n \in Lens : Read(p, d, n) \/ ReadAstray(p, d, n)
                           \/ \E n \in Offsets : Seek(p, d, n) \/ SeekWhence(p, d, n)

Spec == Init /\ [][Next]_vars

(***************************************************************************)
(* Properties.                                                             *)
(***************************************************************************)
(* Nodes form trees: a file has one directory slot, a directory at most    *)
(* one, a root none, names in a directory are distinct, and only           *)
(* directories have names in them.  get_vnode leaves the test to open,     *)
(* mkdir and mknod, which read strtok's leftover state to see whether the  *)
(* last component was reached, and tmpfs_mkdir does not look at names.     *)
Links(v) == {l \in Nodes \X Slots : entry[l[1]][l[2]].next = v}
Tree ==
    /\ \A v \in Nodes : Cardinality(Links(v)) \in
           CASE kind[v] = "file" -> {1}
             [] kind[v] = "dir" /\ v # Root /\ v \notin Range(mount) -> {0, 1}
             [] OTHER -> {0}
    /\ \A v \in Nodes, i, j \in Slots :
         /\ entry[v][i].next # NULL => kind[v] = "dir" /\ entry[v][i].name # ""
         /\ i # j /\ entry[v][i].next # NULL => entry[v][i].name # entry[v][j].name
    /\ \A v \in Nodes : mount[v] # NULL => kind[mount[v]] = "dir" /\ mount[v] > v

TypeOK ==
    /\ kind \in [Nodes -> {"none", "dir", "file"}]
    /\ ops \in [Nodes -> {"tmpfs", "uart", "frame"}]
    /\ mount \in [Nodes -> Nodes \cup {NULL}]
    /\ \A v \in Nodes, i \in Slots : entry[v][i].next \in Nodes \cup {NULL}
    /\ \A v \in Nodes : Len(data[v]) <= MaxPos /\ (data[v] # <<>> => kind[v] = "file")
    /\ fd \in [Procs -> [Fds -> Objs \cup {NULL}]]
    /\ \A o \in Objs : /\ obj[o].vnode \in Nodes \cup {NULL}
                       /\ obj[o].pos \in -1 .. MaxPos
                       /\ obj[o].free \in Nat
                       /\ obj[o].use \in {"none", "file", "other"}
    /\ live \subseteq Procs /\ tainted \subseteq Objs
    /\ pc \in {"boot", "run", "lost"}

(* Two descriptors share a struct file only when they are the standard     *)
(* descriptors of one process, and a struct file some descriptor holds is  *)
(* not free: except those that were freed under a descriptor.  The damage  *)
(* goes where such an object goes, to files opened and processes created   *)
(* later, and no further, although all come from one free list.            *)
Exclusive ==
    \A o \in Objs \ tainted : Holders(o) # {} =>
        /\ obj[o].free = 0 /\ obj[o].use = "file"
        /\ \/ Cardinality(Holders(o)) = 1
           \/ \E p \in Procs : Holders(o) = {p} \X Stdio

(* What a path names, it names for good, except that a mount hides what is *)
(* below the node it covers.  There is no unlink and no rename, but mounts *)
(* stack, and creation takes slots and names from the tree as it stands.   *)
PathsStay ==
    [][tree' # tree => \A path \in Paths :
         LET g == get_vnode(path)
         IN g.ret = OK /\ get_vnode(path)' # g =>
              \E i \in 0 .. Len(path) :
                 LET v == get_vnode(SubSeq(path, 1, i)).node
                 IN mount'[v] # mount[v] /\ mount[v] = NULL]_vars

(* The kernel itself follows a bad pointer only after a program misused    *)
(* the calls (it read or wrote a directory, or beyond an end; named a      *)
(* descriptor or a path that is not there; sought with a whence), or after *)
(* a standard descriptor was closed.                                       *)
LostOnlyIf == pc = "lost" => misuse # {} \/ tainted # {}

(* An archive that fits: every entry comes after its directory and has a   *)
(* path of its own, no directory is given more than MAX_ENTRY names, and   *)
(* the nodes suffice.                                                      *)
Siblings(i) == {j \in 1 .. Len(Boot) : Front(Boot[j].path) = Front(Boot[i].path)}
Whole ==
    /\ Len(Boot) < MaxNodes
    /\ \A i \in 1 .. Len(Boot) :
         /\ Boot[i].path # <<>> /\ Last(Boot[i].path) # ""
         /\ \/ Len(Boot[i].path) = 1
            \/ \E j \in 1 .. (i - 1) :
                  Boot[j].what = "dir" /\ Boot[j].path = Front(Boot[i].path)
         /\ \A j \in 1 .. (i - 1) : Boot[j].path # Boot[i].path
         /\ Cardinality(Siblings(i)) <= MaxEntry

(* When the boot is over, every archived file can be found and holds what  *)
(* the archive said.  Nothing looks at what open returned on the way.      *)
ArchiveUnpacked ==
    [][pc = "boot" /\ pc' = "run" =>
         \A i \in 1 .. Len(Archive) :
             LET g == get_vnode(Archive[i].path)
             IN /\ g.ret = OK
                /\ Archive[i].what = "file" => data[g.node] = Archive[i].data]_vars

(* Descriptors and files keep the promise of module FileStore as long as   *)
(* no program breaks the rules.                                            *)
(* The file and position each descriptor stands for, and who shares them. *)
Shut == [file |-> 0, pos |-> 0, with |-> {}]
Stands ==
    [h \in Procs \X Fds |->
       LET o == fd[h[1]][h[2]]
       IN IF o # NULL /\ kind[obj[o].vnode] = "file" /\ ops[obj[o].vnode] = "tmpfs"
            THEN [file |-> obj[o].vnode, pos |-> obj[o].pos, with |-> Holders(o)]
            ELSE Shut]
Store == INSTANCE FileStore WITH
    Files <- Nodes,
    Handles <- Procs \X Fds,
    Standard <- {{p} \X Stdio : p \in Procs},
    content <- data,
    at <- Stands,
    up <- pc # "boot",
    sound <- tainted = {} /\ misuse = {} /\ pc # "lost"
Implements == Store!Spec
=============================================================================
