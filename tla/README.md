# Models and proofs of the OSC 2022 kernel

TLA+ models, TLC runs and TLAPS proofs for the AArch64 teaching kernel in this
repository: the buddy page allocator, the kernel heap, threads and signals, virtual
memory with copy-on-write, the virtual file system with its in-memory file system,
and FAT32 on the SD card. Paths below are relative to the root of the repository,
whose kernel sources are in `src/`, `include/`, `*.S` (`user/` holds the programs that
run on it).

## 1. Inventory

One CPU. The kernel runs with interrupts masked, except inside `uart_read` and
`uart_write`, which unmask them on the kernel stack of the caller. The only
source of preemption is the timer, whose handler calls `schedule`.

| Component | Source | State | Operations | Here |
|---|---|---|---|---|
| buddy page allocator | `src/mm.c` 13-167, 324-366, 407-414 | frame table (`used`, `order`, `reference_cnt`), a list and a counter per order | `buddy_init`, `mem_reserve`, `alloc_pages`, `free_pages`, split, merge | `Buddy` |
| kernel heap | `src/mm.c` 68-82, 276-315, 368-405 | pools of pages carved into equal objects | `kmalloc`, `kfree` | `Kmalloc` |
| threads, scheduler | `src/thread.c`, `sched.S`, `exception.S` | run queue, kill queue, kernel stacks, `tpidr_el1` | tick, `schedule`, `fork`, `exec`, `exit`, `kill` | `Threads` |
| signals | `src/posix.c`, `src/thread.c` | pending bits, handlers, mask, handler stack, saved `ksp` | `check_posix`, `signal`, `kill`, `sigreturn` | `Threads` |
| areas of an address space | `src/mm.c` 454-464, 540-637 | a linked list `mm->mmap` per process, the nodes of all from one pool | `mmap`, `exec`, `fork`, the fault handler's searches | `Vma`, `VmaList` |
| paging | `src/mm.c` 466-534, `src/mem.c`, `sched.S` 74-103 | page tables, reference counts, the TLB | access, demand page, copy-on-write, `fork`, `exec`, `exit`, switch | `Vmem` |
| system call dispatch | `src/execption.c` | none of its own | one case per call | the actions of the components called |
| VFS and tmpfs | `src/vfs.c`, `src/tmpfs.c`, `src/execption.c` 114-149 | mounts, trees of vnodes, buffers, `struct file`s, descriptors | `open`, `close`, `read`, `write`, `lseek64`, `mkdir`, `mount`, the boot's unpacking | `Files` |
| device files | `src/dev.c` | the console's shared `struct file`, the frame buffer's position | `mknod`, `open_uart_fds`, frame buffer writes | `Files` |
| FAT32 | `src/fat32.c` | FAT, directory and data caches, the list of dirty blocks | lookup, create, read, write, `sync`, mount | `Fat32` |
| SD card | `src/sdhost.c` | the card | `readblock`, `writeblock` with its loop over errors | as blocks, in `Fat32` |
| timer | `src/timer.c` | next tick; a timeout list the running kernel does not use | tick | the tick, in `Threads` |
| deferred tasks | `src/irq.c` | task list without a caller | `irq_handler` | the handler, in `Threads` |
| console, ring queue | `src/uart.c`, `src/queue.c` | polled; the interrupt-driven queue is never enabled | read, write | as points of preemption, in `Threads` |
| initramfs | `src/initrd.c`, `src/vfs.c` 148-168 | a read-only archive | unpack at boot | in `Files` |
| user programs | `user/lib`, `user/programs/vfs2` | their own | system calls; the test program of the file system | actions of `Threads` and `Files`; `VfsTest` |
| mailbox, reset, device tree, boot, boot loader, kernel shell, formatting | `src/mbox.c`, `src/reset.c`, `src/devicetree.c`, `start.S`, `src/pgtable.c`, `src/uart_boot.c`, `src/shell.c`, `src/sprintf.c`, `src/utils.c` | | | not modelled, see section 5 |

How they interact. Everything takes memory from `kmalloc`, and `kmalloc` takes
pages from `alloc_pages`. `fork` shares every user page and counts it in
`reference_cnt`, which the fault handler reads to decide between taking a page
over and copying it, and `free_pages` reads to decide whether to free. The tick
saves a trap frame, `schedule` moves threads between the CPU and two queues
through one list node per thread, `check_posix` starts a handler on the way
back to the program, and `sigreturn` throws away whatever lies above the saved
frame. `switch_ttbr0` and `to_el0` flush the TLB; the code that edits page
tables does not. A descriptor is a pointer to a `struct file` that comes from the same
pool as vnodes and strings; three of them point to one console file. FAT32 hangs below the
VFS through its tables of operations and reaches the card through two functions.

What is hard, and what correctness means:

* **Buddy.** A long history of splits and merges must never let two blocks
  overlap, lose a frame or leave two free buddies apart. The code decides on two
  fields of a frame whether it may unlink it.
* **Heap.** `kfree` is told an address only and must find out which of two ways
  of freeing is right; free counters and free lists are kept separately.
* **Threads and signals.** Signals that arrive inside handlers and inside
  interruptible system calls, forks and execs from handlers; each thread in one
  queue; nobody starves; a signal is not lost.
* **Virtual memory.** Any order of faults, forks, execs and exits of several
  processes; counts that must not be too low; a TLB that still knows what the
  table no longer says.
* **Files.** Whether a call may create is read off `strtok`'s leftover state; descriptors are
  freed under one another; offsets go past the end; a failed open still returns a number; the
  boot does not look at what open returned.
* **FAT32.** Three caches, three dirty flags and a list are kept in step by hand; a
  power cut may fall between any two writes of a sync; entry numbers of the FAT, clusters and
  blocks are confused in places.

`PROJECT.json` lists the hazards line by line with the properties that watch them.

## 2. Modules

```
 PageAllocator  <---- implements ----  Buddy                    BuddyProofs: proofs of Buddy
       ^  taken at its promise
    Kmalloc     ----- implements ---->  Heap              KmallocProofs: proofs of Kmalloc
    Vmem        ----- implements ---->  PrivateMemory     VmemProofs: proofs of Vmem
    Files       ----- implements ---->  FileStore         FilesProofs: proofs of Files
      ^ runs on
    VfsTest
    Fat32       ----- implements ---->  DurableFiles      Fat32Proofs, DurableProofs: proofs of Fat32
    Threads                                               ThreadsProofs: proofs of Threads
    VmaList     ----- its links lead through ---->  Vma   VmaProofs: proofs of both
    VmaSearch: the searches both use
```

`MC*.tla` and `MC*.cfg` hold the constants of the checked instances. A definition
called *mutant* in a comment is not part of a specification. It is a plausible bug
in the definition it stands beside, and replacing that definition by it makes the
property named in `PROJECT.json` fail: so each property is known to depend on the
code it is about.

**PageAllocator** is the promise of `alloc_pages` and `free_pages`: granted blocks
are aligned, disjoint and stay put until their last owner drops them.

**Buddy** is the allocator itself. `used`, `order`, `refcnt`, `list`, `pg_free` are
the frame table and `buddy[]`; `pc` and `cur` are the call in progress and its block.
One call of the recursive `release_redundant_block` and `merge_page` is one step
(`SplitStep`, `MergeStep`), so invariants also hold half-way. `Boot...` and
`MemReserve` are the initialisation with reserved frames (`__buddy_init`; with no
reserved frame it is `buddy_init`, the one the kernel calls). `mem_reserve` marks and
unlinks the frames one at a time, and frames are reserved before merging starts, each once: the model has
no ranges that overlap, whose frames `mem_reserve` would unlink a second time.
`Share` and `Unshare` are what fork and the fault handler do to `reference_cnt`.
`FreePages` may also be called for a page that is not granted, so the double-free trap
is part of the model. `refs`, `leaked` and `misused` record what the callers did.

**Kmalloc** has pools as `used/page/free_obj/freelist` per slot and uses the actions of `PageAllocator` for
pages. The choice of a size class, the carving of a new page and the address test of `kfree` are `ClassOf`,
`Carved` and `InSlot`. `free_obj` is a counter of its own, set at the carving and counted up and down beside
the list, so that the two may come apart. `live` records the objects in use and is what **Heap**, the promise
of `kmalloc`, speaks about.

**Threads** has one step per system call, one for the tick, one for `schedule` with
the dispatch, and one per outcome of the loop in `check_posix`. A trap frame is
the *activity* it will resume: program or handler of signal s, inside a console
call or not. `kstk[t]` is the stack of these frames and `ksp[t]` the saved
position that `sigreturn` uses. Undefined behaviour (a missing frame, the list
head taken for a thread, a null handler stack) leads to `pc = "lost"`, the null
stack both to that and to nothing at all. `LibKill` is the user library's
`kill`, which makes another system call than its name says.

**Vma** has the areas of every process as a sequence, and `Exec`, `Mmap` and `Fork` as its actions. The gap
search of `chk_vma_valid` and the two searches of the fault handler are operators of **VmaSearch**.
Subtraction wraps at `Wrap` as `unsigned long` does. **VmaList** has the lists themselves: `head` is
`mm->mmap` of each process, `node` the allocated `vm_area_struct`s with their `vm_next`, `pool` the free list
that gives the node freed last. Its actions change links as `create_vma`, `vma_insert`, `clear_vma` and
`copy_vma` do, each in one step with the same call of `Vma`, and `ListsAreAreas` says that following the links
of a process yields the sequence. So what is proved of the sequence in `Vma` is claimed of a list that surgery
on pointers has built.

**Vmem** has a page table per process as a function from pages to entries (frame,
read-only bit), the reference counts, the contents of frames as values, and the
TLB. An access is started by the program (`Start`), faults (`DemandPage`,
`TakeOver`, `CopyOnWrite`, `SegFault`, `FallThrough`: the paths through
`mem_abort_handler`) and is executed again until it succeeds (`Access`). `Exec`
replaces the text and keeps the rest of the table, since `clear_pgd` is empty.
The hardware may load any entry of the running process into the TLB and drop
it (`Walk`, `Evict`); `caches` says whether this machine's does. Its promise is
**PrivateMemory**: to each process its own memory; an access reads or writes it in one step,
fork copies it, and no fault changes it.

**Files** has the vnodes as numbers: `kind`, `ops`, `entry` (the slots of a directory), `data` (a buffer, as
long as its capacity) and `mount`. `get_vnode` is a function over the components of a path, and `Missing` is
the leftover state of `strtok` that `open`, `mkdir` and `mknod` read. `obj[o]` is a 32-byte object of the
heap: a `struct file`, free, or something else by now. `free` counts how often it is on the free list, since
closing two of the three console descriptors puts it there twice. Calls that fail without effect are left out.
A program may pass anything: numbers not open, trailing slashes, unknown file systems, directories to write or
read. Where the code then follows a bad pointer, the action ends in `pc = "lost"`. `tmpfs_read` and
`tmpfs_write` take the slots of a directory for the header of a buffer. The name in the first slot is then its
capacity and address: up to 8 characters leave a capacity of 0, so that nothing is read, and a name of
`LongNames` has the read follow a bad pointer (`NamedLong`, `ReadAstray`). A read that ends beyond the buffer
finds what lies there, or derails. `BootStep` runs `initramfs` and `dev_init` over an archive; `Whole` says
which archives fit. **FileStore** is the promise: a descriptor names one file and one position; written bytes
stay and are read back, and a gap left by a seek reads 0. The standard descriptors of a process have one
position between them (`with`): a program may mount on `/dev` and create `/dev/uart` as a file, which is then
what the next process writes its output to. While the boot lasts (`up` is false) files are filled and nobody
holds a descriptor. The promise is void once a program misused a call (`misuse`) or freed a file under another
descriptor (`tainted`).

**VfsTest** is `vfs_test` of the user shell as a script of calls on `Files`, with its own checks.

**Fat32** has the card as its FAT blocks, the root's directory block and the clusters, and beside it what the
kernel keeps: `mfat`, `dir`, `inode` (the parsed directory and the data blocks) and `dirty`.
`find_free_FAT_ENTRY` and `update_fileinfo` keep their mixed-up units (`FreeCluster`, `NextBlk`). `sync`
writes one block per step; `SyncRetry` is the loop in `writeblock`; `PowerCut` is the loss of everything but
the card and the mount that follows. `ShortCluster` is what `create` leaves of a cluster number, the low word
cut to 8 bits. A write that begins at the end of a block goes astray even when it is empty, since block 0 is
then read again over what was not synced (`WriteAstray`, `src/fat32.c` 162-169). **DurableFiles** is the
promise to programs that append to files of at most one block, and read inside them: reads return what was
written, and what a completed sync wrote and nobody changed since survives every cut. All that ends the
promise is its `Excuse`: a write elsewhere than at the end of a file, or to a file whose blocks are not found
(not `owned`: an empty one, to which the card gave cluster 0), a read from beyond the end, a new file when the
free cluster found lies beyond the first FAT block or is in use (no `room`), or that the kernel does not come
back from a call. The last is excused only by one of these conditions, or a position at the end of the block,
or a buffer that does not fit into its rest. So a program that keeps appending does lose the promise, at the
end of the first block. `OneClusterEach` says of a card that each of its files has one cluster of its own.

## 3. Runs

| Run | Instance | Shows |
|---|---|---|
| `buddy` | 8 frames, orders 0..3, one reserved, 2 owners | blocks apart, lists and counts exact, nothing lost, coalescing complete, double-free trap exact, granted blocks stable, implements `PageAllocator`; boot and every call return |
| `kmalloc` | 2 frames of 4 units, objects of 1 and 2 units | pools partitioned, pages found by address, implements `Heap` |
| `threads` | 2 threads, signals 1 and 9, 2 calls of `kill`, `exec` or library `kill` | the interrupted frame survives, handler stacks are not shared, pending signals are delivered, round robin |
| `scheduler` | 3 threads, one signal, 1 call of `kill`, `exec` or library `kill`, forks in the handler | one queue per thread, the kernel derails only after listed causes |
| `lib_kill` | 2 threads, one library `kill` | **fails**: the named process lives on |
| `vma` | 2 processes, 6 nodes, pages of 2 units, stack in page 7, 9 requests, 4 areas a process | the links lead through the areas, which are sorted and disjoint; searches right |
| `vmem` | 2 processes, 1 text and 1 data page, 4 frames, with and without a TLB that keeps entries | counts cover mappings, stale entries grant no writes elsewhere, every access ends, implements `PrivateMemory` |
| `vmem_stuck` | 2 processes with a TLB | **fails**: the "unreachable" `while(1)` is reached |
| `files` | 2 processes, 4 descriptors, 4 struct files, directories of 3 slots, 4 calls | tree sound, paths stay, the archive is unpacked, descriptors exclusive, lost only after misuse, implements `FileStore` |
| `vfs_test` | one process, the code's own sizes | **fails**: a check of the test program prints `failed` |
| `fat32` | 5 cards, 5 FAT blocks of 6 entries, 1 cut, 5 calls | caches, list and card agree, no cluster twice, syncs end, implements `DurableFiles` |
| `fat32_full` | a card whose first FAT block is full | **fails**: two files get one cluster |

Bounds, and why they are enough:

* Frames: with 8 frames there are four orders, so merges run through three
  levels in both directions; a reserved frame blocks merging on one side. Two owners pass
  both sides of `> 1` and of `== 1`. The theorems below remove these bounds.
* The heap: two classes and two pages a class make every slot reach full and
  empty, and leave the pools and large objects competing for two frames.
* `Threads`: `MaxCalls` bounds the calls that may be repeated without end (`kill`, `exec`); two allow
  a signal and a second inside its handler. `MaxStack` bounds the frames
  below which a thread may still fork or exec, not the depth that ticks and signals
  reach. `SigPages` has a page for each call, so a handler always finds one. A fork inside a handler needs a
  third thread, since nobody signals himself: that is `scheduler`. Both at once, two handlers and a fork inside one,
  is too large for a run and left to the theorems.
* Areas: text, stack and two more; requests hit, touch or miss each of them, also
  unaligned ones and of length zero. Six nodes are too few for two processes of four, and enough for
  parent and child with three each, for an exec between them and for its freed nodes to be given to the other.
* `Vmem`: `Exec` is only taken while frames for all pages that can still
  be needed are left (`Reserve`), so demand paging never meets an empty pool. What is written differs
  from `Zero`, and unused frames hold something else than `Zero`, so that
  neither a missing copy nor a missing zeroing goes unnoticed. No run gives
  `ReadOnly` a page: such pages act as text does after a fork. Two processes suffice for TLC since
  the theorems hold for any number.
* `Files`: four calls after the boot reach a file created, written, reopened and read, a console file
  freed twice and handed out again, a mount over a mount, a console that is a file. The paths are the two
  devices, the archived file, the directory `/dev`, and a trailing slash. `MaxPos` 3 has writes inside, across and past
  the end of a buffer, also with a gap. The long names are the two of the kernel's own that have more than 8 characters. A directory of three slots gets full, the ten
  nodes are six after the boot and one for each call, and the four struct files give each process its console and a file of its
  own; a fifth would only be taken after the rest of the kernel took one that was closed. The fourth descriptor is the one that is not the console's.
* `Fat32`: with five FAT blocks of six entries each, a cluster found in the second block is marked in block 4, the last, and one found in the
  third beyond `fat[]`; clusters, blocks and entries differ, so that taking one for another shows. The
  cards have room in the first FAT block, in the second, in the third, or nowhere, and one has
  an empty file with cluster 0. Five calls make two files, write and sync both, with one cut anywhere.
* Symmetry: `files` and `vma` exchange processes; they check no liveness.

Fairness:

* `Buddy`: weak fairness of the kernel's steps. Nothing takes the CPU away from a
  call in progress.
* `Threads`: weak fairness of the kernel's steps for the same reason, and of the tick, which
  re-arms itself. Programs need never call anything.
* `Vmem`: strong fairness of dispatching each live process and of its current
  instruction: `RoundRobin` says that everybody is dispatched again and again,
  and a dispatched process executes before the next tick, or the one after.
* `Fat32`: weak fairness of the steps of a sync: interrupts are masked, and the card takes a block in the end.

`CHECK_DEADLOCK` is off only for the file systems, where `MaxCalls` ends every behaviour and a derailed
kernel stays where it is. Elsewhere the states where the system stops (double-free
trap, derailed kernel, no process left) stutter explicitly.

### What the failing runs say

* `lib_kill`: system call 7 is `sigreturn` in the kernel and `kill` in the user
  library. The shell's `kill [pid]` frees the caller's last handler stack again.
* `vmem_stuck`: after copy-on-write the old read-only entry may still be in the TLB.
  The write faults once more, the entry in memory is writable by now, and no
  arm of the handler is left but the endless loop.
* `vfs_test`: `chdir` is an empty case and `get_vnode` drops the first component of a path, so `./lookup1` after
  `chdir("/tmp")` is a file of the root, and the later `./tmp/lookup1` does not find it.
* `fat32_full`: `find_free_FAT_ENTRY` scales the number of the FAT block by `BLOCK_SIZE` instead of
  `FAT_ENTRY_PER_BLK`. The entry that was found stays free, another is marked, and the next file gets the
  same cluster.

Met on the way and true in the models or the code, but contradicting nothing the repository
says, or not of this size:

* exits and execs give no page back (`src/thread.c` 225); a program that forks can no longer write its
  text-area data; after `exec` the new program finds the stack contents and the signal
  handlers of the old one;
* a mapping request that finds no gap is placed at address 0 (`src/mm.c` 613); a `kmalloc` above the
  largest block is granted one page (`src/mm.c` 369-372, modelled as `OrderOf`);
* after the death of the last thread the scheduler dispatches the list head;
* a child forked inside a handler inherits the handler's frame but neither mask nor stack: its sigreturn
  frees address 0, or, after a handler of its own, a page that is by then another thread's handler stack
  (`StackPages` and `DerailsOnlyIf` exempt it);
* the first thread's id is 100 while the others count from 1 (`src/thread.c` 30); `exec` never rewinds the kernel
  stack (`src/thread.c` 220); `copy_page_table` also counts mailbox pages, whose index lies outside
  the frame table (`src/mem.c` 55);
* closing one console descriptor frees the `struct file` of the other two; `lseek64` with any whence but
  `SEEK_SET` counts from -1;
* a program that mounts on `/dev` and creates `/dev/uart` gives all later processes standard descriptors on one file each,
  with one position for the three (found when the proof of `Implements` did not go through);
* a directory entry keeps 8 bits of the low half of a cluster number (`src/fat32.c` 295), so a
  file with a larger one is another cluster's after the next boot (`far`);
* an archive with a file whose directory is missing, or whose path is a directory's, derails the boot (`src/vfs.c` 148-168);
* overwriting a part of a FAT32 file makes it longer; a read past its end is not bounded; an empty write at the end of the first
  block has block 0 of the card overwritten at the next sync (`src/fat32.c` 162-169);
* reading a directory of the in-memory file system follows a pointer made of the name in its first slot, if that has more than
  8 characters, as `initramfs` in the root has (`src/tmpfs.c` 27-30);
* `reference_cnt` is counted up from whatever the frame table holds at boot (`src/mm.c` 332): a block whose count starts below zero is
  freed by one of two owners under the other (`NoneNegative`).

## 4. Proofs

### BuddyProofs

For every number of orders, every set of reserved frames and every number
of owners, if `reference_cnt` holds no negative number at boot (`NoneNegative`):

| Theorem | Statement |
|---|---|
| `TypeCorrect` | `Spec => []TypeOK` |
| `BlocksAreApart` | `Spec => []BlocksApart`: no two blocks share a frame |
| `HeldStay` | `Spec => HeldStable`: no step touches a block that stays granted |
| `BuddyImplements` | `Spec => Implements`: `Buddy` refines `PageAllocator` |

The assumptions are those of `Buddy`: `Size[0] = 1`, sizes double from one order to the
next, and every size divides the number of frames (which the doubling implies; its
proof would be an induction). TLC evaluates them in every run of the module.

`BlocksApart` is not inductive. That a merge may take its buddy follows from the frame's
two fields only if these fields mean *listed*, which holds only if every listed frame
is free, every free frame outside the block in flight is listed, blocks are
aligned (or the buddy would be the middle of something) and granted blocks are marked
`USED` throughout. So the invariant `Inv` is the conjunction of

* `TypeOK`; `NoRepeat`: no node is linked twice;
* `Aligned`, `Disjoint`: every granted, listed or in-flight block starts at a multiple of its
  size, and no two overlap;
* `ListedFree`, `FreeListed`: the fields and the lists agree, but for the block in flight;
* `HeldUsed`, `UsedOwned`: frames of granted blocks are `USED`, and all `USED` frames belong to
  a granted, reserved or leaked block;
* `CurFree`: the block in flight is not granted, and still large enough when being split;
* `RefsBelow`: owners never outnumber `reference_cnt`. The field is a signed `int` that nobody initialises
  (`include/mm.h` 56). What it holds at boot may make the count too high, and then a block leaks, but a negative value makes
  it too low: `free_pages` of one owner then frees the block under the other. This is the hypothesis
  `NoneNegative`, weaker than a zeroed table and needed; the code relies on memory it did not clear.

There is one lemma per action, resting on `Unlink` and `Link` (what removing and adding a node does
to the lists), on `BuddyFacts` (where the buddy of an aligned block lies) and on arithmetic
of multiples. `HeldStay` and `BuddyImplements` follow from the
invariant step by step: a split that ends maps to `Alloc`, `FreePages` of an owner to `Drop`,
`Share` and `Unshare` to `Share` and `Drop`, all else to stuttering.

The second part of the module proves the rest of `Buddy`'s invariants over this one:

| Theorem | Statement | Boot |
|---|---|---|
| `ListsAreExact` | `Spec => []ListsExact`: table, lists and `pg_free` agree | none negative |
| `RefsAreExact` | `Spec => []RefsExact`: `reference_cnt` counts the owners | zeroed |
| `DoubleFreesAreCaught` | `Spec => []DoubleFreeCaught` | zeroed |
| `FramesAreKept` | `Spec => []NoFrameLost` | zeroed |
| `AllocIsComplete` | `Spec => []AllocComplete`: coalescing is complete | zeroed |

Zeroed means the hypothesis `InitRefs = {0}`. Without it a block whose count is too high leaks,
and the last four are false. `Exact` (counts are exact, a hang means misuse, nothing leaked) carries the second and
third. For the fourth, `Cover` says that every frame lies in some block, and `Fresh` that frames are reserved while every block is
still one frame. For the fifth, `Coalesced` says that two buddies are never both listed on one list, except for single frames that the loop of
`buddy_init` has not come to. Then take the least order k for which some free aligned run of
2^k frames meets no listed block of that order or above: both halves meet one of order k - 1, and by alignment these are
the halves themselves, two buddies side by side. The least k stands in for induction, which the prover cannot do.

### KmallocProofs

For any pools, page size, number of pool pages and requests:

| Theorem | Statement |
|---|---|
| `TypeCorrect` | `Spec => []TypeOK` |
| `PoolsExactHolds` | `Spec => []PoolsExact`: a pool page is partitioned into free objects and objects in use, and `free_obj` counts the free ones |
| `PagesKeptHolds` | `Spec => []PagesKept`: a granted block is one pool page or one large object |
| `KmallocImplementsHeap` | `Spec => Implements`, if `Fits`: `Kmalloc` refines `Heap` |

The assumptions are those of `Kmalloc`: object sizes divide the page and grow with the pool. `Fits` says that nobody asks for
more than the largest block: `alloc_pages` serves such a request with one page, and its
object then overlaps others.

The properties count sets; the invariant `Inv` says where things lie instead. `PoolPages`: the page of a pool in use is
granted as a single frame, and `Split`: its list repeats nothing, holds only objects of the page, and an object is
listed if and only if it is not in use. `LargeBlocks`: any other object in use begins its own block, and every
granted block is one or the other. `Blocks`: granted blocks are apart, which is what
`PageAllocator` promises. `Apart`: no page serves two pools, no address two callers. With it the
address test of `kfree` finds one pool page or none: a multiple of the page size that is inside a pool page is its
first object, and a large object cannot begin there. Which pool serves a request rests on `GreatestClass` and
`LeastOf`, where well-founded orders stand in for induction.

### VmemProofs

For any finite sets of processes, pages and frames, any values, and either kind of TLB:

| Theorem | Statement |
|---|---|
| `TypeCorrect` | `Spec => []TypeOK`; in particular no count goes below zero |
| `CountsCovered` | `Spec => []CountsCover`: a count of 1 means one mapping, writable means unshared |
| `WritesAtHome` | `Spec => []WritesStayHome`: stale entries write only where their page still is |
| `VmemImplements` | `Spec => Implements`: `Vmem` refines `PrivateMemory` |

The assumptions are those of `Vmem`: the sets are finite, the kinds of pages disjoint, the text fits
into the frames. The invariant `Inv` is `TypeOK`, `CountsCover` and `WritesStayHome` with two more parts:

* `TlbBacked`: what the TLB knows, the table maps. The hardware decides by the TLB that an access faults
  on permission, the handler then reads the table: without this it would read an empty entry, and
  count down a frame that is none.
* `NothingKept`: a TLB that does not keep entries is empty, so that the hardware and the handler see the same entry.

The step lemmas count: `Mapping(f)` loses or gains exactly the page a fault moves, and a fork adds to
it as many as the parent has, which is what `copy_page_table` adds to the count. The refinement
holds step by step: `Access` maps to a read or write of one process's page alone because a writable entry has no other
mapping; faults, `Switch`, `Walk` and `Evict` map to stuttering; `Fork` to a copy. With a TLB that keeps entries
`PrivateMemory` promises nothing, and rightly: the parent may write through an entry older than the fork.

### VmaProofs

For any processes, page size, programs, requests and number of areas:

| Theorem | Statement |
|---|---|
| `ListSorted` | `ListSpec => []SortedDisjoint`: sorted and disjoint, as long as every request found room |
| `FaultsFindAreas` | `ListSpec => []FaultFindsArea`: the search of the fault handler finds the area |

They are theorems of `VmaList`, whose steps are steps of `Vma`, about the sequences its links lead through. The assumptions are those of `VmaSearch`: the text is a whole
number of pages and ends below the stack, the stack starts
at a page, and neither the stack nor a request reaches the point where addresses wrap.

`SortedDisjoint` is not inductive. `chk_vma_valid` computes the gap between
two areas in unsigned arithmetic, from an end it rounds up; in a list that is merely sorted,
rounding could pass the next area and the negative gap wrap to a huge one. So the invariant `Inv` says that
every area is `Sound` (starts at a page, does not end before its start, and ends below the wrap)
and every list `Sorted`; a fork hands both on to the child. Nothing is claimed of a list once `overlaid` is set, that is, once an area
was placed at 0 for want of a gap.

### ThreadsProofs

For any numbers of threads, signals, handler pages and calls, in any order of ticks, system calls and signals:

| Theorem | Statement |
|---|---|
| `TypeCorrect` | `Spec => []TypeOK`; in particular no frame is popped from an empty kernel stack |
| `OneHomeHolds` | `Spec => []OneHome`: a thread's list node is in one queue, once |
| `HandlersReturn` | `Spec => []MaskedFrame`: the frame at `ksp` is what the signal interrupted |
| `NobodyOvertakes` | `Spec => [][InOrder]_vars`: the run queue is first in, first out (what `RoundRobin` rests on) |
| `StackPagesHolds` | `Spec => []StackPages`: handlers have pages of their own |
| `DerailsOnlyIfHolds` | `Spec => []DerailsOnlyIf` |

The only assumptions are those of `Threads`. None of the properties is inductive. The invariant `Inv` is
`TypeOK` with

* `Homes`, which says of every state what `OneHome` says between dispatches: while
  `schedule` runs, the current thread is neither queued nor idle. Whoever is queued is `RUN`, so `schedule`
  takes the head: `NobodyOvertakes` follows;
* `Sound(t)`, the discipline of a kernel stack: a thread that does not execute has left a frame; the frame of an
  activity inside `uart_read` lies on another one, the frame of its svc, so that leaving the call finds one; while the
  thread is masked these frames are above `ksp`, so that nothing at or below `ksp` is popped before
  `sigreturn`; and while it is not, a tick has saved the top as `ksp`, which is what
  `run_posix` takes for granted. It holds whatever the programs do.

The last two need `Calm` besides: as long as nobody has made a stray sigreturn or forked inside a handler, what
a thread resumes is the program unless it is masked (`Plain`), and if it is, the frame at `ksp` is the program's and its page is
in use, mapped, counted and nobody else's (`OnPage`). So whoever makes `sigreturn` in a handler is masked, and frees the page
of that handler once.

### FilesProofs

For any processes, paths, archive, sizes, pool of struct files and number of calls:

| Theorem | Statement |
|---|---|
| `TypeCorrect` | `Spec => []TypeOK` |
| `ExclusiveHolds` | `Spec => []Exclusive`: who shares a struct file with whom, and that none is free while held |
| `TreeHolds` | `Spec => []Tree`: vnodes form trees, names are distinct, mounts lead to newer nodes |
| `PathsAreKept` | `Spec => PathsStay`: what a path names it names for good, but for mounts |
| `FilesImplementStore` | `Spec => Implements`: `Files` refines `FileStore` |
| `RunsUnlessMisused` | `Spec => [][Derailed]_vars`: the running kernel follows a bad pointer only at or after a misuse, or a struct file freed under a descriptor |
| `LostOnlyIfMisused` | `Spec => []LostOnlyIf`, if `Whole`: neither does the boot |
| `ArchiveIsUnpacked` | `Spec => ArchiveUnpacked`, if `Whole`: after the boot every archived file is found and holds its bytes |

A misuse is what `Files` calls `Misused`: closing a descriptor that shares a freed object, a whence other than `SEEK_SET`, and, where the kernel
derails on it, a number that is not open, an empty component, an unknown file system, a read or write of a directory, or beyond an end. The assumptions are those of `Files`. `Whole` is the hypothesis that the archive fits: every entry comes after its directory,
no path comes twice, no directory is given more than `MAX_ENTRY` names and the nodes suffice. It is needed:
`initramfs` does not look at what `open` returned, so a file whose directory is missing, or full, derails the
boot. TLC evaluates it for the checked archive (`ArchiveFits`).

* `Exclusive` is not inductive: `kmalloc` may hand out, to a file call or to the rest of
  the kernel, whatever its free list says. `Inv` adds for each struct file not yet freed under a descriptor (`Owned`)
  that it is on the free list at most once, and for each process that it is created with no descriptor (`Unborn`).
  `Forward` says that a position is before the start of the file only after a misuse.
* `Tree` rests on `Trees`: nodes are taken in order (`Low`), so a new root is newer than what it is mounted on
  and `vfs_mount` never closes a circle, which is why the walk over mounts in `Followed` ends; a slot is free if
  and only if its name is "" (`Slotted`); a node has one slot at most, a file one, a root none
  (`Parents`). That the node `get_vnode` returns exists and is a directory with a free slot when something is created
  needs its walk along the path to stay inside the tree. Recursion over a path is induction over data; the lemmas count instead: the
  components at which the claim fails are a set of naturals, and its least element (`Least`) has a predecessor.
* `PathsStay`: a creation changes one slot that was free, and a walk that succeeded never looked at it
  (`Grows`); a mount changes one node that led nowhere, and a walk that does not come by it is unchanged (`Covers`).
* The refinement needs `Promise`: struct files name nodes that exist (`Named`), devices have no buffer (`Blank`), nothing is open and no
  device exists while the archive is unpacked (`Early`), and a sound state has no position before the start of a file.
  Then `Open`, `Close`, `Seek`, `Write` and `Read` map to the same operations of `FileStore` if the descriptor names a file of
  tmpfs, `Spawn` to opening three descriptors at once if `/dev/uart` is such a file, and everything else to `Other`.
* The boot: `Building(n)` says that after n steps nothing is mounted and every step so far has made one node, step j the node j + 1, at
  its path, below the node of its directory's step, with its bytes. So each of the next step's guards is true:
  its directory is found, its name is not there, and a slot is free because fewer siblings came before than `MAX_ENTRY`.

### Fat32Proofs and DurableProofs

For any names, handles, sizes, FAT blocks, calls and cuts, at any point of a sync:

| Theorem | Statement | Cards |
|---|---|---|
| `ListsHold` | `Spec => [](Lists /\ Phase)`: a block is on the dirty list, once, if and only if it is flagged; clean FAT and directory blocks are those of the card | any |
| `CachesTrueHolds` | `Spec => []CachesTrue` | `OneClusterEach` |
| `NoCrossLinkHolds` | `Spec => []NoCrossLink`: no cluster has two files and none is free for a third, in memory and on the card | `OneClusterEach` |
| `FatImplementsDurable` | `Spec => Durable`: `Fat32` refines `DurableFiles` | `OneClusterEach` |

The assumptions are those of `Fat32`. The hypothesis on the cards is that each file on them has one allocated cluster of its
own and fits into it, and that the directory has no gaps. Without it files share clusters before the kernel does anything, and of a file of several clusters
`update_fileinfo` reads the wrong blocks. TLC evaluates it for the checked cards (`CardsOfOneCluster`), one of which gives an
empty file the cluster 0.

`CachesTrue` compares counts and sets; `Lists` says it entry by entry, and adds that what was not read holds
nothing (`Unread`, `Bare`), that an open handle has its slot of the parsed directory (`Handled`), and that a dirty block is
in memory (`Filled`). For the rest, `Clean` relates the three copies of a file's data: memory, directory block and card.

* `Plain`: the FAT, cached or not, has no chains; `Directory`: the parsed directory is what the block says, up to
  the 8 bits `create` leaves of a cluster number; `Titles`: names are distinct, and a name on the
  card is the name in memory at the same slot; `Blkids`: a file's first block is that of its cluster.
* `MemMarked` and `CardMarked`: the cluster of every named file is taken, in memory always and on the card outside a sync. This is why a
  new file's cluster is nobody else's (`Unshared`), and why it fails after a cut inside a sync (`torn`):
  the directory may have been written and the FAT not.
* `CleanData`: a clean data block is the card's, which must survive that another block is written: `Unshared` says it is another.

The refinement adds `Survives`: sizes on the card do not exceed those in memory, and a safe text can be
found both on the card and in memory, at every moment of a sync. A cut then loses only what was not safe. A `sync` maps to
`Sync` at its end and to stuttering before.

A step after which the promise is void maps to `Excuse`, so each of them has to be justified by the caller's
view of the files. A read, write or creation that goes astray is justified where it happens (`ReadExcused`,
`WriteExcused`, `CreateExcused`). A sync that derails is not: which earlier call is to blame? None is left, by
`Located`: as long as the promise stands, every dirty data block is the first of a file that has a cluster on
the card (`Written`) and every dirty FAT block is in memory (`FatsIn`), so such a sync finds all its blocks.

### Only model-checked

Liveness (`CallsReturn`, `Delivery`, `RoundRobin`, `AccessEnds`, `SyncEnds`): it involves fairness, which the prover does
not support. What the failing runs refute. `ListsAreAreas`: what one finds by following links is defined by recursion
over them. Everything else the passing runs check is a theorem.

## 5. Not modelled

* More than half of the repository's lines are the image in `user/programs/vfs2/img.h`. The rest
  also has string formatting (`sprintf.c`, `stdio.c`) and a program outside the kernel (`uart_boot.c`).
* Code nothing in the running kernel reaches: the timeout list of `timer.c`, the task list of `irq.c`, the
  interrupt-driven console with `queue.c`, the kernel shell, `pgtable.c`, `kill_zombies`, and a `__buddy_init` whose ranges of reserved memory overlap.
* Device registers: mailbox, clocks, watchdog, the set-up of the card. Parsing of read-only memory: device tree, cpio
  headers, partition table.
* Bytes: zeroing and copying are modelled where contents matter (`Vmem`, `Files`, `Fat32`), not in the
  allocators; messages and formatting are left out.
* The tree of the page table (its pages come from the same allocator and are never
  freed), the mailbox mapping and its bookkeeping in `user_stack` and `m_stack`.
* An exhausted pool below demand paging and handler stacks: `alloc_pages` returns
  NULL and the callers go on with it. The overflow of the 4096-byte kernel stack.
* FAT32: clusters of several sectors, directories below the root, names without a dot or longer than one long entry. A
  second mount: a program may mount `fat32` again (`src/vfs.c` 124-132, `src/fat32.c` 331-337) and gets a root with directory and data
  caches of its own over the same blocks. What `Fat32` says is said of the mount the boot makes, while there is no other.
  tmpfs: names longer than the kernel's buffers.
* A console read through its descriptor polls with interrupts masked and stops everybody until a key is pressed; this has no
  state for a property to speak about.

## 6. Plan

1. `CachesTrue` for cards with files of several clusters: `ListsHold` covers its lists, not the parsed directory.
2. `Vma` under `Vmem`: permissions from areas in place of the classes of pages.
3. Directories below the root in `Fat32`, and the VFS mount above it.
4. A joint instance of `Threads` and `Vmem` for the handler page after a fork.
