# A TLA+ model of the Lofita kernel

Lofita is a small x86_64 kernel: hardware code in Zig (`arch/`, `boot/`, `drivers/`, `mm/`,
`init/`, `kernel/shell.zig`), a policy core in Rust (`kernel/src/`), and a Linux compatibility
layer in Rust (`compat/linux/`). This directory holds TLA+ modules translated from that source,
TLC configurations that check them on small instances, and theorems that TLAPS proves for every
value of the constants. `PROJECT.json` maps every definition to the lines it models.

The kernel runs on one CPU. `kernel_main` initialises everything and then runs the shell for
ever; concurrency comes from interrupts, from the interleaving of sessions between two uses of
the kernel mutex, and from threads switched by the timer tick.

## 1. Inventory

| Part | State it keeps | Operations | Talks to | What is hard | What makes it correct |
|---|---|---|---|---|---|
| Keyboard driver, `drivers/keyboard.zig` | ring buffer with head and tail, modifier flags | IRQ1 handler, `ring_put`, `read_key` | the shell reads the ring; the PIC delivers IRQ1 and waits for the EOI | the handler interrupts `read_key` between any two accesses; ring full and wrap; an exit without EOI | the ring is a bounded FIFO queue; every key is read |
| Shell, `kernel/shell.zig` | the line buffer | edit, run a command, `hlt` | calls the Rust core with interrupts enabled | `hlt` after a stale answer of `read_key`; the line's limit | the line stays in its buffer; the shell does not sleep through a key |
| Rust core, `kernel/src/lib.rs`, `token.rs`, `session.rs`, `capability.rs` | tokens, sessions, areas (VMAs), tick counter | create a child token, run, allocate, check a capability, spawn, tick | page allocator, page tables, scheduler | expiry while sessions and children still refer to a token; failure halfway; address arithmetic | memory is given back exactly once and on time; addresses are handed out once |
| Scheduler, `sched.rs` | thread queue, active thread | spawn, `schedule_next` | called by the tick and by IPC | fairness while threads block and wake; saved contexts | no Ready thread is passed over for a round; a thread resumes where it stopped |
| IPC, `ipc.rs` | per port a message queue and a queue of blocked threads | send, receive | sets thread states in the scheduler | lost and stolen wake-ups, queue limit | nobody sleeps beside a message |
| Page allocator, `mm/ppa.zig` | order and free flag for each page | init, alloc, free, count | everyone who needs frames | splitting and merging over long sequences | blocks lie in the pool, are large enough and disjoint; no page is lost |
| Page tables, `arch/x86_64/mm/paging.zig` | tables in physical memory; the TLB | map, unmap | page allocator; the processor | running out of table pages halfway; pages handed out twice; stale TLB entries; huge entries taken for tables | one function from pages to frames, as the processor sees it |
| Interrupts and boot, `init/main.zig`, `idt.zig`, `drivers/pic.zig` | interrupt flag, PIC vectors, masks, in-service bits, kernel mutex | boot steps, raise, deliver, handle, EOI, stop | everything above | a handler that needs the mutex of the code it interrupted; order of `sti` and remapping; commands that do not come back | no self-deadlock; IRQs reach their gates; keys are answered until the CPU stops |
| Compression, `compress.rs` | none | compress, decompress and their C entry points | `rust_kernel_init` unpacks the initramfs | counts of one byte, small buffers | decompress undoes compress |
| VFS, `vfs.rs` and `rust_vfs_*` | RAM files, descriptor tables, next descriptor number | open, close, read, write, cat | devices, ext2, capabilities | check and operation in separate critical sections; several descriptors of one file | descriptors are unique; only writers write; files have no gaps |
| Devices, `driver.rs`, `drivers/ata.zig` | framebuffer, disk | read, write | VFS, ext2 | sector read-modify-write, u8 sector count | only the addressed bytes change |
| Ext2, `fs/ext2.rs` | superblock and group descriptors | mount, read an inode, resolve a path, list | `/dev/hda` | four ranges of pointers, the cut last block; deleted, stale and damaged directory records, unchecked slices; inode and group arithmetic | content is read in order and in full; a path leads where the records say; calls end |
| ELF loaders, `kernel/src/elf_loader.rs`, `compat/linux/src/elf_loader.rs` | none | load | page allocator and tables | failure halfway, unchecked mappings and stack allocation, clipped slices, flag bits with two meanings | a load that reports Ok is what the file says; only a malformed file panics |
| Address spaces, `vasm.rs` and the #PF gate | the areas of a token | register an area, page fault | page allocator and tables, expiry in the tick | rounding, ignored failures, areas that replace each other | all of a program's own memory is asked for; freed frames are not mapped |
| Linux layer, `compat/linux/src/syscall` | program break and limit, one for all processes | route a system call, brk, mmap, fork, socket | Rust core, VFS | the break and the memory behind it; rights after expiry | the limit lies in memory of whoever moved it; lost rights stay lost |
| VGA, serial, PCI, GDT, boot code, web stub, SDK | output or boot-time constants | | | | not modelled, section 8 |

## 2. Modules

| Module | Models | Uses |
|---|---|---|
| `KeyQueue` | abstract: a bounded FIFO queue between handler and reader | |
| `Keyboard` | IRQ1 handler and `shell_main` | implements `KeyQueue` |
| `KeyTables` | the driver's two scancode tables | |
| `KeyboardProofs` | theorems about `Keyboard` and `Interrupts` | `Keyboard`, `Interrupts` |
| `Sched`, `SchedProofs` | the thread queue as operators, and lemmas on them | |
| `Kernel` | the Rust core | `Sched` |
| `KernelProofs` | theorems about `Kernel` and `Linux` | `Linux`, `SchedProofs` |
| `Ipc`, `IpcProofs` | ports, thread states and the tick | `Sched`, `SchedProofs` |
| `Ppa` | the buddy allocator | |
| `PageMap` | abstract: one function from pages to frames | |
| `Paging` | four-level tables, the hardware walk, the TLB | implements `PageMap` |
| `PagingProofs` | theorems about `Paging` and `Ppa` | `Paging`, `Ppa` |
| `Interrupts` | boot order, PIC, gates, kernel mutex | |
| `Rle` | the run-length codec, loop by loop | |
| `Drivers` | the character devices as operators on byte sequences | |
| `Vfs`, `VfsProofs` | descriptors, RAM files, the entry points and the system calls for files | `Drivers` |
| `Ext2` | `read_inode_data`, loop by loop | |
| `Ext2Dir` | `mount`, `get_inode`, `resolve_path`, `list_dir`, `ls` | `Ext2` |
| `FileProofs` | theorems about `Rle`, `Ext2` and `Ext2Dir` | `Rle`, `Ext2Dir` |
| `Linux` | brk, mmap, fork, socket of the Linux layer, interleaved with the Rust core | `Kernel` |
| `Elf` | `load_elf` in both versions, step by step | |
| `Process`, `ProcessProofs` | a loaded program: lazy areas, page faults, expiry | `Elf` |
| `MC*` | instances for TLC | |

How state and actions correspond to the code, where it is not one to one:

* **Keyboard.** `read_key` is four actions (`LoadHead`, `LoadTail`, `ReadSlot`, `StoreTail`), one
  per access that the handler can come between; the handler is one action, because its gate keeps
  interrupts off, preceded by `Accept`, in which the PIC delivers the byte. `Edit` and
  `ExecuteLine` are the arms of `shell_main`'s switch, `Hlt` is the `hlt`.
* **Kernel.** Every exported function holds the kernel mutex for its whole body, so each is one
  action, guarded by its conditions of success; a failing call changes nothing. Memory is counted
  in pages. `phys_alloc` may return any run of frames of the pool: `Ppa` shows no more than that.
  `page_table` holds the pairs asked of `page_table_map` and not unmapped since; `AllocateMemory`
  and `load_elf` let any subset of the calls succeed, because the code ignores the result. `held` is
  history: every block `phys_alloc` gave out and `phys_free` did not take back, with the token whose
  area it is, or owner 0 for a segment or a stack of `load_elf`, which no VMA records and nothing ever
  frees. A load that fails keeps the blocks of the segments before (`LoadFails`); a stack for which
  there is no block is mapped to physical pages 0 and 1 (`NullStack`).
* **Ipc.** `Spec` describes callers that wait until they are Ready before they ask again,
  `PollSpec` callers that ask in a loop (`rust_ipc_recv` returns 0 at once, so both are possible).
  Nothing in the repository calls the two entry points yet.
* **Interrupts.** A command of the shell is a start and an end with the mutex held in between and
  interrupts enabled, as `kernel().lock()` leaves them. Nothing obliges it to end. `Reboot` is `cli`
  and `hlt` of the commands reboot and exit, `CommandDies` a panic or a CPU exception in a call into
  Rust: interrupts stay off and the mutex stays taken.
* **Vfs.** An entry point is two actions, the capability check and the operation, because
  `rust_check_capability` releases the mutex. `Expire` lets a session end in between. Paths are
  names; sets say which prefix they have.
* **Paging.** `Translate` is the processor's walk over the bytes that the code wrote; `Access` and
  `Evict` fill and empty the TLB. Pages from `phys_alloc` hold `Junk` until they are cleared. Three
  things are not the manager's to prevent: `phys_alloc(1)` may return any page of the pool, one that
  is a table already too; whoever else was given that page may write it (`Overwritten`); and below
  2 GB `ensure_table` walks into the memory at 0 and 1 GB, whose bytes nothing clears, some of which
  may look like present entries (`Strays`). Each of them leads to `status = "lost"`, where the
  model ends. What is checked and proved is what holds until then, for every choice of the allocator
  that does not lead there. With `ppa.zig` such a choice does come: run `ppa_overlap`.
* **Ext2, Rle.** Each pass of a loop is one action, the stack of running loops or the position is
  the state. `Rle` runs the two entry points one after the other (`stage`), or the second one alone on
  bytes that no `compress` wrote.
* **Ext2Dir.** A behaviour mounts one of several disks and makes one call. Directory data is a
  sequence of slots, each with a record; `rec_len` counts slots, so stale records in the slack of
  another are there to be met by a wrong step. `need` is the number of slots that header and name of a
  record take; slicing them where they pass the end of the data panics (`overruns`), with the mutex
  held. `text` is `from_utf8(..).unwrap_or("")`. Fields are abstracted from their byte offsets. What a
  path should lead to is stated without slots and steps: `Lookup` takes the least record of that name,
  `Trail` looks up one part after the other, `Names` goes through the records of a directory.
* **Linux.** `LinuxNext` is `Kernel`'s next-state relation with the calls added. Nothing constructs
  `SyscallRouter`; its break is a field while the process is an argument of each call, so the model
  lets one router serve all sessions. `heap_owner` is history.
* **Elf.** A file is its identification, type, length and headers; memory remembers which file byte
  each cell came from, so that copying and clearing are visible. The two versions differ in
  `MapSegmentPage` and `stack_flags`. Each allocation and each mapping may fail. `phys_alloc` gives any
  run of frames of the pool, held or not, which is what `Ppa` shows of it; `clash` records that a
  frame was given to two holders, here or to another caller (`Reissued`). `mappings` is what
  `page_table_map` was asked for and returned 0 for; what the processor makes of such a request,
  nothing below 2 GB for one, is the matter of `Paging` (section 6). Flags are bit numbers: `segment_flags`,
  `stack_flags` and `vma_flags` compose them as each caller does, `pte_rights` reads them as
  `page_table_map` does.
* **Process.** Adds the token's areas and page faults. A fault may come at any address, mapped or not
  (no page of the first 512 GB is open to user mode, section 6): `DemandPage` backs an area, `Halt` is
  every other outcome. `mem_alloc` has no caller in the repository and is called with any size and
  address from a set; an area that is not apart from the program is a `clash` too. `tails`, `starved`
  and `clash` are history.

## 3. Runs

| Run | Checks | Bounds and why they suffice |
|---|---|---|
| `keyboard` | `TypeOK`, `ReaderOwnsSlot`, refinement `RingIsQueue`, liveness `KeysDelivered` | ring of 3 (holds 2, so it fills and wraps), line of 2, eight scancodes: prefix, both shift keys, caps lock, a letter down and up, Enter, Backspace |
| `kernel_memory` | `TypeOK`, `BlocksAccounted`, `NoDanglingMapping`, `VmasDisjoint` | 3 tokens, a session, 2 threads, a tick at which every timed token made before it expires, 2 frames, areas of 0 to 2 pages, token spans of 2 pages so that spans run into each other, an ELF file whose segment and stack overlap the pages of token 1 and each other |
| `linux` | `TwoRunsEach`, `LimitIsMemory`, action properties `ReclaimedOnTime`, `RefusedForGood` | 3 tokens, 3 sessions, two capabilities, 2 ticks so that parents, sessions and heap owners expire, a clock modulo 3 so that a lifetime of 2 wraps it; pages of 2 bytes and two break addresses, so that a break falls inside and at the end of a page |
| `ipc` | `BlockedIsQueued`, `NoLostWakeup`, `BoundedWait` | 2 ports, 3 threads, queues of 2 messages: two receivers at one port and one elsewhere |
| `ppa` | `BlocksInPool`, `NoPageLost` | two maximal blocks of 4 pages, 4 clients, requests 0, 1, 2, 3, 5 (none, exact, rounded, too large) |
| `interrupts` | `NoSelfDeadlock`, `DeliveredToGate`, liveness `KeyAnswered` | timer, keyboard and one other line; commands that end, run for ever, reboot or die |
| `rle` | `DecompressorFaithful`, `RoundTrip` | all inputs up to length 6 over 3 byte values with counts of 2 bits, so runs of 4 and more must be split; buffers of 0, 4, 6, 20 |
| `vfs` | `FdsUnique`, `OffsetsInFile`, `SmallTransfersComplete`, action property `OnlyWritersWrite` | a session that may write and one that may only read, 2 descriptors, a RAM file, three devices, an unregistered device and a refused path; sectors of 2 bytes, sector counts modulo 3 |
| `paging` | `IdentityMapped`, `TlbCoherent`, `TablesNotShared`, refinement `ImplementsPageMap` | tables of 3 entries, 5 pool pages (two for boot; the others run out), each full of entries that look present, pages that share all, two, one or no tables and two below 2 GB, one of them behind a stray entry |
| `ext2` | `ReadInOrder`, `ResolvesAsNamed`, `ListsWhatResolves`, liveness `ReadInFull`, `CallsEnd` | 2 bytes per block, 2 pointers per block, 2 direct pointers, sizes at and next to every range's end, up to two zero pointers anywhere; disks of one and two groups (full, partly full, miscounted, unsigned) with deleted, stale, damaged and overlong records and a name that is no text, paths of up to two names |
| `process` | `LoadedAsTheFileSays`, `PanicOnlyIfMalformed`, `OwnPagesAsked`, `FreedPagesUnmapped` | pages of 2 cells, 6 frames, blocks that start at every other one (they run out and are handed out twice), both loaders, files of up to two segments: aligned and not, with cleared cells, cut by the file's end, beyond it, too large, empty, moved and not; areas of 1.5 and 2 pages at two addresses one page apart, so that they overlap, and a quota for one or two of them |
| `ppa_overlap` | violated: `AllocationsDisjoint` | see section 6 |

What they show, in words:

* `ReaderOwnsSlot`: between the load of a slot and the store of `ring_tail` no interrupt
  overwrites the slot. `RingIsQueue`: seen from outside, the ring is the queue of `KeyQueue`;
  characters are dropped only when it is full. `KeysDelivered`: a character in the ring is read.
* `BlocksAccounted`: a block that is out belongs to an area of a token in the map, or `load_elf` took
  it, for good; and the block of every area is out. `NoDanglingMapping`: a mapped page lies in a block
  of `load_elf`, or it belongs to an area of a token in the map and maps to that area's frame.
  `VmasDisjoint`: no two areas share a page unless a token outgrew its span. `ReclaimedOnTime`: a timed
  token is in the map exactly until the first tick after its expiry; where tick plus lifetime wraps,
  that is the tick after its creation.
* `TwoRunsEach`: at most two sessions for a token, each with a thread of its own number.
* `BlockedIsQueued`, `NoLostWakeup`: a thread is Blocked exactly while a port knows it, and no
  message waits beside a sleeping receiver. `BoundedWait`: no Ready thread is passed over for as
  many ticks as there are threads.
* `BlocksInPool`: a block lies inside the pool and is large enough. `NoPageLost`: although inner pages
  are handed out twice (section 6), a page in nobody's block is always in one that is free.
* `LimitIsMemory`: the byte below the heap limit is in a writable area of the token that moved it,
  while that token lives. `RefusedForGood`: a session that was refused a socket stays refused.
* `NoSelfDeadlock`: a handler never waits for the mutex of the code it interrupted. `DeliveredToGate`:
  no IRQ is taken for an exception. `KeyAnswered`: a key pressed while the shell is up is answered,
  however long a command runs, unless the CPU stops for good.
* `OffsetsInFile`: no descriptor stands past the end of its file, so zero padding is never seen.
  `OnlyWritersWrite`: bytes change only under a descriptor opened for writing by a session with
  `FS_WRITE`, and only the bytes its offset moves over. `SmallTransfersComplete`: only a transfer
  larger than the sector count can express stops the kernel.
* Until the tables are lost: `ImplementsPageMap`: above 2 GB a map call changes one translation or none
  and an unmap call clears one. `TlbCoherent`: no cached translation is stale. `TablesNotShared`: the
  tables are a tree, whatever the pages held before. `IdentityMapped`: the first 2 GB stay, although
  calls for pages there write into ordinary memory.
* `ReadInOrder`, `ReadInFull`: up to the first hole, what is read is the file's bytes in order,
  and all of them. The code's behaviour behind a hole (later data moves forward) is not judged: no
  text of the repository says what it should be. `ResolvesAsNamed`, `ListsWhatResolves`: both loops
  agree with a lookup in the list of records, and a listed name can be resolved, except "", which is
  shown for a name that is not UTF-8 and which no path asks for. `CallsEnd`: only a record of length 0
  keeps a search from ending, and a panic needs a superblock that counts too few groups or a name that
  does not fit into its record; stale bytes never cause one.
* `PanicOnlyIfMalformed`: a file that was merely cut short does not panic. The other three speak of the
  time before a clash. `LoadedAsTheFileSays`: after Ok each segment is in the frames that were asked for
  at its place, complete, and with flag bits that `page_table_map` reads as the header's rights (in the
  kernel's version unless a mapping failed, which it does not notice). `OwnPagesAsked`: between them the
  loader, demand paging and expiry leave out no page of the program's segments, stack and areas and no
  right of it, unless memory or tables ran out. `FreedPagesUnmapped`: expiry leaves no page of a freed
  block mapped except a last, partial one.

`CHECK_DEADLOCK FALSE` stands where the system stops: a reboot command, a panic, the end of a
call, or the bound on ticks or descriptors.

The type invariants of `Ipc`, `Ppa`, `Vfs` (`TypeOK`) and `Elf` (`ElfTypeOK`) hold on the same instances; they
are not among the runs. Those of `Ipc`, `Vfs` and `Elf` are theorems, that of `Ppa` is part of a proved
invariant (section 5).

Other bounds: `MaxTick`, `MaxTokens`, `MaxSessions`, `MaxThreads`, `MaxUsed` (Kernel), `MaxThreads`
and `MaxRip` (Ipc), `MaxFd` and `MaxOffset` (Vfs), `MaxLen` (Rle: the longest input). They appear in guards and are
constants of the theorems, which hold for every value.

## 4. Fairness

* `Keyboard`: weak fairness of the handler, because the CPU does not stop inside it; strong
  fairness of the shell, because bytes come milliseconds apart and interrupts do not occupy the
  CPU for ever; weak fairness of `Accept`, because a key that is pressed is released some time.
  Without the last one `KeysDelivered` fails: the shell may sleep on a character until the next
  interrupt.
* `Interrupts`: `kernel_main` boots, a handler that may go on does (weak fairness), the timer keeps
  raising IRQ0, and the PIC delivers a line that can be delivered again and again (strong fairness).
  Nothing is asked of commands: they may run for ever, and they may stop the CPU.
* `Ext2`, `Ext2Dir`: the loops go on (weak fairness of the next-state relation).

No other run uses fairness.

## 5. What is proved

TLAPS checks these for every value of the constants that the named assumptions allow.

**KeyboardProofs** (`RingAssumption`, `LineAssumption`, `TableAssumption`): `TypeCorrect`,
`SlotOwned`, `RingRefinesQueue`. The inductive invariant adds two facts to `TypeOK` and
`ReaderOwnsSlot`. `StaleHeadIsSafe`: the head that `read_key` loaded may be stale by the time it
loads the tail, but if the two differ then the ring is not empty, since the handler only moves the
head away. `OneKeyInHand`: the shell holds no key except while it edits the line, so it asks for one only when it holds none. The refinement
rests on two lemmas about the ring's content as a sequence: a successful `ring_put` appends
(`PutContents`) and `StoreTail` removes the first element (`GetContents`), both by arithmetic on
indices modulo the ring's size.

Also in this module, about `Interrupts` (`IrqAssumption`, `TickAssumption`): `MutexNeverSelfLocks`,
`IrqsReachGates`. The invariant `SetUp` relates the position in `kernel_main` to the vectors, masks and
the interrupt flag: interrupts are enabled only after the remapping and the mask, so a handler that is
running is never the timer's. This is why the mutex is safe, and it would stop being so as soon as IRQ0
is unmasked.

**SchedProofs**: lemmas on the thread queue as a data structure. `schedule_next` rotates the queue
behind the first Ready thread, loses and duplicates no thread and sets one to Running; `spawn`
appends one with a new id. `KernelProofs` and `IpcProofs` rest on them.

**KernelProofs** (`SetAssumption`, `LayoutAssumption`, `BoundAssumption`, for the Linux layer
`LinuxAssumption`).

* `TypeCorrect`, `EveryBlockAccounted`, `NoDangling`, `AddressesDisjoint`. The inductive invariant is
  `TypeOK`, `BlocksAccounted`, `NoDanglingMapping` and `VmaLayout`: each area lies between its token's
  base and what the token has used, and those of one token are apart. `VmasDisjoint` is not inductive; it
  follows from `VmaLayout` and from the order of the bases (`SpanOrder`), which is where the page-aligned
  offset below `ASLR_PAGES` enters. `NoDangling` needs `BlocksAccounted` and the layout: when a token
  expires, unmapping its pages must not leave a page of its areas mapped, and must be allowed to remove
  pages of another token whose span ran into it, or of a program that was loaded there.
* `AtMostTwoRuns`. `TwoRunsEach` counts sessions while the code counts runs; `SInv` joins the two:
  `run_count` is the number of sessions of the token (`RunsCounted`), every session names a token that
  exists (`SessionsOwned`, without which a new token could start with sessions already there), and
  threads are only moved or added (`ThreadsKept`).
* `ExpiryOnTime`, for every lifetime, those included with which the code's wrapping addition passes
  2^64. `NotOverdue` says that every timed token in the map is still within its time (`Due`): what a
  tick removes was due at exactly that tick, and what it leaves is not yet due. Being on time is thus
  stated in both directions. `LinuxExpiryOnTime` says the same under the Linux calls.
* `LinuxKeepsCore`: brk, mmap and fork are steps of the core with arguments of their own, so all of
  the above holds under them as well. `HeapLimitIsMemory` adds that tokens in the map only gain areas
  and that ids are not given out twice (`MemoryKept`): the area that holds the limit is there until its
  token goes. `RefusalsStand` adds that sessions keep token and expiry and are active from the start
  (`SessionsKept`, `SessionsOwned`): a refusal then means that the session has expired or that its token
  lacks the capability, and nothing undoes either.

**IpcProofs** (`IpcAssumption`): `IpcTyped`, `BlockedThreadsQueued`, `WakeupsKept`, `RoundRobin`, `WaitersAreWoken`.
About callers that wait (`Spec`). `QueuesOK` says that blocked lists and thread states agree from both
sides and that no thread is listed twice; `WokenOK`, that a thread woken for a message is Ready until it
asks. Neither `BlockedIsQueued` nor `NoLostWakeup` is inductive without them. For `BoundedWait` the
invariant `PassedOK` ties the count to the position: the ticks a thread was passed over plus its place in
the queue never exceed the queue's length. `WaitersAreWoken` is `SendWakesReceiver`, which callers that
poll break (section 6): the theorem says that waiting is all it takes.

**PagingProofs** (`PagingAssumption`): `TablesApart`, `LowStaysMapped`, `TlbNeverStale`, `RefinesPageMap`. Nothing is
assumed of the allocator or of what pages hold: the statements are about the time until the tables are
lost, and the step that loses them is `Lost` of `PageMap`, which promises
nothing from then on. The inductive invariant states that there is a level
for every table page such that present entries point one level down and no two of them to the same page
(`Tree`): the tables are a tree, through every call that ran out of pages half way. The levels are
quantified, not stored, as the code keeps none; each step of `ensure_table` provides the level of the page
it took, whose old content is cleared before an entry points to it. From the tree, a write to one entry
changes the walk of one virtual page, which is why one `invlpg` per call suffices and why each call is one
step of `PageMap` or none. Huge entries occur in the two places boot wrote and nowhere else.

Also in this module, about `Ppa` (`PpaAssumption`: the pool is a whole number of maximal blocks):
`BuddyBlocksInPool`, `BuddyLosesNoPage`. Neither statement is inductive. `PpaInv` adds that a client's block
starts at a multiple of its size (merging, which starts there, would otherwise reach past the pool) and
that every page is `Reachable`: in a free block, or in a block whose holder will find the entry as it was
when it was given out. The second alternative is what carries the proof, because the
code does hand out pages inside free blocks (section 6): an allocation may overwrite the entry of
another's block, or a merge may swallow it, and what that holder can then no longer bring back must be
covered by a free block. A merge is described by the orders it grows through (`GrowsTo`); that an aligned
block and its buddy make the aligned block of the next order comes from laws of `shl` proved here by
induction on the order.

**VfsProofs** (`VfsAssumption`, `DriverAssumption`): `VfsTyped`, `FdsStayUnique`, `OffsetsStayInFile`,
`OnlyLargeTransfersPanic`, `OnlyWritersStore`. Between the capability check and the operation a call waits
with its arguments, so the invariant says what a waiting call holds (`CallsOK`: a write that waits was
granted). `OffsetsInFile` needs that RAM files are never removed (`FilesStay`): a file created anew would
be shorter than offsets left on it. For the disk, lemmas on `hda_read` and `hda_write` show for every
sector size and offset that the sector count covers the transfer and that the read-modify-write of
whole sectors gives back every byte outside it.

**ProcessProofs** (`ElfAssumption`, `ProcessAssumption`):

* `ElfTyped`, `OnlyMalformedFilesPanic`, `FreedFramesUnmapped`. The invariant `IInv` says where the loader is
  and what it holds there (`Control`), whatever `phys_alloc` hands out; and, until there is a clash, who
  owns a frame (`Owned`): while the token lives a frame that is free is not mapped, and a frame of an
  area's block is mapped by the area's own page only, so that expiry unmaps it with the area.
* `FilesLoadFaithfully`, `OwnMemoryAsked`. `LInv` adds the loader's progress until there is a clash
  (`UntilClash`): the scan for the lowest address, the content of the block at hand, every page asked for
  so far, and that nothing else is mapped yet; then that the stack and the areas that were faulted in are
  asked for unless memory ran out. No hypothesis is made on the areas: one that is not at a page border
  or not clear of the stack and of the file's segments is a clash, which `mem_alloc` does not check.

**FileProofs** (`RleAssumption`, `Ext2Assumption`, `Ext2DirAssumption`): what loops compute, for data of
every length.

* `DecompressionIsFaithful`, `CodecRoundTrips`. `Expands` says what a sequence of pairs stands for by
  places: `Expanded(s)[k]` is the number of bytes of the first `k` pairs. `RleInv` says of both loops that
  the pairs consumed or written so far stand for the bytes so far; that a run is never longer than a
  count can hold enters in `RunLen`. A sequence of pairs stands for one sequence of bytes only
  (`OneExpansion`), which gives the round trip.
* `FilesReadInOrder`. `ReadInv` says that either all bytes before the first hole have been read, or the
  reading is on track (`OnTrack(e)`): the loops on the stack, from the innermost outwards, have before
  them the file's blocks from number `e[1]` on, then those from `e[2]` on, and so on, without a gap, and
  what is read ends at the border of block `e[1]`. A loop that ends at a zero pointer leaves the second alternative for
  the first: every block behind that pointer is a hole (`ZeroIsHole`). The blocks under a list of pointers
  (`Leaves`) follow those of the pointers before it (`LeavesSplit`) by the arithmetic of `Below`.
* `PathsResolveAsNamed`, `ListingResolves`, with names of every kind and records of every length. `DirInv` says that the inode at hand is the one the parts so far
  lead to (`OnTheTrail`), that a search stands at the slot of a record, never at one that is stepped over,
  and that no record before it has the name (`Scanning`), and that a listing has the names of the
  records before it (`Listing`). `DirWalk` gives the slot of each record; `InodeIs` shows that group and index
  computed by `get_inode` lead to the place of the inode in the tables laid end to end.

`Ext2DirAssumption` gives the constants the types that the fields have on a disk and says that every group
has `inodes_per_group` inodes; it does not say that records, lengths or counts make sense.

Induction is by the least counterexample (`LeastOf`), since the library's induction theorems cannot be
used with these provers. A recursively written function is not assumed to be what it is written as: that
the recursion has a solution is proved first (`RecursionExists`, `SumExists`, `ShlExists`), for `FlattenSeq`
of the library as well (`FlattenGrows`).

The inductive invariants hold under TLC on the instances of the runs (with bounds on what `ReadInv` and
`DirInv` quantify over). Every
invariant and action property that a passing run checks is stated by a theorem. Model-checked only is
liveness, which is beyond this prover: `KeysDelivered`, `KeyAnswered`, `ReadInFull`, `CallsEnd`.

## 6. Where the code and its text disagree

One run is expected to fail:

* `ppa_overlap`. `ppa_init` marks every page free at order 0 and gives only the first page of each
  maximal block its order. A later request of one page finds such an inner page and hands it out
  although the block around it is free, and will be handed out as well.

The modules state further expectations that the code does not meet. TLC shows the counterexample with
the named configuration, with this statement in place of the properties it lists (the configurations
that belong to no run list it already):

| Statement | Configuration | What happens |
|---|---|---|
| `HaltOnlyWhenEmpty`, `kernel/shell.zig:245` "No key available - halt the CPU" | `MCKeyboard` | a key arrives between `read_key` and `hlt` and waits for the next interrupt |
| `TickAdvances`, `kernel/src/lib.rs:112` "incremented by timer ISR" | `MCInterrupts` | `keyboard_init` masks IRQ0 and nothing unmasks it |
| `ExecKeepsKernelUp`, `kernel/shell.zig:43` "Execute an ELF binary" | `MCKernelExec` | without a session 1, `rust_spawn_process` asks for token 0, which never exists, and panics |
| `WithinQuota`, `kernel/src/token.rs:48` | `MCKernelQuota` | `rust_allocate_memory` does not call `check_quota` |
| `Inheritance`, `run_simulation.py:519-521` "Parent token not found" | `MCLinux` | a token created under a parent that has left the map gets whatever privilege and capabilities are asked for (`lib.rs:269` skips the checks) |
| `ExpiredTokenGrantsNothing`, `run_simulation.py:629` | `MCKernelExpiry` | a session keeps its expired token's capabilities until it expires itself |
| `SendWakesReceiver`, `kernel/src/ipc.rs:57` "Wake a blocked receiver if one exists" | `MCIpcPoll` | a thread that asks twice is queued twice and takes a later wake-up |
| `ResumesWhereStopped`, `kernel/src/sched.rs:96` "Preempted" | `MCIpcResume` | no code saves the registers of a preempted thread |
| `FreePagesBounded`, `kernel/shell.zig:52` | `MCPpaOverlap` | `free_pages` counts pages inside free blocks again and exceeds the total |
| `UserPagesAccessible`, `paging.zig:247` "bit1=user" | `MCPaging` | entry 0 of the PML4 lacks the user bit |
| `WriteXorExecute`, `kernel/src/lib.rs:367` "Enforce W^X policy" | `MCPagingExec` | bit 0 means "present" to the caller and "writable" to `page_table_map` |
| `ReadMatchesCat`, `kernel/shell.zig:42` "Print file contents" | `MCVfsCat` | `read` asks the mounted disk first, `cat` the RAM files |
| `MapTakesEffect`, `paging.zig:106` "Map `virtual_addr` → `physical_addr` with the given flags" | `MCPaging` | below 2 GB the boot mapping uses 1 GB entries; `ensure_table` takes one for a table and writes below it, and the processor goes on using the 1 GB page. The addresses `rust_allocate_memory` computes lie in this range |
| `BreakIsMemory`, `compat/linux/src/syscall/mod.rs:113` "program break (heap expansion)" | `MCLinux` | the break moves up from 0x40000000 while memory comes from the token's own span: below the break there is nothing |
| `ExpiryUnmapsAll`, `kernel/src/vasm.rs:86` | `MCProcess` | the fault handler rounds the pages of an area up, `rust_kernel_tick` (lib.rs:593) down: the last page stays mapped to a freed frame |
| `StackNotExecutable`, `kernel/src/elf_loader.rs:224` "RW, User (Flags: 7 = Present \| R/W \| User)" | `MCProcess` | to `page_table_map` 7 is writable, user and executable |
| `EverySegmentMapped`, `elf_loader.rs:6` "maps each PT_LOAD segment" | `MCProcess` | a segment whose address is not at a page border is copied to the start of the block, and its last page may be left out |
| `EveryCallEnds`, `fs/ext2.rs:316` (`list_dir` stops) | `MCExt2` | at a record of length 0 `resolve_path` stays for ever, with the kernel mutex held |
| `DirectBlocksOnly`, `fs/ext2.rs:176` "Only support direct blocks" | `MCExt2` | the comment is out of date: indirect blocks are read |

## 7. Plan

Done: keyboard and shell, Rust core with scheduler, IPC, page allocator, page tables, interrupts and
boot, codec, VFS with devices, ext2 with directories, both ELF loaders, page faults, the Linux layer;
the theorems of section 5.

Next: **the tables after they were lost**, a composition of `Ppa` and `Paging` in which the pages that
`phys_alloc` hands out twice are followed as tables and as data at once.

## 8. Not modelled

* VGA, serial port, PCI enumeration: output, or read once and printed; nothing else reads them.
* GDT and boot code: constants written once, before anything is concurrent.
* The port protocol of `ata.zig`: represented by what a sector transfer leaves in the buffer; drive
  errors are not represented.
* Which access of the core faults or panics: in `Interrupts` any call into Rust may. The exception
  handlers print and halt.
* What tables do after one of their pages was handed out again, overwritten or walked through as stray
  bytes (section 7).
* The byte layout of superblock, group descriptors, inodes, directory records and ELF headers: the
  fields are there, their offsets are not.
* The wrappers of `compat/linux/src/syscall/fs.rs` and `MemorySyscalls::sys_mmap`: no caller;
  `munmap`, `exit`, `execve`, `ioctl` and the identity calls answer with constants.
* `terminate_thread`, `Token::cleanup`: no caller.
* The printing commands, and what `ls` shows of RAM files and devices: they change nothing.
* `web.rs`, `sdk/`: a fixed page drawn by an object that does not outlive the call, and wrappers
  around an instruction.
* `run_simulation.py`: a second implementation for demonstrations, used here as a text that says
  what the kernel intends.
* `populate_from_initramfs`: represented by the RAM files of the initial state.
