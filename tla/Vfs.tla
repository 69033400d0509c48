-------------------------------- MODULE Vfs --------------------------------
(***************************************************************************)
(* The virtual file system (kernel/src/vfs.rs) behind its entry points     *)
(* rust_vfs_open, _close, _read and _write (kernel/src/lib.rs).            *)
(*                                                                         *)
(* An entry point asks rust_check_capability, which takes and releases the *)
(* kernel mutex, and takes the mutex again for the operation: two steps,   *)
(* between which other sessions run and ticks pass.  rust_vfs_close checks *)
(* nothing.  A call that passes a buffer outside the user range, or fails  *)
(* the check, returns at once and changes nothing.                         *)
(*                                                                         *)
(* A path is a model value; the sets below say what its prefix is.  An     *)
(* ext2 file is the run of disk bytes its cached metadata names (module    *)
(* Ext2 reads it block by block).  Drive errors are not modelled: nothing  *)
(* here moves past the end of the disk.                                    *)
(***************************************************************************)
EXTENDS Drivers

CONSTANTS
    Sessions,
    Granted,        \* Granted[s]: which of FS_READ, FS_WRITE the session's token has
    Paths,
    InvalidPaths,   \* contain ".." or NUL
    DevPaths,       \* start with "/dev/"
    Devices,        \* the registered drivers, by path
    Ext2Files,      \* files of the mounted disk, by path: [at, len] in bytes
    Initramfs,      \* the files populate_from_initramfs inserts, by path
    Disk,           \* what /dev/hda holds at boot
    Chunks,         \* what callers write
    ReadSizes,      \* how much they read
    FB_LEN,         \* 4096
    MaxFd, MaxOffset    \* bounds of the model

ASSUME VfsAssumption ==
    /\ Granted \in [Sessions -> SUBSET {"FS_READ", "FS_WRITE"}]
    /\ InvalidPaths \subseteq Paths /\ DevPaths \subseteq Paths
    /\ DOMAIN Devices \subseteq DevPaths
    /\ \A p \in DOMAIN Devices : Devices[p] \in {"null", "urandom", "fb0", "hda"}
    /\ \A p, q \in DOMAIN Devices : Devices[p] = Devices[q] => p = q
    /\ DOMAIN Ext2Files \subseteq Paths \ DevPaths
    /\ \A p \in DOMAIN Ext2Files : /\ Ext2Files[p] \in [at : Nat, len : Nat]
                                  /\ Ext2Files[p].at + Ext2Files[p].len <= Len(Disk)
    /\ DOMAIN Initramfs \subseteq Paths \ (DevPaths \cup DOMAIN Ext2Files)
    /\ \A p \in DOMAIN Initramfs : Initramfs[p] \in Seq(Byte \ {0})
    /\ Disk \in Seq(Byte) /\ Len(Disk) % SectorSize = 0
    /\ Chunks \subseteq Seq(Byte \ {0}) /\ ReadSizes \subseteq Nat
    /\ FB_LEN \in Nat /\ MaxFd \in Nat \ 0 .. 2 /\ MaxOffset \in Nat

VARIABLES
    fd_tables,  \* fd_tables[s]: descriptor number -> descriptor
    ramfs,      \* path -> content
    next_fd,
    fb,         \* the buffer of /dev/fb0
    disk,       \* the bytes of /dev/hda
    expired,    \* sessions whose expiry_tick has passed
    calls,      \* calls[s]: the checked call that waits for the mutex
    status      \* "up", or "panicked" with the mutex held for ever

vars == <<fd_tables, ramfs, next_fd, fb, disk, expired, calls, status>>

NoCall == [op |-> "none"]

Init ==
    /\ fd_tables = [s \in Sessions |-> <<>>]
    /\ ramfs = Initramfs
    /\ next_fd = 3
    /\ fb = [k \in 1 .. FB_LEN |-> 0]
    /\ disk = Disk
    /\ expired = {}
    /\ calls = [s \in Sessions |-> NoCall]
    /\ status = "up"

-----------------------------------------------------------------------------
(* The check.                                                              *)

rust_check_capability(s, cap) == s \notin expired /\ cap \in Granted[s]

Begin(s, cap, call) ==
    /\ calls[s] = NoCall
    /\ rust_check_capability(s, cap)
    /\ calls' = [calls EXCEPT ![s] = call]
    /\ UNCHANGED <<fd_tables, ramfs, next_fd, fb, disk, expired, status>>

CallOpen(s) ==
    \E p \in Paths, w \in BOOLEAN :
        Begin(s, IF w THEN "FS_WRITE" ELSE "FS_READ", [op |-> "open", path |-> p, write |-> w])
CallRead(s) ==
    \E fd \in 3 .. next_fd, n \in ReadSizes :
        Begin(s, "FS_READ", [op |-> "read", fd |-> fd, size |-> n])
CallWrite(s) ==
    \E fd \in 3 .. next_fd, data \in Chunks :
        Begin(s, "FS_WRITE", [op |-> "write", fd |-> fd, data |-> data])

Return(s, op) == calls[s].op = op /\ calls' = [calls EXCEPT ![s] = NoCall]
Fail(s, op) == Return(s, op) /\ UNCHANGED <<fd_tables, ramfs, next_fd, fb, disk, expired, status>>

-----------------------------------------------------------------------------
(* open, close                                                             *)

\* HashMap::insert
insert(map, key, value) ==
    [k \in DOMAIN map \cup {key} |-> IF k = key THEN value ELSE map[k]]

Descriptor(path, write) == [path |-> path, is_writeable |-> write, offset |-> 0]

\* Opening for writing creates a file that is not there.
Created(call) ==
    IF call.write /\ call.path \notin DevPaths /\ call.path \notin DOMAIN ramfs
    THEN insert(ramfs, call.path, <<>>) ELSE ramfs

Opens(call) ==
    call.path \notin InvalidPaths /\ (call.path \in DevPaths \/ call.path \in DOMAIN Created(call))

\* Mutant: descriptors are numbered per session.
new_fd_per_session(s) ==
    CHOOSE fd \in 3 .. next_fd : fd \notin DOMAIN fd_tables[s]
                                 /\ \A k \in 3 .. fd - 1 : k \in DOMAIN fd_tables[s]

new_fd(s) == next_fd

Open(s) ==
    /\ Return(s, "open")
    /\ Opens(calls[s]) /\ next_fd < MaxFd
    /\ ramfs' = Created(calls[s])
    /\ fd_tables' = [fd_tables EXCEPT ![s] =
                        insert(@, new_fd(s), Descriptor(calls[s].path, calls[s].write))]
    /\ next_fd' = next_fd + 1
    /\ UNCHANGED <<fb, disk, expired, status>>
OpenError(s) == Fail(s, "open") /\ ~Opens(calls[s])

Close(s) ==
    /\ calls[s] = NoCall
    /\ \E fd \in DOMAIN fd_tables[s] :
          fd_tables' = [fd_tables EXCEPT ![s] =
                            [k \in DOMAIN fd_tables[s] \ {fd} |-> fd_tables[s][k]]]
    /\ UNCHANGED <<ramfs, next_fd, fb, disk, expired, calls, status>>

-----------------------------------------------------------------------------
(* read                                                                    *)

Device(p) == IF p \in DOMAIN Devices THEN Devices[p] ELSE "none"

read_device(p, off, n) ==
    CASE Device(p) = "null"    -> <<>>
      [] Device(p) = "urandom" -> urandom_read(n)
      [] Device(p) = "fb0"     -> Window(fb, off, n)
      [] Device(p) = "hda"     -> hda_read(disk, off, n)

Ext2Content(p) == SubSeq(disk, Ext2Files[p].at + 1, Ext2Files[p].at + Ext2Files[p].len)

\* A device, else a file of the disk, else a file of the RAM file system.
Readable(p) == p \in DOMAIN Devices \cup DOMAIN Ext2Files \cup DOMAIN ramfs
ReadData(p, off, n) ==
    CASE p \in DOMAIN Devices                          -> read_device(p, off, n)
      [] p \in DOMAIN Ext2Files                        -> Window(Ext2Content(p), off, n)
      [] p \in DOMAIN ramfs \ (DOMAIN Devices \cup DOMAIN Ext2Files)
                                                       -> Window(ramfs[p], off, n)

OnDisk(off, n) == off + n <= Len(disk)

Advance(s, fd, n) ==
    /\ fd_tables[s][fd].offset + n <= MaxOffset
    /\ fd_tables' = [fd_tables EXCEPT ![s][fd].offset = @ + n]

Read(s) ==
    /\ Return(s, "read")
    /\ calls[s].fd \in DOMAIN fd_tables[s]
    /\ LET d == fd_tables[s][calls[s].fd]
           n == calls[s].size
       IN  /\ Readable(d.path)
           /\ Device(d.path) = "hda" => OnDisk(d.offset, n) /\ InSectors(d.offset, n)
           /\ Advance(s, calls[s].fd, Len(ReadData(d.path, d.offset, n)))
    /\ UNCHANGED <<ramfs, next_fd, fb, disk, expired, status>>
ReadError(s) ==
    /\ Fail(s, "read")
    /\ calls[s].fd \notin DOMAIN fd_tables[s] \/ ~Readable(fd_tables[s][calls[s].fd].path)

-----------------------------------------------------------------------------
(* write                                                                   *)

check_fd_permission(s, fd) == fd \in DOMAIN fd_tables[s] /\ fd_tables[s][fd].is_writeable

\* Mutant: every write appends zeros up to its end.
Resized_always(content, end) == [k \in 1 .. Len(content) + end |-> IF k <= Len(content) THEN content[k] ELSE 0]

\* The file grown with zeros to reach end.
Resized(content, end) ==
    [k \in 1 .. Max({Len(content), end}) |-> IF k <= Len(content) THEN content[k] ELSE 0]

Writable(p) == IF p \in DevPaths THEN p \in DOMAIN Devices ELSE p \in DOMAIN ramfs

WriteRam(p, off, data) ==
    /\ p \in DOMAIN ramfs \ DevPaths
    /\ ramfs' = [ramfs EXCEPT ![p] = Overwrite(Resized(@, off + Len(data)), off, data)]
    /\ UNCHANGED <<fb, disk>>
WriteFb(p, off, data) ==
    /\ Device(p) = "fb0"
    /\ fb' = Overwrite(fb, off, data)
    /\ UNCHANGED <<ramfs, disk>>
WriteHda(p, off, data) ==
    /\ Device(p) = "hda" /\ OnDisk(off, Len(data)) /\ InSectors(off, Len(data))
    /\ disk' = hda_write(disk, off, data)
    /\ UNCHANGED <<ramfs, fb>>
\* /dev/null and /dev/urandom discard what is written.
WriteDiscard(p, off, data) == Device(p) \in {"null", "urandom"} /\ UNCHANGED <<ramfs, fb, disk>>

written(p, off, data) == IF Device(p) = "fb0" THEN fb0_write_len(fb, off, data) ELSE Len(data)

Write(s) ==
    /\ Return(s, "write")
    /\ check_fd_permission(s, calls[s].fd)
    /\ LET d == fd_tables[s][calls[s].fd]
           data == calls[s].data
       IN  /\ \/ WriteRam(d.path, d.offset, data)
              \/ WriteFb(d.path, d.offset, data)
              \/ WriteHda(d.path, d.offset, data)
              \/ WriteDiscard(d.path, d.offset, data)
           /\ Advance(s, calls[s].fd, written(d.path, d.offset, data))
    /\ UNCHANGED <<next_fd, expired, status>>
WriteError(s) ==
    /\ Fail(s, "write")
    /\ ~check_fd_permission(s, calls[s].fd) \/ ~Writable(fd_tables[s][calls[s].fd].path)

\* A transfer whose sector count does not fit its u8 indexes past the end of
\* the sector buffer.
TransferSize(s) == IF calls[s].op = "read" THEN calls[s].size ELSE Len(calls[s].data)
AtaPanic(s) ==
    /\ calls[s].op \in {"read", "write"}
    /\ calls[s].fd \in DOMAIN fd_tables[s]
    /\ calls[s].op = "write" => check_fd_permission(s, calls[s].fd)
    /\ LET d == fd_tables[s][calls[s].fd]
       IN  /\ Device(d.path) = "hda" /\ OnDisk(d.offset, TransferSize(s))
           /\ ~InSectors(d.offset, TransferSize(s))
    /\ status' = "panicked"
    /\ UNCHANGED <<fd_tables, ramfs, next_fd, fb, disk, expired, calls>>

-----------------------------------------------------------------------------
\* int 0x80: the session is an argument of the caller's.  Its open asks for
\* session 0, which no map ever holds, and never gets a descriptor.
rust_syscall_dispatch(s) == CallRead(s) \/ CallWrite(s) \/ Close(s)

\* The Linux layer's SyscallRouter makes the same three calls, for the session
\* it is given, and opens for that session.
route(s) == CallOpen(s) \/ rust_syscall_dispatch(s)

\* A tick moves tick_count past the session's expiry_tick.
Expire(s) ==
    /\ s \notin expired
    /\ expired' = expired \cup {s}
    /\ UNCHANGED <<fd_tables, ramfs, next_fd, fb, disk, calls, status>>

Next ==
    /\ status = "up"
    /\ \E s \in Sessions :
          \/ route(s)
          \/ Open(s) \/ OpenError(s)
          \/ Read(s) \/ ReadError(s)
          \/ Write(s) \/ WriteError(s)
          \/ AtaPanic(s)
          \/ Expire(s)

Spec == Init /\ [][Next]_vars

-----------------------------------------------------------------------------
(* Properties                                                              *)

Descriptors == [path : Paths, is_writeable : BOOLEAN, offset : 0 .. MaxOffset]

\* Every variable has the type the code gives it.
TypeOK ==
    /\ \A s \in Sessions : \A fd \in DOMAIN fd_tables[s] :
          fd \in 3 .. MaxFd /\ fd_tables[s][fd] \in Descriptors
    /\ DOMAIN ramfs \subseteq Paths \ DevPaths
    /\ \A p \in DOMAIN ramfs : ramfs[p] \in Seq(Byte)
    /\ next_fd \in 3 .. MaxFd
    /\ fb \in [1 .. FB_LEN -> Byte] /\ Len(disk) = Len(Disk) /\ disk \in Seq(Byte)
    /\ expired \subseteq Sessions
    /\ status \in {"up", "panicked"}

\* A descriptor number names one descriptor of one session, however opens and
\* closes of the sessions interleave, and the next one is still free:
\* VfsState::open numbers descriptors for all sessions together.
FdsUnique ==
    \A s \in Sessions : \A fd \in DOMAIN fd_tables[s] :
        /\ fd < next_fd
        /\ \A t \in Sessions \ {s} : fd \notin DOMAIN fd_tables[t]

\* Whatever mixture of descriptors read and write a RAM file, none ever stands
\* past its end, so the zeros that VfsState::write pads a file with are never
\* seen.  The same end holds for /dev/fb0, whose writes are cut short.
\* Paths under the mounted disk are excepted: read moves their offset by the
\* disk file's length (see ReadMatchesCat).
OffsetsInFile ==
    /\ \A s \in Sessions : \A fd \in DOMAIN fd_tables[s] :
          LET d == fd_tables[s][fd]
          IN  /\ d.path \in DOMAIN ramfs \ DOMAIN Ext2Files => d.offset <= Len(ramfs[d.path])
              /\ Device(d.path) = "fb0" => d.offset <= FB_LEN
    /\ \A p \in DOMAIN ramfs \ DOMAIN Ext2Files : ramfs[p] \in Seq(Byte \ {0})

\* What was stored outside the slice is kept.
SameOutside(new, old, from, to) ==
    \A k \in 1 .. Len(old) : k \notin from + 1 .. to => new[k] = old[k]

\* What is stored changes only under a descriptor that was opened for writing,
\* by a session that was granted FS_WRITE, and only in the bytes its offset
\* moves over: VfsState::write, and the read-modify-write of whole sectors in
\* AtaDriver::write, leave every other byte alone.
OnlyWritersWrite ==
    [][\A p \in Paths :
          LET old == IF p \in DOMAIN ramfs THEN ramfs[p] ELSE
                     IF Device(p) = "hda" THEN disk ELSE IF Device(p) = "fb0" THEN fb ELSE <<>>
              new == IF p \in DOMAIN ramfs' THEN ramfs'[p] ELSE
                     IF Device(p) = "hda" THEN disk' ELSE IF Device(p) = "fb0" THEN fb' ELSE <<>>
          IN  new # old =>
              \E s \in Sessions : \E fd \in DOMAIN fd_tables[s] :
                  /\ fd_tables[s][fd].path = p /\ fd_tables[s][fd].is_writeable
                  /\ "FS_WRITE" \in Granted[s]
                  /\ SameOutside(new, old, fd_tables[s][fd].offset, fd_tables'[s][fd].offset)]_vars

\* The largest transfer that needs fewer than CountMod sectors wherever in a
\* sector it starts.
SafeTransfer == (CountMod - 2) * SectorSize + 1

\* Only a transfer of more than that brings the kernel down: AtaDriver computes
\* its sector count and the slice of its sector buffer so that they agree at
\* every smaller size and every offset.
SmallTransfersComplete ==
    status = "panicked" =>
        \E s \in Sessions : calls[s].op \in {"read", "write"} /\ TransferSize(s) > SafeTransfer

\* The text cat prints for a path: the RAM file first (rust_vfs_cat_print).
CatContent(p) == IF p \in DOMAIN ramfs THEN ramfs[p] ELSE Ext2Content(p)

\* kernel/shell.zig:42, "cat <path>            Print file contents": what cat
\* prints is what reading the open file from its start returns.  Violated: read
\* looks on the mounted disk first, cat in the RAM file system, and opening a
\* path of the disk for writing puts an empty RAM file beside it.
ReadMatchesCat ==
    \A s \in Sessions : \A fd \in DOMAIN fd_tables[s] :
        LET p == fd_tables[s][fd].path
        IN  p \in DOMAIN Ext2Files => CatContent(p) = ReadData(p, 0, Ext2Files[p].len)

=============================================================================
