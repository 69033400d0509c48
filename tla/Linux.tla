-------------------------------- MODULE Linux --------------------------------
(***************************************************************************)
(* The Linux system calls of compat/linux/src/syscall over the Rust core:  *)
(* SyscallRouter::route with brk, mmap, fork, socket and connect.  Read,   *)
(* write, open and close go to the rust_vfs_* calls (module Vfs).  The     *)
(* other numbers answer with a constant: munmap, exit, execve, ioctl and   *)
(* the identity calls change nothing anywhere, and have no action.         *)
(*                                                                         *)
(* Nothing in the repository constructs the router.  Its heap_brk and      *)
(* heap_limit are fields of the router while the process is an argument of *)
(* every call, so here one router serves every session.  The break and the *)
(* limit are byte addresses, memory is counted in pages as in Kernel.      *)
(***************************************************************************)
EXTENDS Kernel

CONSTANTS
    PAGE_SIZE,      \* 4096
    HEAP_START,     \* 0x4000_0000, the break and the limit at first
    Breaks,         \* the break addresses callers pass
    Lengths,        \* the lengths callers pass to mmap (bytes)
    NET_CONNECT,    \* the capability sockets ask for
    FORK_LIMIT,     \* 64 MB, in pages
    FORK_CAPS,      \* 0b0001_1111: the first five capabilities
    FORK_TICKS      \* 100_000

ASSUME LinuxAssumption ==
    /\ PAGE_SIZE \in Nat \ {0} /\ HEAP_START \in Nat \ {0}
    /\ Breaks \subseteq Nat /\ Lengths \subseteq Nat
    /\ NET_CONNECT \in Caps
    /\ FORK_LIMIT \in Nat /\ FORK_CAPS \subseteq Caps /\ FORK_TICKS \in Nat

VARIABLES
    heap_brk, heap_limit,
    heap_owner      \* history: whose memory was last added to the heap, 0 for none

heap_vars == <<heap_brk, heap_limit, heap_owner>>
linux_vars == <<vars, heap_vars>>

LinuxInit ==
    /\ Init
    /\ heap_brk = HEAP_START /\ heap_limit = HEAP_START
    /\ heap_owner = 0

-----------------------------------------------------------------------------
Pages(bytes) == (bytes + PAGE_SIZE - 1) \div PAGE_SIZE

\* Mutant: the limit moves up from where it was.
limit_after_contiguous(t, needed) == heap_limit + needed

\* The end of the area rust_allocate_memory returned, as it was asked for.
limit_after(t, needed) == virtual_addr(t) * PAGE_SIZE + needed

\* sys_brk inside the limit.  brk(0) asks for the break; below it is EINVAL.
BrkWithin(new_brk) ==
    /\ new_brk # 0 /\ new_brk >= heap_brk /\ new_brk <= heap_limit
    /\ heap_brk' = new_brk
    /\ UNCHANGED <<vars, heap_limit, heap_owner>>

\* sys_brk past the limit; without memory it is ENOMEM.
BrkGrow(t, new_brk) ==
    /\ new_brk >= heap_brk /\ new_brk > heap_limit
    /\ LET needed == new_brk - heap_limit
       IN  /\ AllocateMemory(t, Pages(needed), "rw")
           /\ heap_limit' = limit_after(t, needed)
    /\ heap_brk' = new_brk /\ heap_owner' = t

\* sys_mmap: the access comes from PROT_WRITE and PROT_EXEC; both at once are
\* refused by rust_allocate_memory.
Mmap(t, length, access) ==
    /\ AllocateMemory(t, Pages(length), access)
    /\ UNCHANGED heap_vars

\* sys_fork: a child token of the caller's, and no process.
Fork(s) ==
    /\ CreateChildToken(s, 3, sessions[s].token, FORK_LIMIT, FORK_CAPS, FORK_TICKS)
    /\ UNCHANGED heap_vars

LinuxNext ==
    \/ Next /\ UNCHANGED heap_vars
    \/ /\ status = "up"
       /\ \/ \E b \in Breaks : BrkWithin(b)
          \/ \E t \in 1 .. MaxTokens, b \in Breaks : BrkGrow(t, b)
          \/ \E t \in 1 .. MaxTokens, n \in Lengths, a \in Accesses : Mmap(t, n, a)
          \/ \E s \in DOMAIN sessions : Fork(s)

LinuxSpec == LinuxInit /\ [][LinuxNext]_linux_vars

-----------------------------------------------------------------------------
(* Properties *)

\* sys_socket and sys_connect ask rust_check_capability at every call.
sys_socket(s) == check_capability(s, NET_CONNECT)

\* The break is shared by every process and moves with whoever called brk last;
\* still its limit is in memory: while the token that paid for it is in the map,
\* the byte below heap_limit is in a writable area of that token.
LimitIsMemory ==
    heap_owner \in live =>
        \E v \in tokens[heap_owner].vmas :
            /\ v.access = "rw"
            /\ v.start_addr * PAGE_SIZE < heap_limit
            /\ heap_limit <= (v.start_addr + v.size) * PAGE_SIZE

\* A session that was once refused a socket is refused for ever: no tick,
\* activation, fork or load brings a right back to a session that lost it.
RefusedForGood ==
    [][\A s \in DOMAIN sessions : ~sys_socket(s) => ~sys_socket(s)']_linux_vars

\* compat/linux/src/syscall/mod.rs:113, "program break (heap expansion)": below
\* the break is memory of the token that moved it.
BreakIsMemory ==
    heap_owner \in live =>
        \A b \in HEAP_START .. heap_brk - 1 :
            \E v \in tokens[heap_owner].vmas : b \div PAGE_SIZE \in VPages(v)

=============================================================================
