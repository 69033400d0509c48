------------------------------- MODULE Kernel -------------------------------
(***************************************************************************)
(* The Rust core (kernel/src/lib.rs): tokens, sessions, the memory a token *)
(* owns, and the timer tick that reclaims expired tokens and schedules.    *)
(*                                                                         *)
(* Every exported function takes the one kernel mutex for its whole body,  *)
(* so each is one atomic action.  A call that fails returns 0 and changes  *)
(* nothing; the conditions of success are the guards.                      *)
(*                                                                         *)
(* Memory is counted in pages of 4096 bytes.  Physical blocks come from    *)
(* phys_alloc: null, or any run of frames of the pool.  That is all module *)
(* Ppa shows of it (its blocks may overlap), so nothing here rests on more.*)
(* The page table is what was asked of page_table_map and not unmapped     *)
(* since, as pairs <<virtual page, frame>> (module Paging has the tables). *)
(*                                                                         *)
(* Left out: names, is_deprecated and children (never read), pml4 (0 for   *)
(* every token these functions create, so activate never switches CR3).    *)
(* vasm_handle_page_fault changes nothing here: every VMA has its block    *)
(* already (the lazy mem_alloc has no caller), and then it returns false.  *)
(***************************************************************************)
EXTENDS Integers, Sequences, FiniteSets, Sched

CONSTANTS
    Caps,           \* the capability flags that exist
    RawBits,        \* the bits a caller may pass: Caps and undefined ones
    PrivilegeVals,  \* the privilege values a caller may pass
    Limits,         \* memory limits callers pass (pages)
    Lifetimes,      \* lifetimes callers pass (ticks)
    Sizes,          \* allocation sizes callers ask for (pages)
    Accesses,       \* the accesses they ask for
    Frames,         \* the physical frames of the pool
    Images,         \* the ELF files: each the set of its segments
    STACK_AT,       \* the first page of a program's stack
    USER_BASE,      \* 0x2000_0000, in pages
    TOKEN_SPAN,     \* 0x100_0000 bytes between two tokens' bases, in pages
    ASLR_PAGES,     \* 1024: the offset is below it
    TICK_MOD,       \* 2^64: tick arithmetic wraps
    MaxTokens, MaxSessions, MaxThreads, MaxTick, MaxUsed    \* bounds of the model

ASSUME SetAssumption ==
    /\ Caps \subseteq RawBits
    /\ PrivilegeVals \subseteq Nat
    /\ Limits \subseteq Nat /\ Lifetimes \subseteq Nat
    /\ Sizes \subseteq Nat /\ Frames \subseteq Nat
    /\ Images \subseteq SUBSET [at : Nat, pages : Nat]
    /\ Accesses \subseteq {"ro", "rw", "rx", "rwx"}
ASSUME LayoutAssumption ==
    USER_BASE \in Nat /\ STACK_AT \in Nat /\ TOKEN_SPAN \in Nat \ {0} /\ ASLR_PAGES \in Nat \ {0}
ASSUME BoundAssumption ==
    /\ TICK_MOD \in Nat \ {0} /\ MaxTick \in Nat /\ MaxTick < TICK_MOD
    /\ MaxTokens \in Nat /\ MaxSessions \in Nat /\ MaxThreads \in Nat /\ MaxUsed \in Nat

VARIABLES
    tokens,         \* the tokens ever created; the id is the position
    live,           \* the ids in state.tokens: an expired token is removed
    sessions,       \* the sessions; the id is the position
    scheduler,      \* the Scheduler record of module Sched
    tick_count,
    held,           \* the blocks phys_alloc gave out and phys_free did not take
    page_table,     \* pairs <<virtual page, frame>>
    status          \* "up", or "panicked" with the kernel mutex held for ever

vars == <<tokens, live, sessions, scheduler, tick_count, held, page_table, status>>

Root == 1
Privilege == 0..3       \* Root, Admin, User, Process
Wrap(n) == n % TICK_MOD

Vma == [start_addr : Nat, size : Nat \ {0}, phys_ptr : Nat,
        access : {"ro", "rw", "rx"}]
\* parent (the id the caller gave) and born (the tick of creation) are history:
\* the code keeps a weak reference to the parent and never reads it.
Token == [privilege : Privilege, parent : Nat, capabilities : SUBSET Caps,
          memory_limit : Int, memory_used : Nat, vmas : SUBSET Vma,
          is_permanent : {"permanent", "timed"}, expiry_tick : Nat, run_count : 0..2,
          born : Nat]
Session == [token : Nat, expiry_tick : Nat, is_active : {"active", "inactive"}]

VPages(v) == v.start_addr .. v.start_addr + v.size - 1

\* The physical block of a VMA; owner and at say which call of phys_alloc it is.
Block(t, v) == [owner |-> t, at |-> v.start_addr, ptr |-> v.phys_ptr, pages |-> v.size]

-----------------------------------------------------------------------------
(* rust_kernel_init: the Root token, id 1.  usize::MAX is written -1.      *)
RootToken ==
    [privilege |-> 0, parent |-> 0, capabilities |-> Caps,
     memory_limit |-> -1, memory_used |-> 0, vmas |-> {},
     is_permanent |-> "permanent", expiry_tick |-> TICK_MOD - 1, run_count |-> 0,
     born |-> 0]

Init ==
    /\ tokens = <<RootToken>> /\ live = {Root}
    /\ sessions = <<>>
    /\ scheduler = NewScheduler
    /\ tick_count = 0
    /\ held = {} /\ page_table = {}
    /\ status = "up"

-----------------------------------------------------------------------------
\* The two checks of rust_create_child_token.  A parent that has expired is
\* not in state.tokens, and then nothing is checked.
may_inherit(p, priv, flags) ==
    p \in live => /\ tokens[p].privilege <= priv
                  /\ flags \subseteq tokens[p].capabilities

\* PrivilegeLevel of a raw value: everything above 2 is Process.
to_privilege(val) == IF val <= 2 THEN val ELSE 3

\* rust_create_child_token: the caller's session must hold the parent token.
CreateChildToken(caller, priv, parent, limit, flags, lifetime) ==
    /\ Len(tokens) < MaxTokens
    /\ caller \in DOMAIN sessions /\ sessions[caller].token = parent
    /\ may_inherit(parent, priv, flags)
    /\ tokens' = Append(tokens,
           [privilege |-> to_privilege(priv),
            parent |-> parent,
            capabilities |-> flags \cap Caps,
            memory_limit |-> limit, memory_used |-> 0, vmas |-> {},
            is_permanent |-> "timed",
            expiry_tick |-> Wrap(tick_count + lifetime), run_count |-> 0,
            born |-> tick_count])
    /\ live' = live \cup {Len(tokens) + 1}
    /\ UNCHANGED <<sessions, scheduler, tick_count, held, page_table, status>>

\* Mutant: a third run is allowed.
run_limit_off_by_one(t) == tokens[t].run_count <= 2

may_run(t) == tokens[t].run_count < 2

\* rust_run_process: at most two runs; each makes a session and a thread.
RunProcess(t, lifetime) ==
    /\ Len(sessions) < MaxSessions /\ Len(scheduler.threads) < MaxThreads
    /\ t \in live /\ may_run(t)
    /\ tokens' = [tokens EXCEPT ![t].run_count = tokens[t].run_count + 1]
    /\ sessions' = Append(sessions, [token |-> t,
                                     expiry_tick |-> Wrap(tick_count + lifetime),
                                     is_active |-> "active"])
    /\ scheduler' = spawn(scheduler, Len(sessions) + 1)
    /\ UNCHANGED <<live, tick_count, held, page_table, status>>

(***************************************************************************)
(* get_aslr_offset(id ^ memory_used), in pages.  memory_used is a multiple *)
(* of 4096 bytes and the low ten bits of the generator's result depend     *)
(* only on the low ten bits of its seed, so the offset depends on id alone *)
(* (1103515245 % 1024 = 621, 12345 % 1024 = 57).                           *)
(***************************************************************************)
get_aslr_offset(id) == (621 * id + 57) % ASLR_PAGES

Base(id) == USER_BASE + id * TOKEN_SPAN + get_aslr_offset(id)

\* Mutant: the address does not move with memory_used.
virtual_addr_fixed(t) == Base(t)

virtual_addr(t) == Base(t) + tokens[t].memory_used

\* Mutant: the last page of a block may lie past the end of the pool.
phys_alloc_past_end(pages) ==
    {f \in Frames : pages > 0 /\ f .. f + pages - 2 \subseteq Frames}

\* What phys_alloc may return: the first frame of a run; only null for 0.
phys_alloc(pages) ==
    {f \in Frames : pages > 0 /\ f .. f + pages - 1 \subseteq Frames}

\* rust_allocate_memory.  The result of page_table_map is ignored: it succeeds
\* for some of the pages (mapped).  A null from phys_alloc changes nothing.
AllocateMemory(t, pages, access) ==
    /\ t \in live
    /\ access # "rwx"
    /\ tokens[t].memory_used + pages <= MaxUsed
    /\ \E phys \in phys_alloc(pages), mapped \in SUBSET (0 .. pages - 1) :
         LET v == [start_addr |-> virtual_addr(t), size |-> pages,
                    phys_ptr |-> phys, access |-> access]
         IN  /\ held' = held \cup {Block(t, v)}
             /\ page_table' =
                    {e \in page_table : e[1] \notin {v.start_addr + i : i \in mapped}}
                      \cup {<<v.start_addr + i, phys + i>> : i \in mapped}
             /\ tokens' = [tokens EXCEPT ![t] = [tokens[t] EXCEPT
                    !.vmas = tokens[t].vmas \cup {v},
                    !.memory_used = tokens[t].memory_used + pages]]
    /\ UNCHANGED <<live, sessions, scheduler, tick_count, status>>

\* The page at each distance i of a block of load_elf, and the block; owner 0.
Pairs(at, ptr, pages) == {<<at + i, ptr + i>> : i \in 0 .. pages - 1}
ImageBlock(at, ptr, pages) == [owner |-> 0, at |-> at, ptr |-> ptr, pages |-> pages]

\* What load_elf leaves once phys_alloc has given it these blocks: it ignores what
\* page_table_map answers, and of two segments in one page the last one mapped
\* stays.  No VMA records a block, and nothing ever frees one.
LoadBlocks(blocks, pairs) ==
    /\ held' = held \cup blocks
    /\ \E m \in SUBSET pairs :
         /\ \A e, f \in m : e[1] = f[1] => e = f
         /\ page_table' = {e \in page_table : e[1] \notin {f[1] : f \in m}} \cup m

SegmentBlocks(taken, phys) == {ImageBlock(s.at, phys[s], s.pages) : s \in taken}
SegmentPairs(taken, phys) == UNION {Pairs(s.at, phys[s], s.pages) : s \in taken}

\* Frames for some segments of the file, one run each.
Placements(taken) == {phys \in [taken -> Frames] : \A s \in taken : phys[s] \in phys_alloc(s.pages)}

\* load_elf ends at a segment it has no block for, with an error or in a panic; the
\* segments before it stay where they are.
LoadFails(image) ==
    /\ \E taken \in SUBSET image : \E phys \in Placements(taken) :
         LoadBlocks(SegmentBlocks(taken, phys), SegmentPairs(taken, phys))
    /\ status' \in {"up", "panicked"}
    /\ UNCHANGED scheduler

\* The null that phys_alloc may return for the stack is not looked at: then the two
\* stack pages map physical pages 0 and 1, and there is no block.
NullStack == Pairs(STACK_AT, 0, 2)
ElfFrames == Frames \cup {0, 1}

LoadEnds(image) ==
    /\ \E phys \in Placements(image) :
         \/ \E ptr \in phys_alloc(2) :
               LoadBlocks(SegmentBlocks(image, phys) \cup {ImageBlock(STACK_AT, ptr, 2)},
                          SegmentPairs(image, phys) \cup Pairs(STACK_AT, ptr, 2))
         \/ LoadBlocks(SegmentBlocks(image, phys), SegmentPairs(image, phys) \cup NullStack)
    /\ scheduler' = spawn(scheduler, 1)
    /\ UNCHANGED status

\* rust_spawn_process, for a file that was found, in session 1.  Only a complete
\* load gets a thread.
SpawnProcess(image) ==
    /\ 1 \in DOMAIN sessions /\ Len(scheduler.threads) < MaxThreads
    /\ LoadFails(image) \/ LoadEnds(image)
    /\ sessions' = [sessions EXCEPT ![1].is_active = "active"]
    /\ UNCHANGED <<tokens, live, tick_count>>

\* Without a session 1 it asks for token 0, which no map ever holds, and panics.
SpawnPanic ==
    /\ 1 \notin DOMAIN sessions /\ Images # {}
    /\ status' = "panicked"
    /\ UNCHANGED <<tokens, live, sessions, scheduler, tick_count, held, page_table>>

-----------------------------------------------------------------------------
is_expired(t, now) == tokens[t].is_permanent = "timed" /\ now > tokens[t].expiry_tick

\* Mutant: a token dies one tick early.
expired_early(now) ==
    {t \in live : tokens[t].is_permanent = "timed" /\ now >= tokens[t].expiry_tick}

expired_tokens(now) == {t \in live : is_expired(t, now)}

VmasOf(T) == UNION {tokens[t].vmas : t \in T}

\* The calls phys_free(vma.phys_ptr, vma.size / 4096) for the VMAs of T.
freed(T) == UNION {{Block(t, v) : v \in tokens[t].vmas} : t \in T}

\* Mutants: like Token::cleanup, only the first page of a VMA is unmapped; the
\* block of a VMA is not given back.
reclaim_first_page(T) ==
    /\ held' = held \ freed(T)
    /\ page_table' = {e \in page_table : e[1] \notin {v.start_addr : v \in VmasOf(T)}}
reclaim_no_free(T) ==
    /\ held' = held
    /\ page_table' = {e \in page_table : e[1] \notin UNION {VPages(v) : v \in VmasOf(T)}}

\* Every page of every VMA is unmapped, every block is freed.
reclaim(T) ==
    /\ held' = held \ freed(T)
    /\ page_table' = {e \in page_table : e[1] \notin UNION {VPages(v) : v \in VmasOf(T)}}

\* Mutant: activating a session also renews it.
activate_renews(s) ==
    LET k == FirstReady(scheduler)
    IN  IF ReadyAt(scheduler) = {} THEN s
        ELSE [s EXCEPT ![scheduler.threads[k].session_id].expiry_tick = tick_count + 2]

\* Session::activate of the scheduled thread's session.
activate(s) ==
    LET k == FirstReady(scheduler)
    IN  IF ReadyAt(scheduler) = {} THEN s
        ELSE [s EXCEPT ![scheduler.threads[k].session_id].is_active = "active"]

\* rust_kernel_tick.
KernelTick ==
    /\ tick_count < MaxTick
    /\ tick_count' = tick_count + 1
    /\ LET expired == expired_tokens(tick_count + 1)
       IN  /\ live' = live \ expired
           /\ tokens' = [t \in DOMAIN tokens |->
                  IF t \in expired THEN [tokens[t] EXCEPT !.vmas = {}] ELSE tokens[t]]
           /\ reclaim(expired)
    /\ scheduler' = schedule_next(scheduler)
    /\ sessions' = activate(sessions)
    /\ UNCHANGED status

Next ==
    /\ status = "up"
    /\ \/ \E caller \in 1 .. MaxSessions, priv \in PrivilegeVals, parent \in 1 .. MaxTokens,
             limit \in Limits, flags \in SUBSET RawBits, lifetime \in Lifetimes :
             CreateChildToken(caller, priv, parent, limit, flags, lifetime)
       \/ \E t \in 1 .. MaxTokens, lifetime \in Lifetimes : RunProcess(t, lifetime)
       \/ \E t \in 1 .. MaxTokens, pages \in Sizes, access \in Accesses :
             AllocateMemory(t, pages, access)
       \/ \E image \in Images : SpawnProcess(image)
       \/ SpawnPanic
       \/ KernelTick

Spec == Init /\ [][Next]_vars

\* rust_check_capability
check_capability(s, cap) ==
    /\ s \in DOMAIN sessions
    /\ sessions[s].is_active = "active" /\ tick_count <= sessions[s].expiry_tick
    /\ cap \in tokens[sessions[s].token].capabilities

-----------------------------------------------------------------------------
(* Properties *)

\* Every variable has the type the code gives it; a held block starts at a frame
\* of the pool.
TypeOK ==
    /\ tokens \in Seq(Token) /\ live \subseteq 1 .. Len(tokens)
    /\ sessions \in Seq(Session)
    /\ scheduler \in Scheduler
    /\ tick_count \in 0 .. MaxTick
    /\ held \subseteq [owner : Nat, at : Nat, ptr : Frames, pages : Nat \ {0}]
    /\ page_table \subseteq Nat \X ElfFrames
    /\ status \in {"up", "panicked"}

\* The blocks that are out are those of the VMAs of the tokens in the map, and those
\* load_elf took (owner 0) for good.  rust_kernel_tick neither leaks a block of an
\* expired token nor frees one twice or with another size, whatever expires together.
BlocksAccounted ==
    /\ \A b \in held : b.owner # 0 =>
          b.owner \in live /\ \E v \in tokens[b.owner].vmas : b = Block(b.owner, v)
    /\ \A t \in DOMAIN tokens : \A v \in tokens[t].vmas : t \in live /\ Block(t, v) \in held

\* The mapping of a page by a VMA.
MapsTo(v, e) == e[1] \in VPages(v) /\ e[2] = v.phys_ptr + (e[1] - v.start_addr)

\* The mapping of a page by load_elf, to a block that nobody has given back.
MapsImage(e) ==
    e \in NullStack \/ \E b \in held : b.owner = 0 /\ e \in Pairs(b.at, b.ptr, b.pages)

\* No mapping outlives its memory: a page that is mapped lies in a block load_elf
\* still holds, or it belongs to a VMA of a live token and maps to the frame of
\* that VMA at the same distance.
NoDanglingMapping ==
    \A e \in page_table :
        MapsImage(e) \/ \E t \in live : \E v \in tokens[t].vmas : MapsTo(v, e)

\* A token whose memory has grown out of its own TOKEN_SPAN.
Spilled(t) == get_aslr_offset(t) + tokens[t].memory_used > TOKEN_SPAN

\* Virtual addresses are handed out once: two VMAs of one token never share a
\* page, and those of two tokens do only after one outgrew its span.
VmasDisjoint ==
    \A t, u \in live : \A v \in tokens[t].vmas, w \in tokens[u].vmas :
        (VPages(v) \cap VPages(w) # {} /\ v # w) =>
            (t # u /\ (Spilled(t) \/ Spilled(u)))

\* rust_run_process admits two runs of a token over its whole life; every session
\* has a thread, and no two threads share an id, wherever the ticks have rotated
\* them and whatever rust_spawn_process added.
TwoRunsEach ==
    /\ \A t \in DOMAIN tokens :
          Cardinality({s \in DOMAIN sessions : sessions[s].token = t}) <= 2
    /\ \A s \in DOMAIN sessions :
          \E i \in DOMAIN scheduler.threads : scheduler.threads[i].session_id = s
    /\ \A i, j \in DOMAIN scheduler.threads :
          scheduler.threads[i].id = scheduler.threads[j].id => i = j

\* The last tick a token lives through: its expiry, or, when tick + lifetime has
\* wrapped past the present, the tick it was created in.
Due(t) == IF tokens[t].expiry_tick < tokens[t].born THEN tokens[t].born
          ELSE tokens[t].expiry_tick

\* A token leaves the map on the first tick after its expiry and on no other, and a
\* permanent one never: none is found there once the clock has passed its time.
ReclaimedOnTime ==
    [][\A t \in live :
          t \in live' <=> (tokens[t].is_permanent = "permanent" \/ tick_count' <= Due(t))]_vars

\* token.rs:48, "Checks if adding `size` bytes would exceed the token's memory
\* limit": no token uses more than its limit.
WithinQuota ==
    \A t \in live : tokens[t].memory_limit >= 0 =>
        tokens[t].memory_used <= tokens[t].memory_limit

\* run_simulation.py:519-521, "Parent token not found": a token is created under a
\* parent the core knows, and never exceeds it in privilege or capabilities.
Inheritance ==
    \A t \in DOMAIN tokens :
        LET p == tokens[t].parent
        IN  p # 0 => /\ tokens[p].privilege <= tokens[t].privilege
                     /\ tokens[t].capabilities \subseteq tokens[p].capabilities

\* run_simulation.py:629-631: a session whose token has expired has no
\* capability any more.
ExpiredTokenGrantsNothing ==
    \A s \in DOMAIN sessions, cap \in Caps :
        check_capability(s, cap) => sessions[s].token \in live

\* shell.zig:43, "exec <path>           Execute an ELF binary": running a program
\* from the shell does not stop the kernel.
ExecKeepsKernelUp == status = "up"

=============================================================================
