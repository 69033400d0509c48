------------------------------- MODULE Process -------------------------------
(***************************************************************************)
(* A loaded program running in its address space: the areas mem_alloc      *)
(* registers for its token, the page faults vasm_handle_page_fault answers *)
(* (kernel/src/vasm.rs, handle_page_fault of idt.zig), and the expiry of   *)
(* the token in rust_kernel_tick.                                          *)
(*                                                                         *)
(* The program runs, so it is the active thread and its session exists:    *)
(* the handler's first two returns do not arise.  mem_alloc has no caller  *)
(* in the repository; it is called here with any size and address, for a   *)
(* token that has the capabilities it asks for.                            *)
(*                                                                         *)
(* A fault may come at any address the program touches, mapped or not:     *)
(* below 2 GB a mapping has no effect, and no page of the first 512 GB is  *)
(* open to user mode (module Paging).                                      *)
(***************************************************************************)
EXTENDS Elf

CONSTANTS
    AreaSizes, AreaAddrs,   \* what mem_alloc is called with
    Memory_limit,           \* the token's limit, in cells
    Touched                 \* the addresses at which it faults

ASSUME ProcessAssumption ==
    AreaSizes \subseteq Nat /\ AreaAddrs \subseteq Nat /\ Memory_limit \in Nat /\ Touched \subseteq Nat

VARIABLES
    vmas,           \* start address -> [size, phys], phys 0 until the first fault
    memory_used,
    token,          \* "live" or "expired"
    cpu,            \* "running" or "halted"
    tails           \* history: the last, partial pages of areas that expired

token_vars == <<vmas, memory_used, token, tails>>
process_vars == <<elf_vars, token_vars, cpu>>

Init ==
    /\ ElfInit
    /\ vmas = [a \in {} |-> 0] /\ memory_used = 0 /\ token = "live"
    /\ cpu = "running" /\ tails = {}

Running == result = "Ok" /\ cpu = "running"

-----------------------------------------------------------------------------
check_quota(size) == memory_used + size <= Memory_limit

\* The pages of an area are apart from the program's, and it starts one.
Apart(size, vaddr) ==
    LET pages == Run(vaddr \div PAGE, PagesFor(size))
    IN  /\ vaddr % PAGE = 0 /\ pages \cap StackPages = {}
        /\ \A s \in Loads : pages \cap {load_base \div PAGE + p : p \in SegmentPages(s)} = {}

\* An area in place of the one at the same address, if any.  Where it lies is not
\* looked at.
mem_alloc(size, vaddr) ==
    /\ Running /\ token = "live" /\ check_quota(size)
    /\ vmas' = [a \in DOMAIN vmas \cup {vaddr} |->
           IF a = vaddr THEN [size |-> size, phys |-> 0] ELSE vmas[a]]
    /\ memory_used' = memory_used + size
    /\ clash' = IF Apart(size, vaddr) THEN clash ELSE "yes"
    /\ UNCHANGED <<load_vars, free, mem, mappings, starved, token, tails, cpu>>

\* The areas that hold an address; the handler takes the one that starts last.
Around(a) == {s \in DOMAIN vmas : s <= a /\ a < s + vmas[s].size}
found_vma(a) == Max(Around(a))
NotYetBacked(a) == Around(a) # {} /\ vmas[found_vma(a)].phys = 0

\* Mutant: the last, partial page is not counted.
fault_pages_down(s) == vmas[s].size \div PAGE

fault_pages(s) == PagesFor(vmas[s].size)

vma_flags == {0, 1, 2}          \* 1 | 4, and 2 for an area, which is writable

\* The first fault in an area: a block for all of it, and a call for every page,
\* whose result is ignored.
DemandPage(a) ==
    /\ Running /\ NotYetBacked(a)
    /\ LET s == found_vma(a)
       IN  \E f \in Block(fault_pages(s)), done \in SUBSET (0 .. fault_pages(s) - 1) :
             LET new == {s \div PAGE + n : n \in done}
             IN  /\ Take(f, fault_pages(s))
                 /\ vmas' = [vmas EXCEPT ![s].phys = f]
                 /\ mappings' = [v \in DOMAIN mappings \cup new |->
                        IF v \in new THEN [frame |-> f + v - s \div PAGE, rights |-> pte_rights(vma_flags)]
                                     ELSE mappings[v]]
                 /\ starved' = IF done = 0 .. fault_pages(s) - 1 THEN starved ELSE "yes"
    /\ UNCHANGED <<load_vars, mem, memory_used, token, tails, cpu>>

\* A fault outside the areas or in one that is backed, and one for which there is
\* no block, halts the CPU.
Halt(a) ==
    /\ Running
    /\ starved' = IF NotYetBacked(a) THEN "yes" ELSE starved
    /\ cpu' = "halted"
    /\ UNCHANGED <<load_vars, free, mem, mappings, clash, token_vars>>

\* Mutant: like Token::cleanup, only the first page of an area is unmapped.
unmapped_first(s) == {s \div PAGE}

\* The pages rust_kernel_tick unmaps: vma.size / 4096 of them.
unmapped(s) == {s \div PAGE + n : n \in 0 .. (vmas[s].size \div PAGE) - 1}

\* The token expires; phys_free gives back the block of an area, or nothing.
Expire ==
    /\ Running /\ token = "live"
    /\ token' = "expired" /\ vmas' = [a \in {} |-> 0]
    /\ mappings' = [v \in DOMAIN mappings \ UNION {unmapped(s) : s \in DOMAIN vmas} |-> mappings[v]]
    /\ free' = free \cup UNION {Run(vmas[s].phys, PagesFor(vmas[s].size)) :
                                s \in {t \in DOMAIN vmas : vmas[t].phys # 0}}
    /\ tails' = {s \div PAGE + vmas[s].size \div PAGE : s \in {t \in DOMAIN vmas : vmas[t].size % PAGE # 0}}
    /\ UNCHANGED <<load_vars, mem, starved, clash, memory_used, cpu>>

Next ==
    \/ ElfNext /\ UNCHANGED <<token_vars, cpu>>
    \/ \E size \in AreaSizes, a \in AreaAddrs : mem_alloc(size, a)
    \/ \E a \in Touched : DemandPage(a) \/ Halt(a)
    \/ Expire

Spec == Init /\ [][Next]_process_vars

-----------------------------------------------------------------------------
(* Properties *)

\* The accesses a program may make: what p_flags allows in its segments, reading
\* and writing on its stack and in its areas.
Own(a, right) ==
    \/ \E s \in Loads : /\ a \in Run(load_base + s.p_vaddr, s.p_memsz)
                        /\ right \in {"u"} \cup s.p_flags
    \/ a \in Run(stack_virt, STACK_PAGES * PAGE) /\ right # "x"
    \/ Around(a) # {} /\ right # "x"

\* The page of an address was asked for with the right.
Asked(a, right) ==
    /\ a \div PAGE \in DOMAIN mappings
    /\ {"u", right} \subseteq mappings[a \div PAGE].rights

\* A program that was loaded has all of its own memory asked for, to the last cell
\* and with its rights, and the rest of it will be at the first fault there: the
\* loader, demand paging and expiry leave no page of it out and take none away,
\* unless memory or page tables ran out or two holders clash.
OwnPagesAsked ==
    (result = "Ok" /\ WellPlaced /\ starved = "no" /\ clash = "no") =>
        \A a \in Touched, right \in {"u", "w", "x"} :
            Own(a, right) => Asked(a, right) \/ NotYetBacked(a)

\* No page is left mapped to a frame that was given back, except the last page
\* of an area whose size is no multiple of a page: the fault handler rounds the
\* number of pages up and rust_kernel_tick rounds it down.
FreedPagesUnmapped ==
    clash = "no" => \A v \in DOMAIN mappings : mappings[v].frame \in free => v \in tails

\* kernel/src/lib.rs:591-597 and vasm.rs:86: a page is unmapped before its frame
\* is given back.  Violated by an area of one page and a half.
ExpiryUnmapsAll == clash = "no" => \A v \in DOMAIN mappings : mappings[v].frame \notin free

\* kernel/src/elf_loader.rs:224, "RW, User (Flags: 7 = Present | R/W | User)":
\* the stack is not executable.
StackNotExecutable ==
    \A v \in StackPages \cap DOMAIN mappings : "x" \notin mappings[v].rights

\* elf_loader.rs:6-7, "allocates physical pages via the kernel allocator, and
\* maps each PT_LOAD segment": each, at whatever address it asks for.
EverySegmentMapped ==
    (result = "Ok" /\ starved = "no" /\ clash = "no") => \A s \in Loads : \A k \in 0 .. s.p_memsz - 1 :
        LET a == load_base + s.p_vaddr + k
        IN  /\ a \div PAGE \in DOMAIN mappings
            /\ mem[mappings[a \div PAGE].frame * PAGE + (a % PAGE)] = FileCell(s, k)

=============================================================================
