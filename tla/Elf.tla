--------------------------------- MODULE Elf ---------------------------------
(***************************************************************************)
(* load_elf, in the kernel's version (kernel/src/elf_loader.rs) and in the *)
(* Linux layer's (compat/linux/src/elf_loader.rs).  They differ in two     *)
(* places: the Linux one gives up when page_table_map fails, and it asks   *)
(* for a stack that is not executable.                                     *)
(*                                                                         *)
(* An address counts cells, PAGE of them to a page.  Memory holds where    *)
(* each cell came from: the position of a file byte, 0 for a cell that was *)
(* cleared, OLD for one that nobody wrote.                                 *)
(*                                                                         *)
(* phys_alloc gives a run of frames of its pool, held by others or not, or *)
(* null (module Ppa shows no more of it); clash records whether one was    *)
(* given out twice.  mappings is what page_table_map was asked for: module *)
(* Paging tells what the processor makes of it.                            *)
(***************************************************************************)
EXTENDS Integers, Sequences, FiniteSets, FiniteSetsExt

CONSTANTS
    PAGE,           \* cells in a page
    Frames,         \* the frames of the pool; 0 and 1 are low memory
    Starts,         \* the frames at which a block may start
    Images,         \* the files to load
    Loaders,        \* which loaders run: "kernel", "compat"
    PIE_BASE,       \* 0x4000_0000
    STACK_TOP       \* 0x7FFF_F000

STACK_PAGES == 2
OLD == -1

(***************************************************************************)
(* A file has its ELF identification (good or bad: six checks), e_type,    *)
(* its length and its program headers.  A header is "inside" the file,     *)
(* "outside" it (the entry passes the end), or "cut": e_phentsize is less  *)
(* than the fields that are read, and they pass the end.                   *)
(***************************************************************************)
Header == [place : {"inside", "outside", "cut"}, p_type : {"PT_LOAD", "other"},
           p_flags : SUBSET {"w", "x"}, p_offset : Nat, p_vaddr : Nat,
           p_filesz : Nat, p_memsz : Nat]
Image == [ident : {"good", "bad"}, e_type : {"ET_EXEC", "ET_DYN"}, len : Nat,
          headers : Seq(Header)]

ASSUME ElfAssumption ==
    /\ PAGE \in Nat \ {0} /\ Frames \subseteq Nat \ {0, 1} /\ Starts \subseteq Frames
    /\ Images \subseteq Image /\ Loaders \subseteq {"kernel", "compat"}
    /\ PIE_BASE \in Nat /\ PIE_BASE % PAGE = 0
    /\ STACK_TOP \in Nat /\ STACK_TOP % PAGE = 0 /\ STACK_TOP >= STACK_PAGES * PAGE

VARIABLES
    loader, image,
    pc,             \* the step of load_elf
    i, page,        \* the header and the page at hand
    min_vaddr,      \* -1 for u64::MAX
    load_base,
    phys,           \* the first frame of the block at hand
    result,         \* "none", "Ok", "Err" or "panic"
    free,           \* the frames of the pool that nobody holds
    mem,            \* the cells of physical memory
    mappings,       \* virtual page -> [frame, rights], for every page_table_map that
                    \* returned 0 and no page_table_unmap undid
    starved,        \* history: "yes" once an allocation or a mapping failed
    clash           \* history: "yes" once a frame was given to two holders, or an
                    \* area registered that is not apart from the program

load_vars == <<loader, image, pc, i, page, min_vaddr, load_base, phys, result>>
machine_vars == <<free, mem, mappings, starved, clash>>
elf_vars == <<load_vars, machine_vars>>

\* The cells of the frames, of low memory too.
Cells == {f * PAGE + c : f \in Frames \cup {0, 1}, c \in 0 .. PAGE - 1}

ElfInit ==
    /\ loader \in Loaders /\ image \in Images
    /\ pc = "ident" /\ i = 1 /\ page = 0
    /\ min_vaddr = -1 /\ load_base = 0 /\ phys = 0 /\ result = "none"
    /\ free = Frames
    /\ mem = [a \in Cells |-> OLD]
    /\ mappings = [v \in {} |-> 0] /\ starved = "no" /\ clash = "no"

-----------------------------------------------------------------------------
(* phys_alloc and page_table_map                                           *)

PagesFor(cells) == (cells + PAGE - 1) \div PAGE
Run(f, pages) == f .. f + pages - 1

\* The blocks phys_alloc may hand out: runs of its pool.
Block(pages) == {f \in Starts : pages > 0 /\ Run(f, pages) \subseteq Frames}

Take(f, pages) ==
    /\ free' = free \ Run(f, pages)
    /\ clash' = IF Run(f, pages) \subseteq free THEN clash ELSE "yes"

\* Another caller of phys_alloc is given a frame that is held here.
Reissued ==
    /\ free # Frames /\ clash' = "yes"
    /\ UNCHANGED <<load_vars, free, mem, mappings, starved>>

\* Mutant: the caller's bits are taken for the bits of an entry, where bit 0 is
\* the present bit.
pte_rights_shifted(flags) ==
    (IF 1 \in flags THEN {"w"} ELSE {}) \cup (IF 2 \in flags THEN {"u"} ELSE {})

\* page_table_map's reading of its flags, a set of bit numbers.
pte_rights(flags) ==
    (IF 0 \in flags THEN {"w"} ELSE {}) \cup (IF 1 \in flags THEN {"u"} ELSE {})
        \cup (IF 2 \in flags THEN {"x"} ELSE {})

\* page_table_map of one page: the low bits of the address are not looked at.
Mapped(addr, frame, flags) ==
    [v \in DOMAIN mappings \cup {addr \div PAGE} |->
        IF v = addr \div PAGE THEN [frame |-> frame, rights |-> pte_rights(flags)] ELSE mappings[v]]

-----------------------------------------------------------------------------
(* load_elf                                                                *)

h == image.headers[i]
Headers == {image.headers[n] : n \in DOMAIN image.headers}
AtHeader == i <= Len(image.headers)

Finish(r) ==
    /\ pc' = "done" /\ result' = r
    /\ UNCHANGED <<loader, image, i, page, min_vaddr, load_base, phys>>

CheckIdent ==
    /\ pc = "ident"
    /\ \/ image.ident = "bad" /\ Finish("Err")
       \/ /\ image.ident = "good" /\ pc' = "range"
          /\ UNCHANGED <<loader, image, i, page, min_vaddr, load_base, phys, result>>
    /\ UNCHANGED machine_vars

\* First pass: the lowest address of a PT_LOAD header (the highest is not used).
ScanHeader ==
    /\ pc = "range" /\ AtHeader
    /\ \/ h.place = "outside" /\ Finish("Err")
       \/ h.place = "cut" /\ Finish("panic")
       \/ /\ h.place = "inside"
          /\ min_vaddr' = IF h.p_type = "PT_LOAD" /\ (min_vaddr = -1 \/ h.p_vaddr < min_vaddr)
                          THEN h.p_vaddr ELSE min_vaddr
          /\ i' = i + 1
          /\ UNCHANGED <<loader, image, pc, page, load_base, phys, result>>
    /\ UNCHANGED machine_vars

base == IF image.e_type = "ET_DYN" /\ min_vaddr = 0 THEN PIE_BASE ELSE 0

ChooseBase ==
    /\ pc = "range" /\ ~AtHeader
    /\ load_base' = base /\ i' = 1 /\ pc' = "segment"
    /\ UNCHANGED <<loader, image, page, min_vaddr, phys, result, machine_vars>>

\* Second pass: a header that is not PT_LOAD.
SkipHeader ==
    /\ pc = "segment" /\ AtHeader /\ h.p_type # "PT_LOAD"
    /\ i' = i + 1
    /\ UNCHANGED <<loader, image, pc, page, min_vaddr, load_base, phys, result, machine_vars>>

\* Mutant: the file's end is not looked at.
file_end_unclipped == h.p_offset + h.p_filesz

file_end == Min({h.p_offset + h.p_filesz, image.len})
copy_len == file_end - h.p_offset

\* Mutant: the cells after p_filesz are cleared, not those after the copy.
segment_cell_filesz(k) ==
    IF k < copy_len THEN h.p_offset + k + 1 ELSE IF k < h.p_filesz THEN OLD ELSE 0

\* Cell k of the segment: a byte of the file, or 0.
segment_cell(k) == IF k < copy_len THEN h.p_offset + k + 1 ELSE 0

\* The slices of the copy are checked: a bad one panics.
CopyPanics == copy_len < 0 \/ copy_len > h.p_memsz \/ file_end > image.len

\* Allocate and fill a segment.  A load that ends here keeps what it holds.
LoadSegment ==
    /\ pc = "segment" /\ AtHeader /\ h.p_type = "PT_LOAD"
    /\ \/ Finish("Err") /\ starved' = "yes" /\ UNCHANGED <<free, mem, mappings, clash>>
       \/ \E f \in Block(PagesFor(h.p_memsz)) :
            /\ Take(f, PagesFor(h.p_memsz))
            /\ UNCHANGED <<mappings, starved>>
            /\ \/ CopyPanics /\ Finish("panic") /\ UNCHANGED mem
               \/ /\ ~CopyPanics
                  /\ mem' = [a \in DOMAIN mem |->
                         IF a - f * PAGE \in 0 .. h.p_memsz - 1
                         THEN segment_cell(a - f * PAGE) ELSE mem[a]]
                  /\ phys' = f /\ page' = 0 /\ pc' = "map"
                  /\ UNCHANGED <<loader, image, i, min_vaddr, load_base, result>>

\* pte_flags: user accessible, bit 0 if writable, bit 2 if executable.
segment_flags ==
    {1} \cup (IF "w" \in h.p_flags THEN {0} ELSE {}) \cup (IF "x" \in h.p_flags THEN {2} ELSE {})

\* A call of page_table_map for the page at hand, and what it returned.
MapCall(rc, addr, flags) ==
    /\ mappings' = IF rc = 0 THEN Mapped(addr, phys + page, flags) ELSE mappings
    /\ starved' = IF rc = 0 THEN starved ELSE "yes"

LastPage == page + 1 = PagesFor(h.p_memsz)

\* The kernel's loader does not look at what page_table_map returned.
MapSegmentPage ==
    /\ pc = "map"
    /\ \E rc \in {0, -1} :
         /\ MapCall(rc, load_base + h.p_vaddr + page * PAGE, segment_flags)
         /\ IF rc # 0 /\ loader = "compat" THEN Finish("Err")
            ELSE /\ page' = page + 1
                 /\ i' = IF LastPage THEN i + 1 ELSE i
                 /\ pc' = IF LastPage THEN "segment" ELSE "map"
                 /\ UNCHANGED <<loader, image, min_vaddr, load_base, phys, result>>
    /\ UNCHANGED <<free, mem, clash>>

\* The stack's block: null is frame 0, and is not looked at.
AllocStack ==
    /\ pc = "segment" /\ ~AtHeader
    /\ \/ phys' = 0 /\ starved' = "yes" /\ UNCHANGED <<free, clash>>
       \/ \E f \in Block(STACK_PAGES) :
            phys' = f /\ Take(f, STACK_PAGES) /\ UNCHANGED starved
    /\ page' = 0 /\ pc' = "stack"
    /\ UNCHANGED <<loader, image, i, min_vaddr, load_base, result, mem, mappings>>

stack_virt == STACK_TOP - STACK_PAGES * PAGE
stack_flags == IF loader = "kernel" THEN {0, 1, 2} ELSE {0, 1}       \* 0x7, 0x3

\* Neither loader looks at the result of these calls.
MapStackPage ==
    /\ pc = "stack" /\ page < STACK_PAGES
    /\ \E rc \in {0, -1} : MapCall(rc, stack_virt + page * PAGE, stack_flags)
    /\ page' = page + 1
    /\ UNCHANGED <<loader, image, pc, i, min_vaddr, load_base, phys, result, free, mem, clash>>

LoadDone == pc = "stack" /\ page = STACK_PAGES /\ Finish("Ok") /\ UNCHANGED machine_vars

ElfNext ==
    \/ CheckIdent \/ ScanHeader \/ ChooseBase \/ SkipHeader
    \/ LoadSegment \/ MapSegmentPage \/ AllocStack \/ MapStackPage \/ LoadDone
    \/ Reissued

-----------------------------------------------------------------------------
(* Properties *)

\* Every variable has its type; frames that are mapped exist.
ElfTypeOK ==
    /\ pc \in {"ident", "range", "segment", "map", "stack", "done"}
    /\ i \in 1 .. Len(image.headers) + 1 /\ page \in Nat
    /\ min_vaddr \in Nat \cup {-1} /\ load_base \in {0, PIE_BASE}
    /\ phys \in Frames \cup {0} /\ free \subseteq Frames
    /\ result \in {"none", "Ok", "Err", "panic"}
    /\ \A v \in DOMAIN mappings :
          /\ mappings[v].frame \in Frames \cup {0, 1}
          /\ mappings[v].rights \subseteq {"u", "w", "x"}

Loads == {s \in Headers : s.p_type = "PT_LOAD"}
SegmentPages(s) == Run(s.p_vaddr \div PAGE, PagesFor(s.p_memsz))
StackPages == Run(stack_virt \div PAGE, STACK_PAGES)

\* The files linkers write for 4 KB pages with one segment to a page: addresses
\* at page borders, no page in two segments, none under the stack.
WellPlaced ==
    /\ \A m, n \in DOMAIN image.headers :
          LET s == image.headers[m]
              t == image.headers[n]
          IN  (m # n /\ {s, t} \subseteq Loads) => SegmentPages(s) \cap SegmentPages(t) = {}
    /\ \A s \in Loads :
          s.p_vaddr % PAGE = 0 /\ {base \div PAGE + p : p \in SegmentPages(s)} \cap StackPages = {}

\* What the file says cell k of a segment is.
FileCell(s, k) ==
    IF k < s.p_filesz /\ s.p_offset + k < image.len THEN s.p_offset + k + 1 ELSE 0

\* A load that reports Ok, and whose frames were given to nobody else, leaves
\* every segment in memory as the file has it, in order and with the cells behind
\* the file's data cleared, and has asked page_table_map to put it at p_vaddr from
\* the base of a position-independent file and at p_vaddr of any other, with flags
\* that page_table_map reads as exactly the rights of p_flags: the Linux layer's
\* loader always, the kernel's when no call failed (it does not look).
LoadedAsTheFileSays ==
    (result = "Ok" /\ WellPlaced /\ clash = "no") => \A s \in Loads :
        LET moved == image.e_type = "ET_DYN" /\ \E z \in Loads : z.p_vaddr = 0
        IN  \A k \in 0 .. s.p_memsz - 1 :
                LET a == s.p_vaddr + k + (IF moved THEN PIE_BASE ELSE 0)
                    v == a \div PAGE
                IN  IF v \in DOMAIN mappings
                    THEN /\ mem[mappings[v].frame * PAGE + (a % PAGE)] = FileCell(s, k)
                         /\ mappings[v].rights = {"u"} \cup s.p_flags
                    ELSE loader = "kernel" /\ starved = "yes"

\* load_elf panics with the kernel mutex held: only for a file whose headers
\* pass its end, start a segment beyond it or put more file than memory into a
\* segment, and never because the file is shorter than a segment says.
PanicOnlyIfMalformed ==
    result = "panic" =>
        \E s \in Headers : \/ s.place = "cut"
                           \/ s.p_offset > image.len
                           \/ s.p_filesz > s.p_memsz

=============================================================================
