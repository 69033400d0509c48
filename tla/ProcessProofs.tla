--------------------------- MODULE ProcessProofs ---------------------------
(***************************************************************************)
(* For every set of files, frames, areas and addresses: load_elf panics    *)
(* only on malformed files, whatever phys_alloc hands out.  And until it   *)
(* hands out a frame twice, or an area is put over the program: no page    *)
(* stays mapped to a frame that was given back but the last one of an area *)
(* of an odd size; what load_elf reports as loaded is what the file says;  *)
(* and all of a program's own memory is asked for unless memory ran out.   *)
(***************************************************************************)
EXTENDS Process, WellFoundedInduction, TLAPS

-----------------------------------------------------------------------------
(***************************************************************************)
(* The invariant.  Where the loader is and what it holds there, always;    *)
(* and who owns a frame, until there is a clash: a frame that nobody holds *)
(* is not mapped, and a frame of an area's block is mapped by the area's   *)
(* own page only.                                                          *)
(***************************************************************************)
AreaRun(s) == Run(vmas[s].phys, PagesFor(vmas[s].size))
AreasInPool == \A s \in DOMAIN vmas : vmas[s].phys # 0 => AreaRun(s) \subseteq Frames

Typed ==
    /\ image \in Images /\ loader \in Loaders
    /\ ElfTypeOK /\ DOMAIN mem = Cells
    /\ {starved, clash} \subseteq {"yes", "no"} /\ token \in {"live", "expired"}
    /\ DOMAIN vmas \subseteq AreaAddrs
    /\ \A s \in DOMAIN vmas : vmas[s] \in [size : AreaSizes, phys : Frames \cup {0}]
    /\ AreasInPool

Control ==
    /\ pc # "done" => result = "none"
    /\ pc \in {"ident", "range"} => DOMAIN mappings = {}
    /\ pc = "map" => /\ i <= Len(image.headers) /\ h.p_type = "PT_LOAD"
                     /\ page < PagesFor(h.p_memsz)
                     /\ Run(phys, PagesFor(h.p_memsz)) \subseteq Frames
    /\ pc = "stack" => /\ i = Len(image.headers) + 1 /\ page <= STACK_PAGES
                       /\ phys = 0 \/ Run(phys, STACK_PAGES) \subseteq Frames
    /\ result = "Ok" => i = Len(image.headers) + 1
    /\ result # "Ok" => DOMAIN vmas = {} /\ token = "live" /\ cpu = "running"
    /\ token = "expired" => DOMAIN vmas = {}

NoneFree == \A v \in DOMAIN mappings : mappings[v].frame \notin free
BlockHeld ==
    /\ pc = "map" => Run(phys, PagesFor(h.p_memsz)) \cap free = {}
    /\ pc = "stack" => phys = 0 \/ Run(phys, STACK_PAGES) \cap free = {}

Owned ==
    /\ token = "live" => NoneFree
    /\ BlockHeld
    /\ \A s \in DOMAIN vmas : Apart(vmas[s].size, s)
    /\ \A s \in DOMAIN vmas : vmas[s].phys # 0 =>
          /\ AreaRun(s) \cap free = {}
          /\ \A v \in DOMAIN mappings : mappings[v].frame \in AreaRun(s) =>
                v = s \div PAGE + (mappings[v].frame - vmas[s].phys)

IInv ==
    /\ Typed /\ Control /\ PanicOnlyIfMalformed
    /\ clash = "no" => Owned
    /\ FreedPagesUnmapped

-----------------------------------------------------------------------------
(***************************************************************************)
(* What holds besides until there is a clash: how far the loader has come. *)
(***************************************************************************)
FirstPage(s) == (load_base + s.p_vaddr) \div PAGE

\* Page j of a segment is there, with the file's cells and the header's rights.
PageHeld(s, j) ==
    LET v == FirstPage(s) + j
    IN  IF v \in DOMAIN mappings
        THEN /\ mappings[v].rights = {"u"} \cup s.p_flags
             /\ \A c \in 0 .. PAGE - 1 : j * PAGE + c < s.p_memsz =>
                   mem[mappings[v].frame * PAGE + c] = FileCell(s, j * PAGE + c)
        ELSE loader = "kernel" /\ starved = "yes"

Past == pc \in {"segment", "map", "stack"} \/ result = "Ok"
LoadsAt == {n \in DOMAIN image.headers : image.headers[n].p_type = "PT_LOAD"}
PagesAt(n) == PagesFor(image.headers[n].p_memsz)

\* The lowest address, as far as it matters.
Scanned ==
    /\ pc = "ident" => i = 1 /\ min_vaddr = -1
    /\ pc = "range" => (min_vaddr = 0 <=> \E n \in LoadsAt : n < i /\ image.headers[n].p_vaddr = 0)
    /\ Past => (min_vaddr = 0 <=> \E n \in LoadsAt : image.headers[n].p_vaddr = 0)
    /\ Past => load_base = base

\* The block at hand holds the segment.
Filled == pc = "map" => \A k \in 0 .. h.p_memsz - 1 : mem[phys * PAGE + k] = FileCell(h, k)

\* Every page of the segments before this one, and those so far of this one.
Placed ==
    (Past /\ WellPlaced) =>
        /\ \A n \in LoadsAt : n < i => \A j \in 0 .. PagesAt(n) - 1 : PageHeld(image.headers[n], j)
        /\ pc = "map" => \A j \in 0 .. page - 1 : PageHeld(h, j)

\* Nothing else is mapped before the stack.
NothingElse ==
    pc \in {"segment", "map"} => \A v \in DOMAIN mappings :
        \/ \E n \in LoadsAt : n < i /\ v \in Run(FirstPage(image.headers[n]), PagesAt(n))
        \/ pc = "map" /\ v \in Run(FirstPage(h), page)

StackHeld(j) ==
    LET v == stack_virt \div PAGE + j
    IN  starved = "yes" \/ (v \in DOMAIN mappings /\ {"u", "w"} \subseteq mappings[v].rights)
StackPlaced ==
    /\ pc = "stack" => \A j \in 0 .. page - 1 : StackHeld(j)
    /\ result = "Ok" => \A j \in 0 .. STACK_PAGES - 1 : StackHeld(j)

AreasPlaced ==
    \A s \in DOMAIN vmas : vmas[s].phys # 0 => \A j \in 0 .. PagesFor(vmas[s].size) - 1 :
        LET v == s \div PAGE + j
        IN  starved = "yes" \/ (v \in DOMAIN mappings /\ mappings[v].rights = {"u", "w", "x"})

LInv == Scanned /\ Filled /\ Placed /\ NothingElse /\ StackPlaced /\ AreasPlaced

UntilClash == clash = "no" => LInv

-----------------------------------------------------------------------------
(* Arithmetic of pages.                                                    *)
LEMMA DivMod ==
    ASSUME NEW a \in Nat, NEW P \in Nat \ {0}
    PROVE  /\ a = P * (a \div P) + (a % P)
           /\ a % P \in 0 .. P - 1 /\ a \div P \in Nat
  OBVIOUS

LEMMA MulLess ==
    ASSUME NEW a \in Int, NEW b \in Int, NEW P \in Nat \ {0}, P * a < P * b
    PROVE  a < b
<1>1. SUFFICES ASSUME a >= b PROVE P * a >= P * b
  OBVIOUS
<1>2. P * (a - b) >= 0
  BY <1>1
<1>3. P * (a - b) = P * a - P * b
  OBVIOUS
<1>4. P * a \in Int /\ P * b \in Int
  OBVIOUS
<1>. QED
  BY <1>2, <1>3, <1>4

(* PagesFor rounds up.                                                     *)
LEMMA PagesForRoundsUp ==
    ASSUME NEW n \in Nat
    PROVE  /\ PagesFor(n) \in Nat
           /\ PagesFor(n) = n \div PAGE + (IF n % PAGE = 0 THEN 0 ELSE 1)
           /\ n <= PAGE * PagesFor(n)
<1>. DEFINE q == n \div PAGE
            r == n % PAGE
            p == PagesFor(n)
<1>0. PAGE \in Nat \ {0}
  BY ElfAssumption
<1>1. n = PAGE * q + r /\ r \in 0 .. PAGE - 1 /\ q \in Nat
  BY <1>0, DivMod
<1>2. PICK x \in 0 .. PAGE - 1 : n + PAGE - 1 = PAGE * p + x /\ p \in Nat
  <2>1. n + PAGE - 1 \in Nat
    BY <1>0
  <2>. QED
    BY <2>1, <1>0, DivMod DEF PagesFor
<1>. HIDE DEF q, r, p
<1>3. PAGE * q \in Nat /\ PAGE * p \in Nat
  BY <1>0, <1>1, <1>2
<1>4. PAGE * (q + 1) = PAGE * q + PAGE /\ PAGE * (q + 2) = PAGE * q + 2 * PAGE
  BY <1>0, <1>1
<1>5. PAGE * (q - 1) = PAGE * q - PAGE /\ PAGE * (p + 1) = PAGE * p + PAGE
  BY <1>0, <1>1, <1>2
<1>6. CASE r = 0
  <2>1. PAGE * p < PAGE * (q + 1) /\ PAGE * q < PAGE * (p + 1)
    BY <1>0, <1>1, <1>2, <1>3, <1>4, <1>5, <1>6
  <2>2. p < q + 1 /\ q < p + 1
    BY <2>1, <1>0, <1>1, <1>2, MulLess
  <2>. QED
    BY <2>2, <1>1, <1>2, <1>3, <1>6 DEF p, q, r
<1>7. CASE r # 0
  <2>1. PAGE * p < PAGE * (q + 2) /\ PAGE * q < PAGE * p
    BY <1>0, <1>1, <1>2, <1>3, <1>4, <1>5, <1>7
  <2>2. p < q + 2 /\ q < p
    BY <2>1, <1>0, <1>1, <1>2, MulLess
  <2>3. p = q + 1 /\ n <= PAGE * p
    BY <2>2, <1>0, <1>1, <1>2, <1>3, <1>4
  <2>. QED
    BY <2>3, <1>2, <1>7 DEF p, q, r
<1>. QED
  BY <1>6, <1>7

(* A set of numbers has its least one.                                     *)
LEMMA Least ==
    ASSUME NEW S \in SUBSET Nat, S # {}
    PROVE  \E m \in S : \A n \in S : m <= n
<1>1. PICK m \in S : \A n \in S : <<n, m>> \notin OpToRel(<, Nat)
  BY NatLessThanWellFounded, WFMin
<1>2. \A n \in Nat : n < m => <<n, m>> \in OpToRel(<, Nat)
  BY Zenon DEF OpToRel
<1>3. \A n \in S : ~ (n < m)
  BY <1>1, <1>2, Zenon
<1>. QED
  BY <1>3

(* phys_alloc hands out frames of its pool, and there is a clash if one of *)
(* them was held.                                                          *)
LEMMA BlockInPool ==
    ASSUME NEW pages, NEW f \in Block(pages)
    PROVE  f \in Frames /\ pages > 0 /\ Run(f, pages) \subseteq Frames
  BY ElfAssumption DEF Block

LEMMA Taken ==
    ASSUME clash \in {"yes", "no"}, NEW f, NEW pages, Take(f, pages)
    PROVE  /\ free' = free \ Run(f, pages) /\ clash' \in {"yes", "no"}
           /\ clash' = "no" => clash = "no" /\ Run(f, pages) \subseteq free
  BY DEF Take

(* The flags of a segment, the stack and an area, as page_table_map reads  *)
(* them.                                                                   *)
LEMMA FlagsRead ==
    /\ h.p_flags \subseteq {"w", "x"} => pte_rights(segment_flags) = {"u"} \cup h.p_flags
    /\ {"u", "w"} \subseteq pte_rights(stack_flags) /\ pte_rights(stack_flags) \subseteq {"u", "w", "x"}
    /\ pte_rights(vma_flags) = {"u", "w", "x"}
<1>1. ASSUME h.p_flags \subseteq {"w", "x"}
      PROVE  pte_rights(segment_flags) = {"u"} \cup h.p_flags
  <2>1. /\ 0 \in segment_flags <=> "w" \in h.p_flags
        /\ 1 \in segment_flags
        /\ 2 \in segment_flags <=> "x" \in h.p_flags
    BY DEF segment_flags
  <2>. QED
    BY <1>1, <2>1 DEF pte_rights
<1>. QED
  BY <1>1 DEF pte_rights, stack_flags, vma_flags

(* The header at hand is one of the file's.                                *)
LEMMA HeaderAtHand ==
    ASSUME Typed, i <= Len(image.headers)
    PROVE  /\ h \in Header /\ h \in Headers /\ i \in DOMAIN image.headers
           /\ image.len \in Nat /\ PagesFor(h.p_memsz) \in Nat
<1>1. image \in Image
  BY ElfAssumption DEF Typed
<1>2. image.headers \in Seq(Header) /\ image.len \in Nat
  BY <1>1 DEF Image
<1>3. i \in 1 .. Len(image.headers)
  BY <1>2 DEF Typed, ElfTypeOK
<1>4. i \in DOMAIN image.headers /\ h \in Header /\ h \in Headers
  BY <1>2, <1>3 DEF h, Headers
<1>5. h.p_memsz \in Nat
  BY <1>4 DEF Header
<1>. QED
  BY <1>2, <1>4, <1>5, PagesForRoundsUp

LEMMA HeaderCount ==
    ASSUME Typed
    PROVE  Len(image.headers) \in Nat /\ i \in 1 .. Len(image.headers) + 1 /\ i \in Nat
<1>1. image \in Image
  BY ElfAssumption DEF Typed
<1>2. image.headers \in Seq(Header)
  BY <1>1 DEF Image
<1>. QED
  BY <1>2 DEF Typed, ElfTypeOK

-----------------------------------------------------------------------------
LEMMA InitInv == Init => IInv
<1>. SUFFICES ASSUME Init PROVE IInv
  OBVIOUS
<1>1. image \in Image
  BY ElfAssumption DEF Init, ElfInit
<1>2. Len(image.headers) \in Nat
  BY <1>1 DEF Image
<1>3. Typed
  BY <1>2, ElfAssumption DEF Init, ElfInit, Typed, ElfTypeOK, AreasInPool
<1>4. Control /\ Owned /\ PanicOnlyIfMalformed /\ FreedPagesUnmapped
  BY DEF Init, ElfInit, Control, Owned, NoneFree, BlockHeld, PanicOnlyIfMalformed, FreedPagesUnmapped
<1>. QED
  BY <1>3, <1>4 DEF IInv

(***************************************************************************)
(* While load_elf runs there are no areas: a step of it need only keep the *)
(* types, its own place and the frames apart.                              *)
(***************************************************************************)
LEMMA LoadStep ==
    ASSUME IInv, pc # "done", UNCHANGED <<token_vars, cpu>>,
           UNCHANGED <<image, loader>>,
           ElfTypeOK', DOMAIN mem' = Cells, {starved, clash}' \subseteq {"yes", "no"},
           pc' # "done" => result' = "none",
           pc' \in {"ident", "range"} => DOMAIN mappings' = {},
           pc' = "map" => /\ i' <= Len(image.headers) /\ h'.p_type = "PT_LOAD"
                          /\ page' < PagesFor(h'.p_memsz)
                          /\ Run(phys', PagesFor(h'.p_memsz)) \subseteq Frames,
           pc' = "stack" => /\ i' = Len(image.headers) + 1 /\ page' <= STACK_PAGES
                            /\ phys' = 0 \/ Run(phys', STACK_PAGES) \subseteq Frames,
           result' = "Ok" => i' = Len(image.headers) + 1,
           clash' = "no" => NoneFree' /\ BlockHeld',
           PanicOnlyIfMalformed'
    PROVE  IInv'
<1>1. DOMAIN vmas = {} /\ token = "live" /\ cpu = "running"
  BY DEF IInv, Control
<1>2. vmas' = vmas /\ token' = token /\ cpu' = cpu
  BY DEF token_vars
<1>3. Typed'
  BY <1>1, <1>2 DEF IInv, Typed, AreasInPool
<1>4. Control'
  BY <1>1, <1>2 DEF Control, PagesFor, Run
<1>5. (clash' = "no" => Owned') /\ FreedPagesUnmapped'
  BY <1>1, <1>2 DEF Owned, NoneFree, FreedPagesUnmapped
<1>. QED
  BY <1>3, <1>4, <1>5 DEF IInv

(* While load_elf runs, a frame that nobody holds is not mapped.           *)
LEMMA NoneFreeYet ==
    ASSUME IInv, pc # "done", clash = "no"
    PROVE  NoneFree /\ BlockHeld
  BY DEF IInv, Control, Owned

(* The first pass: headers are looked at, nothing is held yet.             *)
LEMMA ScanInv ==
    ASSUME IInv, CheckIdent \/ ScanHeader \/ ChooseBase \/ SkipHeader,
           UNCHANGED <<token_vars, cpu>>
    PROVE  IInv'
<1>0. /\ pc \in {"ident", "range", "segment"} /\ pc # "done" /\ result = "none"
      /\ UNCHANGED machine_vars /\ UNCHANGED <<loader, image, page, phys>>
  BY DEF CheckIdent, ScanHeader, ChooseBase, SkipHeader, Finish, machine_vars, IInv, Control
<1>1. UNCHANGED <<free, mem, mappings, starved, clash>>
  BY <1>0 DEF machine_vars
<1>2. Len(image.headers) \in Nat /\ i \in 1 .. Len(image.headers) + 1 /\ i \in Nat
  BY HeaderCount DEF IInv
<1>3. /\ pc' \in {"range", "segment", "done"}
      /\ pc' = "range" => pc \in {"ident", "range"}
      /\ pc' # "done" => result' = "none"
      /\ result' \in {"none", "Err", "panic"}
      /\ load_base' \in {0, PIE_BASE}
      /\ i' \in 1 .. Len(image.headers) + 1
  BY <1>0, <1>2 DEF CheckIdent, ScanHeader, ChooseBase, SkipHeader, Finish, base, AtHeader,
                    IInv, Typed, ElfTypeOK
<1>4. min_vaddr' \in Nat \cup {-1}
  <2>0. min_vaddr \in Nat \cup {-1}
    BY DEF IInv, Typed, ElfTypeOK
  <2>1. CASE ScanHeader
    <3>1. h \in Header
      BY <2>1, HeaderAtHand DEF ScanHeader, AtHeader, IInv
    <3>2. h.p_vaddr \in Nat
      BY <3>1 DEF Header
    <3>. QED
      BY <2>0, <2>1, <3>2 DEF ScanHeader, Finish
  <2>2. CASE ~ScanHeader
    BY <2>0, <2>2 DEF CheckIdent, ChooseBase, SkipHeader, Finish
  <2>. QED
    BY <2>1, <2>2
<1>5. ElfTypeOK'
  BY <1>0, <1>1, <1>3, <1>4 DEF IInv, Typed, ElfTypeOK
<1>6. PanicOnlyIfMalformed'
  <2>1. CASE result' # "panic"
    BY <2>1 DEF PanicOnlyIfMalformed
  <2>2. CASE result' = "panic"
    <3>1. ScanHeader /\ h.place = "cut"
      BY <2>2, <1>0 DEF CheckIdent, ScanHeader, ChooseBase, SkipHeader, Finish
    <3>2. h \in Headers
      BY <3>1, HeaderAtHand DEF ScanHeader, AtHeader, IInv
    <3>. QED
      BY <3>1, <3>2, <1>0 DEF PanicOnlyIfMalformed, Headers
  <2>. QED
    BY <2>1, <2>2
<1>7. /\ pc' \in {"ident", "range"} => DOMAIN mappings' = {}
      /\ clash' = "no" => NoneFree' /\ BlockHeld'
      /\ DOMAIN mem' = Cells /\ {starved, clash}' \subseteq {"yes", "no"}
  BY <1>0, <1>1, <1>3, NoneFreeYet DEF IInv, Control, Typed, NoneFree, BlockHeld
<1>. QED
  BY <1>0, <1>3, <1>5, <1>6, <1>7, LoadStep

(* The copy of a segment.                                                  *)
LEMMA FileEnd ==
    ASSUME Typed, i <= Len(image.headers)
    PROVE  /\ file_end = IF h.p_offset + h.p_filesz <= image.len
                         THEN h.p_offset + h.p_filesz ELSE image.len
           /\ h.p_offset \in Nat /\ h.p_filesz \in Nat /\ h.p_memsz \in Nat /\ h.p_vaddr \in Nat
           /\ h.p_flags \subseteq {"w", "x"}
<1>1. h \in Header /\ image.len \in Nat
  BY HeaderAtHand
<1>2. /\ h.p_offset \in Nat /\ h.p_filesz \in Nat /\ h.p_memsz \in Nat /\ h.p_vaddr \in Nat
      /\ h.p_flags \subseteq {"w", "x"}
  BY <1>1 DEF Header
<1>. QED
  BY <1>1, <1>2 DEF file_end, Min

(* A bad slice is a segment that starts past the file's end or that has    *)
(* more file than memory.                                                  *)
LEMMA BadSlice ==
    ASSUME Typed, i <= Len(image.headers), CopyPanics
    PROVE  h.p_offset > image.len \/ h.p_filesz > h.p_memsz
<1>1. image.len \in Nat
  BY HeaderAtHand
<1>. QED
  BY <1>1, FileEnd DEF CopyPanics, copy_len

LEMMA LoadSegmentInv ==
    ASSUME IInv, LoadSegment, UNCHANGED <<token_vars, cpu>>
    PROVE  IInv'
<1>0. /\ pc = "segment" /\ pc # "done" /\ i <= Len(image.headers) /\ h.p_type = "PT_LOAD"
      /\ UNCHANGED <<loader, image, i, min_vaddr, load_base, mappings>>
  BY DEF LoadSegment, AtHeader, Finish
<1>. DEFINE n == PagesFor(h.p_memsz)
<1>1. /\ h' = h /\ h \in Headers /\ n \in Nat /\ Typed /\ ElfTypeOK /\ result = "none"
      /\ free \subseteq Frames /\ clash \in {"yes", "no"}
  BY <1>0, HeaderAtHand DEF IInv, h, Control, Typed, ElfTypeOK
<1>2. CASE Finish("Err") /\ starved' = "yes" /\ UNCHANGED <<free, mem, mappings, clash>>
  <2>1. ElfTypeOK' /\ PanicOnlyIfMalformed'
    BY <1>1, <1>2 DEF Finish, ElfTypeOK, PanicOnlyIfMalformed
  <2>2. /\ clash' = "no" => NoneFree' /\ BlockHeld'
        /\ DOMAIN mem' = Cells /\ pc' = "done" /\ result' = "Err"
        /\ {starved, clash}' \subseteq {"yes", "no"}
    BY <1>0, <1>1, <1>2, NoneFreeYet DEF Typed, Finish, NoneFree, BlockHeld
  <2>. QED
    BY <1>0, <1>2, <2>1, <2>2, LoadStep
<1>3. ASSUME NEW f \in Block(n),
             Take(f, n), UNCHANGED <<mappings, starved>>,
             \/ CopyPanics /\ Finish("panic") /\ UNCHANGED mem
             \/ /\ ~CopyPanics
                /\ mem' = [a \in DOMAIN mem |->
                       IF a - f * PAGE \in 0 .. h.p_memsz - 1
                       THEN segment_cell(a - f * PAGE) ELSE mem[a]]
                /\ phys' = f /\ page' = 0 /\ pc' = "map"
                /\ UNCHANGED <<loader, image, i, min_vaddr, load_base, result>>
      PROVE  IInv'
  <2>1. /\ f \in Frames /\ n > 0 /\ Run(f, n) \subseteq Frames
        /\ free' = free \ Run(f, n) /\ clash' \in {"yes", "no"}
        /\ clash' = "no" => clash = "no"
    BY <1>1, <1>3, BlockInPool, Taken
  <2>2. /\ clash' = "no" => NoneFree'
        /\ {starved, clash}' \subseteq {"yes", "no"}
    BY <1>0, <1>1, <1>3, <2>1, NoneFreeYet DEF Typed, NoneFree
  <2>3. CASE CopyPanics /\ Finish("panic") /\ UNCHANGED mem
    <3>1. PanicOnlyIfMalformed'
      <4>1. h.p_offset > image.len \/ h.p_filesz > h.p_memsz
        BY <1>0, <1>1, <2>3, BadSlice
      <4>. QED
        BY <4>1, <1>0, <1>1 DEF PanicOnlyIfMalformed, Headers
    <3>2. ElfTypeOK'
      BY <1>0, <1>1, <1>3, <2>1, <2>3 DEF Finish, ElfTypeOK
    <3>3. DOMAIN mem' = Cells /\ pc' = "done" /\ result' = "panic" /\ BlockHeld'
      BY <1>1, <2>3 DEF Typed, Finish, BlockHeld
    <3>. QED
      BY <1>0, <2>2, <3>1, <3>2, <3>3, LoadStep
  <2>4. CASE /\ mem' = [a \in DOMAIN mem |->
                       IF a - f * PAGE \in 0 .. h.p_memsz - 1
                       THEN segment_cell(a - f * PAGE) ELSE mem[a]]
             /\ phys' = f /\ page' = 0 /\ pc' = "map" /\ result' = result
    <3>1. DOMAIN mem' = Cells
      BY <1>1, <2>4 DEF Typed
    <3>2. ElfTypeOK'
      BY <1>0, <1>1, <1>3, <2>1, <2>4 DEF ElfTypeOK
    <3>3. PanicOnlyIfMalformed'
      BY <1>1, <2>4 DEF PanicOnlyIfMalformed
    <3>4. /\ page' < PagesFor(h'.p_memsz)
          /\ Run(phys', PagesFor(h'.p_memsz)) \subseteq Frames
      BY <1>1, <1>3, <2>1, <2>4
    <3>5. BlockHeld'
      <4>1. Run(phys', PagesFor(h'.p_memsz)) = Run(f, n)
        BY <1>1, <2>4
      <4>2. PagesFor(h.p_memsz)' = PagesFor(h'.p_memsz) /\ Run(f, n) \cap free' = {}
        BY <2>1 DEF PagesFor
      <4>. QED
        BY <4>1, <4>2, <2>4 DEF BlockHeld, Run
    <3>. QED
      BY <1>0, <1>1, <2>2, <2>4, <3>1, <3>2, <3>3, <3>4, <3>5, LoadStep
  <2>. QED
    BY <1>3, <2>3, <2>4
<1>. QED
  BY <1>2, <1>3 DEF LoadSegment

(* A page of the block at hand is mapped; its frame is held.               *)
LEMMA MapCallEffect ==
    ASSUME IInv, pc \in {"map", "stack"}, NEW rc \in {0, -1}, NEW addr \in Nat, NEW flags,
           pte_rights(flags) \in SUBSET {"u", "w", "x"},
           phys + page \in Frames \cup {0, 1}, clash = "no" => phys + page \notin free,
           MapCall(rc, addr, flags), UNCHANGED <<free, clash>>
    PROVE  /\ {starved, clash}' \subseteq {"yes", "no"}
           /\ \A v \in DOMAIN mappings' :
                 /\ mappings'[v].frame \in Frames \cup {0, 1}
                 /\ mappings'[v].rights \subseteq {"u", "w", "x"}
           /\ clash' = "no" => NoneFree'
<1>. DEFINE new == [frame |-> phys + page, rights |-> pte_rights(flags)]
            q == addr \div PAGE
<1>1. /\ \A v \in DOMAIN mappings :
            /\ mappings[v].frame \in Frames \cup {0, 1}
            /\ mappings[v].rights \subseteq {"u", "w", "x"}
      /\ clash = "no" => NoneFree
  BY NoneFreeYet DEF IInv, Typed, ElfTypeOK
<1>2. {starved, clash}' \subseteq {"yes", "no"}
  BY DEF MapCall, IInv, Typed
<1>3. CASE rc # 0
  BY <1>1, <1>2, <1>3 DEF MapCall, NoneFree
<1>4. CASE rc = 0
  <2>1. mappings' = [v \in DOMAIN mappings \cup {q} |-> IF v = q THEN new ELSE mappings[v]]
    BY <1>4 DEF MapCall, Mapped
  <2>2. /\ new.frame \in Frames \cup {0, 1} /\ new.rights \subseteq {"u", "w", "x"}
        /\ clash = "no" => new.frame \notin free
    OBVIOUS
  <2>. HIDE DEF new, q
  <2>3. \A v \in DOMAIN mappings' : mappings'[v] = new \/ (v \in DOMAIN mappings /\ mappings'[v] = mappings[v])
    BY <2>1
  <2>. QED
    BY <1>1, <1>2, <2>2, <2>3 DEF NoneFree
<1>. QED
  BY <1>3, <1>4

LEMMA MapSegmentInv ==
    ASSUME IInv, MapSegmentPage, UNCHANGED <<token_vars, cpu>>
    PROVE  IInv'
<1>0. /\ pc = "map" /\ i <= Len(image.headers) /\ h.p_type = "PT_LOAD"
      /\ page < PagesFor(h.p_memsz) /\ Run(phys, PagesFor(h.p_memsz)) \subseteq Frames
      /\ UNCHANGED <<loader, image, min_vaddr, load_base, phys, free, mem, clash>>
      /\ result = "none" /\ (clash = "no" => Run(phys, PagesFor(h.p_memsz)) \cap free = {})
  BY NoneFreeYet DEF MapSegmentPage, Finish, IInv, Control, BlockHeld
<1>. DEFINE n == PagesFor(h.p_memsz)
<1>1. /\ Typed /\ ElfTypeOK /\ n \in Nat /\ page \in Nat /\ i \in Nat /\ Len(image.headers) \in Nat
      /\ phys \in Nat /\ load_base \in Nat
  BY <1>0, HeaderAtHand, HeaderCount, ElfAssumption DEF IInv, Typed, ElfTypeOK
<1>2. PICK rc \in {0, -1} :
         /\ MapCall(rc, load_base + h.p_vaddr + page * PAGE, segment_flags)
         /\ IF rc # 0 /\ loader = "compat" THEN Finish("Err")
            ELSE /\ page' = page + 1
                 /\ i' = IF LastPage THEN i + 1 ELSE i
                 /\ pc' = IF LastPage THEN "segment" ELSE "map"
                 /\ UNCHANGED <<loader, image, min_vaddr, load_base, phys, result>>
  BY DEF MapSegmentPage
<1>. HIDE DEF n
<1>3. phys + page \in Frames \cup {0, 1} /\ (clash = "no" => phys + page \notin free)
  <2>1. phys + page \in Run(phys, n)
    BY <1>0, <1>1 DEF Run, n
  <2>. QED
    BY <2>1, <1>0 DEF n
<1>4. load_base + h.p_vaddr + page * PAGE \in Nat /\ pte_rights(segment_flags) \in SUBSET {"u", "w", "x"}
  <2>1. h.p_vaddr \in Nat /\ h.p_flags \subseteq {"w", "x"}
    BY <1>0, <1>1, FileEnd
  <2>2. page * PAGE \in Nat
    BY <1>1, ElfAssumption
  <2>3. pte_rights(segment_flags) \in SUBSET {"u", "w", "x"}
    BY <2>1, FlagsRead
  <2>. QED
    BY <2>1, <2>2, <2>3, <1>1
<1>5. /\ {starved, clash}' \subseteq {"yes", "no"}
      /\ \A v \in DOMAIN mappings' :
            /\ mappings'[v].frame \in Frames \cup {0, 1}
            /\ mappings'[v].rights \subseteq {"u", "w", "x"}
      /\ clash' = "no" => NoneFree'
  BY <1>0, <1>2, <1>3, <1>4, MapCallEffect
<1>6. /\ pc' \in {"segment", "map", "done"} /\ result' \in {"none", "Err"}
      /\ pc' # "done" => result' = "none"
      /\ i' \in 1 .. Len(image.headers) + 1 /\ page' \in Nat
  BY <1>0, <1>1, <1>2 DEF Finish, ElfTypeOK
<1>7. ElfTypeOK' /\ PanicOnlyIfMalformed'
  BY <1>0, <1>1, <1>5, <1>6 DEF ElfTypeOK, PanicOnlyIfMalformed
<1>8. pc' = "map" => /\ i' <= Len(image.headers) /\ h'.p_type = "PT_LOAD"
                     /\ page' < PagesFor(h'.p_memsz)
                     /\ Run(phys', PagesFor(h'.p_memsz)) \subseteq Frames
                     /\ h' = h
  <2>1. SUFFICES ASSUME pc' = "map"
                 PROVE  i' = i /\ page' = page + 1 /\ ~LastPage
    BY <1>0, <1>1 DEF LastPage, h, n
  <2>. QED
    BY <2>1, <1>2 DEF Finish
<1>9. DOMAIN mem' = Cells /\ (clash' = "no" => BlockHeld')
  BY <1>0, <1>1, <1>6, <1>8 DEF Typed, BlockHeld, PagesFor, Run
<1>. QED
  BY <1>0, <1>5, <1>6, <1>7, <1>8, <1>9, LoadStep

LEMMA StackInv ==
    ASSUME IInv, AllocStack \/ MapStackPage \/ LoadDone, UNCHANGED <<token_vars, cpu>>
    PROVE  IInv'
<1>0. /\ Typed /\ ElfTypeOK /\ Len(image.headers) \in Nat /\ i \in 1 .. Len(image.headers) + 1
      /\ result = "none" /\ pc # "done" /\ free \subseteq Frames /\ page \in Nat /\ phys \in Nat
      /\ {starved, clash} \subseteq {"yes", "no"} /\ (clash = "no" => NoneFree /\ BlockHeld)
  <2>1. pc # "done"
    BY DEF AllocStack, MapStackPage, LoadDone
  <2>2. Typed /\ ElfTypeOK /\ Control /\ {starved, clash} \subseteq {"yes", "no"}
    BY DEF IInv, Typed
  <2>3. result = "none" /\ (clash = "no" => NoneFree /\ BlockHeld)
    BY <2>1, <2>2, NoneFreeYet DEF Control
  <2>4. free \subseteq Frames /\ page \in Nat /\ phys \in Nat
    BY <2>2, ElfAssumption DEF ElfTypeOK
  <2>. QED
    BY <2>1, <2>2, <2>3, <2>4, HeaderCount
<1>1. CASE AllocStack
  <2>0. /\ i = Len(image.headers) + 1 /\ page' = 0 /\ pc' = "stack" /\ result' = "none"
        /\ UNCHANGED <<loader, image, i, min_vaddr, load_base, result, mem, mappings>>
    BY <1>0, <1>1 DEF AllocStack, AtHeader
  <2>. DEFINE Safe == /\ free' \subseteq free /\ {starved, clash}' \subseteq {"yes", "no"}
                      /\ phys' \in Frames \cup {0} /\ (clash' = "no" => clash = "no")
                      /\ phys' = 0 \/ (Run(phys', STACK_PAGES) \subseteq Frames
                                         /\ Run(phys', STACK_PAGES) \cap free' = {})
  <2>1. Safe
    <3>1. ASSUME phys' = 0, starved' = "yes", UNCHANGED <<free, clash>> PROVE Safe
      BY <3>1, <1>0
    <3>2. ASSUME NEW f \in Block(STACK_PAGES),
                 phys' = f, Take(f, STACK_PAGES), UNCHANGED starved
          PROVE  Safe
      <4>1. f \in Frames /\ Run(f, STACK_PAGES) \subseteq Frames
        BY BlockInPool
      <4>2. /\ free' = free \ Run(f, STACK_PAGES) /\ clash' \in {"yes", "no"}
            /\ clash' = "no" => clash = "no"
        BY <3>2, <1>0, Taken
      <4>. QED
        BY <4>1, <4>2, <3>2, <1>0
    <3>. HIDE DEF Safe
    <3>. QED
      BY <1>1, <3>1, <3>2 DEF AllocStack
  <2>2. ElfTypeOK' /\ PanicOnlyIfMalformed'
    BY <1>0, <2>0, <2>1 DEF ElfTypeOK, PanicOnlyIfMalformed
  <2>3. DOMAIN mem' = Cells /\ page' <= STACK_PAGES /\ (clash' = "no" => NoneFree' /\ BlockHeld')
    BY <1>0, <2>0, <2>1 DEF Typed, STACK_PAGES, NoneFree, BlockHeld, Run
  <2>. QED
    BY <1>0, <2>0, <2>1, <2>2, <2>3, LoadStep
<1>2. CASE MapStackPage
  <2>0. /\ pc = "stack" /\ page < STACK_PAGES /\ page' = page + 1
        /\ UNCHANGED <<loader, image, pc, i, min_vaddr, load_base, phys, result, free, mem, clash>>
        /\ i = Len(image.headers) + 1
        /\ phys = 0 \/ Run(phys, STACK_PAGES) \subseteq Frames
        /\ clash = "no" => phys = 0 \/ Run(phys, STACK_PAGES) \cap free = {}
    BY <1>0, <1>2 DEF MapStackPage, IInv, Control, BlockHeld
  <2>1. PICK rc \in {0, -1} : MapCall(rc, stack_virt + page * PAGE, stack_flags)
    BY <1>2 DEF MapStackPage
  <2>2. phys + page \in Frames \cup {0, 1} /\ (clash = "no" => phys + page \notin free)
    <3>1. page \in {0, 1} /\ {0, 1} \cap free = {}
      BY <1>0, <2>0, ElfAssumption DEF STACK_PAGES
    <3>2. CASE phys = 0
      BY <3>1, <3>2
    <3>3. CASE phys # 0
      <4>1. phys + page \in Run(phys, STACK_PAGES)
        BY <3>1, <1>0 DEF Run, STACK_PAGES
      <4>. QED
        BY <4>1, <3>3, <2>0
    <3>. QED
      BY <3>2, <3>3
  <2>3. stack_virt + page * PAGE \in Nat /\ pte_rights(stack_flags) \in SUBSET {"u", "w", "x"}
    <3>1. stack_virt \in Nat
      BY ElfAssumption DEF stack_virt, STACK_PAGES
    <3>. QED
      BY <3>1, <1>0, ElfAssumption, FlagsRead
  <2>4. /\ {starved, clash}' \subseteq {"yes", "no"}
        /\ \A v \in DOMAIN mappings' :
              /\ mappings'[v].frame \in Frames \cup {0, 1}
              /\ mappings'[v].rights \subseteq {"u", "w", "x"}
        /\ clash' = "no" => NoneFree'
    BY <2>0, <2>1, <2>2, <2>3, MapCallEffect
  <2>5. ElfTypeOK' /\ PanicOnlyIfMalformed'
    BY <1>0, <2>0, <2>4 DEF ElfTypeOK, PanicOnlyIfMalformed
  <2>6. DOMAIN mem' = Cells /\ page' <= STACK_PAGES /\ (clash' = "no" => BlockHeld')
    BY <1>0, <2>0 DEF Typed, STACK_PAGES, BlockHeld, Run
  <2>. QED
    BY <1>0, <2>0, <2>4, <2>5, <2>6, LoadStep
<1>3. CASE LoadDone
  <2>0. /\ pc = "stack" /\ pc' = "done" /\ result' = "Ok" /\ i = Len(image.headers) + 1
        /\ UNCHANGED <<loader, image, i, page, min_vaddr, load_base, phys>>
        /\ UNCHANGED <<free, mem, mappings, starved, clash>>
    BY <1>3 DEF LoadDone, Finish, machine_vars, IInv, Control
  <2>1. ElfTypeOK' /\ PanicOnlyIfMalformed'
    BY <1>0, <2>0 DEF ElfTypeOK, PanicOnlyIfMalformed
  <2>2. /\ clash' = "no" => NoneFree' /\ BlockHeld'
        /\ DOMAIN mem' = Cells /\ {starved, clash}' \subseteq {"yes", "no"}
    BY <1>0, <2>0 DEF Typed, NoneFree, BlockHeld
  <2>. QED
    BY <1>0, <2>0, <2>1, <2>2, LoadStep
<1>. QED
  BY <1>1, <1>2, <1>3

(* Another caller is given a frame that is held: a clash, and no more.     *)
LEMMA ReissuedInv ==
    ASSUME IInv, Reissued, UNCHANGED <<token_vars, cpu>>
    PROVE  IInv'
<1>1. /\ UNCHANGED <<loader, image, pc, i, page, min_vaddr, load_base, phys, result>>
      /\ UNCHANGED <<free, mem, mappings, starved, vmas, token, tails, cpu>> /\ clash' = "yes"
  BY DEF Reissued, load_vars, token_vars
<1>2. Typed'
  BY <1>1 DEF IInv, Typed, ElfTypeOK, AreasInPool, AreaRun
<1>3. Control'
  BY <1>1 DEF IInv, Control, h
<1>4. PanicOnlyIfMalformed' /\ FreedPagesUnmapped'
  BY <1>1 DEF IInv, PanicOnlyIfMalformed, Headers, FreedPagesUnmapped
<1>. QED
  BY <1>1, <1>2, <1>3, <1>4 DEF IInv

-----------------------------------------------------------------------------
(* The handler takes an area that holds the address.                       *)
LEMMA Greatest ==
    ASSUME NEW a \in Nat, NEW S, S # {}, \A s \in S : s \in 0 .. a
    PROVE  Max(S) \in S /\ \A s \in S : s <= Max(S)
<1>. DEFINE D == {a - s : s \in S}
<1>1. D \in SUBSET Nat
  OBVIOUS
<1>2. D # {}
  OBVIOUS
<1>3. PICK d \in D : \A e \in D : d <= e
  BY <1>1, <1>2, Least
<1>4. PICK m \in S : d = a - m
  OBVIOUS
<1>5. ASSUME NEW s \in S PROVE m >= s
  <2>1. a - s \in D
    OBVIOUS
  <2>2. a - m <= a - s
    BY <2>1, <1>3, <1>4
  <2>3. s \in 0 .. a /\ m \in 0 .. a
    OBVIOUS
  <2>. QED
    BY <2>2, <2>3
<1>6. \E x \in S : \A y \in S : x >= y
  BY <1>5
<1>7. Max(S) \in S /\ \A y \in S : Max(S) >= y
  BY <1>6, Zenon DEF Max
<1>. QED
  BY <1>7

LEMMA FoundArea ==
    ASSUME Typed, NEW a \in Nat, Around(a) # {}
    PROVE  LET s == found_vma(a)
           IN  /\ s \in DOMAIN vmas /\ s \in Nat /\ s <= a /\ a < s + vmas[s].size
               /\ vmas[s].size \in Nat /\ PagesFor(vmas[s].size) \in Nat
<1>0. \A s \in DOMAIN vmas : s \in Nat /\ vmas[s].size \in Nat
  BY ProcessAssumption DEF Typed
<1>1. \A s \in Around(a) : s \in 0 .. a
  BY <1>0 DEF Around
<1>. DEFINE s == found_vma(a)
<1>2. s \in Around(a)
  BY <1>1, Greatest DEF found_vma
<1>. HIDE DEF s
<1>3. s \in DOMAIN vmas /\ s \in Nat /\ s <= a /\ a < s + vmas[s].size /\ vmas[s].size \in Nat
  BY <1>0, <1>2 DEF Around
<1>. QED
  BY <1>3, PagesForRoundsUp DEF s

(* What a program does changes nothing of the load, and where areas may be *)
(* stays the same.                                                         *)
LEMMA ApartStays ==
    ASSUME UNCHANGED <<image, load_base>>, NEW size, NEW a
    PROVE  Apart(size, a)' <=> Apart(size, a)
  BY DEF Apart, Loads, Headers

LEMMA RunStep ==
    ASSUME IInv, Running, UNCHANGED <<load_vars, mem>>,
           Typed', token' = "expired" => DOMAIN vmas' = {}, clash' = "no" => Owned',
           FreedPagesUnmapped'
    PROVE  IInv'
<1>1. UNCHANGED <<loader, image, pc, i, page, min_vaddr, load_base, phys, result>>
  BY DEF load_vars
<1>2. result = "Ok" /\ pc = "done"
  BY DEF Running, IInv, Control, Typed, ElfTypeOK
<1>3. Control'
  BY <1>1, <1>2 DEF IInv, Control
<1>4. PanicOnlyIfMalformed'
  BY <1>1, <1>2 DEF PanicOnlyIfMalformed
<1>. QED
  BY <1>3, <1>4 DEF IInv

LEMMA MemAllocInv ==
    ASSUME IInv, NEW size \in AreaSizes, NEW a \in AreaAddrs, mem_alloc(size, a)
    PROVE  IInv'
<1>0. /\ Running /\ token = "live"
      /\ vmas' = [s \in DOMAIN vmas \cup {a} |->
             IF s = a THEN [size |-> size, phys |-> 0] ELSE vmas[s]]
      /\ clash' = (IF Apart(size, a) THEN clash ELSE "yes")
      /\ UNCHANGED <<load_vars, free, mem, mappings, starved, token, tails, cpu>>
  BY DEF mem_alloc
<1>1. UNCHANGED <<loader, image, pc, i, page, min_vaddr, load_base, phys, result>>
      /\ UNCHANGED <<free, mem, mappings, starved>> /\ UNCHANGED load_vars
  BY <1>0 DEF load_vars
<1>2. \A s \in DOMAIN vmas' : \/ vmas'[s] = [size |-> size, phys |-> 0] /\ s = a
                              \/ s \in DOMAIN vmas /\ vmas'[s] = vmas[s]
  BY <1>0
<1>3. \A s \in DOMAIN vmas' : vmas'[s].phys # 0 => s \in DOMAIN vmas /\ vmas'[s] = vmas[s]
  BY <1>2
<1>4. Typed'
  <2>1. DOMAIN vmas' \subseteq AreaAddrs
    BY <1>0 DEF IInv, Typed
  <2>2. \A s \in DOMAIN vmas' : vmas'[s] \in [size : AreaSizes, phys : Frames \cup {0}]
    BY <1>2 DEF IInv, Typed
  <2>3. AreasInPool'
    BY <1>3 DEF IInv, Typed, AreasInPool, AreaRun
  <2>4. ElfTypeOK'
    BY <1>1 DEF IInv, Typed, ElfTypeOK
  <2>. QED
    BY <2>1, <2>2, <2>3, <2>4, <1>0, <1>1 DEF IInv, Typed
<1>5. ASSUME clash' = "no" PROVE Owned'
  <2>1. clash = "no" /\ Apart(size, a) /\ Owned
    BY <1>0, <1>5 DEF IInv
  <2>2. ASSUME NEW s \in DOMAIN vmas' PROVE Apart(vmas[s].size, s)'
    <3>1. PICK x : x = vmas'[s].size
      OBVIOUS
    <3>2. Apart(x, s)
      BY <1>2, <2>1, <2>2, <3>1 DEF Owned
    <3>3. Apart(x, s)'
      BY <3>2, <1>1, ApartStays
    <3>. QED
      BY <3>1, <3>3
  <2>3. BlockHeld' /\ NoneFree'
    BY <2>1, <1>0, <1>1 DEF Owned, BlockHeld, NoneFree, h
  <2>. QED
    BY <2>1, <2>2, <2>3, <1>0, <1>1, <1>3 DEF Owned, AreaRun
<1>6. FreedPagesUnmapped'
  BY <1>0, <1>1 DEF IInv, FreedPagesUnmapped
<1>. QED
  BY <1>0, <1>1, <1>4, <1>5, <1>6, RunStep

(* Who owns what stays when nothing of it changes.                         *)
LEMMA OwnedStays ==
    ASSUME Owned, UNCHANGED <<image, load_base, pc, i, phys, free, mappings, vmas, token>>
    PROVE  Owned'
<1>1. NoneFree' <=> NoneFree
  BY DEF NoneFree
<1>2. BlockHeld'
  BY DEF Owned, BlockHeld, h
<1>3. ASSUME NEW s \in DOMAIN vmas' PROVE Apart(vmas[s].size, s)'
  <2>1. PICK x : x = vmas[s].size
    OBVIOUS
  <2>2. Apart(x, s)
    BY <1>3, <2>1 DEF Owned
  <2>3. Apart(x, s)'
    BY <2>2, ApartStays
  <2>. QED
    BY <2>1, <2>3
<1>4. \A s \in DOMAIN vmas' : AreaRun(s)' = AreaRun(s)
  BY DEF AreaRun
<1>. QED
  BY <1>1, <1>2, <1>3, <1>4 DEF Owned

LEMMA HaltInv ==
    ASSUME IInv, NEW a, Halt(a)
    PROVE  IInv'
<1>0. /\ Running /\ UNCHANGED <<load_vars, free, mem, mappings, clash, token_vars>>
      /\ starved' \in {"yes", "no"}
  BY DEF Halt, IInv, Typed
<1>1. UNCHANGED <<loader, image, pc, i, page, min_vaddr, load_base, phys, result>>
      /\ UNCHANGED <<vmas, token, tails>>
  BY <1>0 DEF load_vars, token_vars
<1>2. Typed'
  BY <1>0, <1>1 DEF IInv, Typed, ElfTypeOK, AreasInPool, AreaRun
<1>3. (clash' = "no" => Owned') /\ FreedPagesUnmapped'
  BY <1>0, <1>1, OwnedStays DEF IInv, FreedPagesUnmapped
<1>4. token' = "expired" => DOMAIN vmas' = {}
  BY <1>1 DEF IInv, Control
<1>. QED
  BY <1>0, <1>2, <1>3, <1>4, RunStep

(* The first access to an area: a block for it, and some of its pages      *)
(* mapped to their frames of the block.                                    *)
DemandPaged(s, f, done) ==
    LET n == PagesFor(vmas[s].size)
        new == {s \div PAGE + k : k \in done}
    IN  /\ Running /\ s \in Nat /\ n \in Nat /\ vmas[s].phys = 0
        /\ Run(f, n) \subseteq Frames /\ free' = free \ Run(f, n)
        /\ clash' \in {"yes", "no"}
        /\ clash' = "no" => clash = "no" /\ Run(f, n) \subseteq free
        /\ DOMAIN vmas' = DOMAIN vmas
        /\ vmas'[s].size = vmas[s].size /\ vmas'[s].phys = f
        /\ \A t \in DOMAIN vmas : t # s => vmas'[t] = vmas[t]
        /\ vmas'[s] \in [size : AreaSizes, phys : Frames \cup {0}]
        /\ DOMAIN mappings' = DOMAIN mappings \cup new
        /\ \A v \in new : /\ mappings'[v].frame = f + (v - s \div PAGE)
                          /\ mappings'[v].rights = {"u", "w", "x"}
        /\ \A v \in DOMAIN mappings \ new : mappings'[v] = mappings[v]
        /\ starved' = (IF done = 0 .. n - 1 THEN starved ELSE "yes")
        /\ UNCHANGED <<load_vars, mem, token, tails, cpu>>

LEMMA DemandPageEffect ==
    ASSUME IInv, NEW a \in Touched, DemandPage(a)
    PROVE  \E s \in DOMAIN vmas, f \in Frames :
             \E done \in SUBSET (0 .. PagesFor(vmas[s].size) - 1) : DemandPaged(s, f, done)
<1>. DEFINE s == found_vma(a)
            n == PagesFor(vmas[s].size)
<1>0. Running /\ Around(a) # {} /\ vmas[s].phys = 0
      /\ UNCHANGED <<load_vars, mem, token, tails, cpu>>
  BY DEF DemandPage, NotYetBacked
<1>1. Typed /\ a \in Nat /\ Frames \subseteq Nat /\ clash \in {"yes", "no"}
  BY ProcessAssumption, ElfAssumption DEF IInv, Typed
<1>2. s \in DOMAIN vmas /\ s \in Nat /\ vmas[s].size \in Nat /\ n \in Nat
  BY <1>0, <1>1, FoundArea
<1>3. PICK f \in Block(n), done \in SUBSET (0 .. n - 1) :
         LET new == {s \div PAGE + k : k \in done}
         IN  /\ Take(f, n)
             /\ vmas' = [vmas EXCEPT ![s].phys = f]
             /\ mappings' = [v \in DOMAIN mappings \cup new |->
                    IF v \in new THEN [frame |-> f + v - s \div PAGE, rights |-> pte_rights(vma_flags)]
                                 ELSE mappings[v]]
             /\ starved' = IF done = 0 .. n - 1 THEN starved ELSE "yes"
  BY Zenon DEF DemandPage, fault_pages
<1>. DEFINE new == {s \div PAGE + k : k \in done}
<1>4. /\ f \in Frames /\ Run(f, n) \subseteq Frames
      /\ free' = free \ Run(f, n) /\ clash' \in {"yes", "no"}
      /\ clash' = "no" => clash = "no" /\ Run(f, n) \subseteq free
  BY <1>1, <1>3, BlockInPool, Taken
<1>5. s \div PAGE \in Nat
  BY <1>2, ElfAssumption, DivMod
<1>6. vmas[s] \in [size : AreaSizes, phys : Frames \cup {0}]
  BY <1>1, <1>2 DEF Typed
<1>. HIDE DEF s, n
<1>7. /\ DOMAIN vmas' = DOMAIN vmas
      /\ vmas'[s].size = vmas[s].size /\ vmas'[s].phys = f
      /\ \A t \in DOMAIN vmas : t # s => vmas'[t] = vmas[t]
      /\ vmas'[s] \in [size : AreaSizes, phys : Frames \cup {0}]
  <2>. DEFINE e == [vmas[s] EXCEPT !.phys = f]
  <2>1. e.size = vmas[s].size /\ e.phys = f /\ e \in [size : AreaSizes, phys : Frames \cup {0}]
    BY <1>1, <1>4, <1>6
  <2>2. vmas' = [vmas EXCEPT ![s] = e]
    BY <1>3, Zenon
  <2>. HIDE DEF e
  <2>. QED
    BY <1>2, <2>1, <2>2
<1>8. \A v \in new : v \in Nat
  BY <1>2, <1>5
<1>9. mappings' = [v \in DOMAIN mappings \cup new |->
                    IF v \in new THEN [frame |-> f + v - s \div PAGE, rights |-> {"u", "w", "x"}]
                                 ELSE mappings[v]]
  <2>1. pte_rights(vma_flags) = {"u", "w", "x"}
    BY FlagsRead
  <2>. QED
    BY <1>3, <2>1
<1>. HIDE DEF new
<1>10. /\ DOMAIN mappings' = DOMAIN mappings \cup new
       /\ \A v \in new : /\ mappings'[v].frame = f + (v - s \div PAGE)
                         /\ mappings'[v].rights = {"u", "w", "x"}
       /\ \A v \in DOMAIN mappings \ new : mappings'[v] = mappings[v]
  <2>1. \A v \in new : f + v - s \div PAGE = f + (v - s \div PAGE)
    BY <1>1, <1>4, <1>5, <1>8
  <2>. QED
    BY <1>9, <2>1
<1>11. starved' = (IF done = 0 .. n - 1 THEN starved ELSE "yes")
  BY <1>3
<1>. QED
  BY <1>0, <1>2, <1>4, <1>7, <1>10, <1>11 DEF n, new, s, DemandPaged

LEMMA DemandPageInv ==
    ASSUME IInv, NEW a \in Touched, DemandPage(a)
    PROVE  IInv'
<1>1. PICK s \in DOMAIN vmas, f \in Frames :
         \E done \in SUBSET (0 .. PagesFor(vmas[s].size) - 1) : DemandPaged(s, f, done)
  BY DemandPageEffect
<1>2. PICK done \in SUBSET (0 .. PagesFor(vmas[s].size) - 1) : DemandPaged(s, f, done)
  BY <1>1
<1>. DEFINE n == PagesFor(vmas[s].size)
            new == {s \div PAGE + k : k \in done}
<1>3. /\ Running /\ s \in Nat /\ n \in Nat /\ vmas[s].phys = 0
      /\ Run(f, n) \subseteq Frames /\ free' = free \ Run(f, n)
      /\ clash' \in {"yes", "no"}
      /\ clash' = "no" => clash = "no" /\ Run(f, n) \subseteq free
      /\ DOMAIN vmas' = DOMAIN vmas
      /\ vmas'[s].size = vmas[s].size /\ vmas'[s].phys = f
      /\ \A t \in DOMAIN vmas : t # s => vmas'[t] = vmas[t]
      /\ vmas'[s] \in [size : AreaSizes, phys : Frames \cup {0}]
      /\ DOMAIN mappings' = DOMAIN mappings \cup new
      /\ \A v \in new : /\ mappings'[v].frame = f + (v - s \div PAGE)
                        /\ mappings'[v].rights = {"u", "w", "x"}
      /\ \A v \in DOMAIN mappings \ new : mappings'[v] = mappings[v]
      /\ starved' \in {starved, "yes"}
      /\ UNCHANGED <<load_vars, mem, token, tails, cpu>>
  BY <1>2 DEF DemandPaged
<1>4. /\ Typed /\ ElfTypeOK /\ free \subseteq Frames /\ Frames \subseteq Nat /\ f \in Nat
      /\ token = "live"
  BY ElfAssumption DEF IInv, Typed, ElfTypeOK, Control
<1>5. s \div PAGE \in Nat
  BY <1>3, ElfAssumption, DivMod
<1>6. \A v \in new : v - s \div PAGE \in 0 .. n - 1 /\ v = s \div PAGE + (v - s \div PAGE)
  BY <1>3, <1>5
<1>. HIDE DEF new, n
<1>7. \A v \in new : mappings'[v].frame \in Run(f, n)
  BY <1>3, <1>4, <1>6 DEF Run
<1>8. clash' = "no" => NoneFree /\ NoneFree'
  BY <1>3, <1>4, <1>7 DEF IInv, Owned, NoneFree
<1>9. ElfTypeOK'
  <2>1. UNCHANGED <<image, loader, pc, i, page, min_vaddr, load_base, phys, result>>
    BY <1>3 DEF load_vars
  <2>2. \A v \in DOMAIN mappings' : mappings'[v].frame \in Frames \cup {0, 1}
    BY <1>3, <1>4, <1>7 DEF ElfTypeOK
  <2>3. \A v \in DOMAIN mappings' : mappings'[v].rights \subseteq {"u", "w", "x"}
    BY <1>3, <1>4 DEF ElfTypeOK
  <2>. QED
    BY <2>1, <2>2, <2>3, <1>3, <1>4 DEF ElfTypeOK
<1>10. Typed'
  <2>1. UNCHANGED <<image, loader>>
    BY <1>3 DEF load_vars
  <2>2. \A t \in DOMAIN vmas' : vmas'[t] \in [size : AreaSizes, phys : Frames \cup {0}]
    BY <1>3, <1>4 DEF Typed
  <2>3. AreaRun(s)' = Run(f, n)
    BY <1>3 DEF AreaRun, n, PagesFor
  <2>4. \A t \in DOMAIN vmas : t # s => AreaRun(t)' = AreaRun(t)
    BY <1>3 DEF AreaRun
  <2>5. \A t \in DOMAIN vmas' : vmas'[t].phys # 0 => AreaRun(t)' \subseteq Frames
    BY <2>3, <2>4, <1>3, <1>4 DEF Typed, AreasInPool
  <2>. QED
    BY <2>1, <2>2, <2>5, <1>3, <1>4, <1>9 DEF Typed, AreasInPool
<1>11. ASSUME clash' = "no", NEW t \in DOMAIN vmas', vmas'[t].phys # 0
       PROVE  /\ AreaRun(t)' \cap free' = {}
              /\ \A v \in DOMAIN mappings' : mappings'[v].frame \in AreaRun(t)' =>
                    v = t \div PAGE + (mappings'[v].frame - vmas'[t].phys)
  <2>1. CASE t = s
    <3>1. AreaRun(t)' = Run(f, n)
      BY <2>1, <1>3 DEF AreaRun, n, PagesFor
    <3>2. \A v \in new : v = s \div PAGE + ((f + (v - s \div PAGE)) - f)
      BY <1>4, <1>6
    <3>3. \A v \in DOMAIN mappings \ new : mappings[v].frame \notin Run(f, n)
      BY <1>3, <1>8, <1>11 DEF NoneFree
    <3>4. Run(f, n) \cap free' = {}
      BY <1>3
    <3>5. ASSUME NEW v \in DOMAIN mappings', mappings'[v].frame \in Run(f, n)
          PROVE  v = s \div PAGE + (mappings'[v].frame - f)
      <4>1. v \in new
        BY <3>3, <3>5, <1>3
      <4>. QED
        BY <4>1, <3>2, <1>3
    <3>. QED
      BY <2>1, <3>1, <3>4, <3>5, <1>3
  <2>2. CASE t # s
    <3>1. AreaRun(t)' = AreaRun(t) /\ vmas'[t] = vmas[t] /\ t \in DOMAIN vmas
      BY <2>2, <1>3, <1>11 DEF AreaRun
    <3>2. /\ AreaRun(t) \cap free = {}
          /\ \A v \in DOMAIN mappings : mappings[v].frame \in AreaRun(t) =>
                v = t \div PAGE + (mappings[v].frame - vmas[t].phys)
      BY <3>1, <1>3, <1>11 DEF IInv, Owned
    <3>3. \A v \in new : mappings'[v].frame \notin AreaRun(t)
      BY <3>2, <1>3, <1>7, <1>11
    <3>. QED
      BY <3>1, <3>2, <3>3, <1>3
  <2>. QED
    BY <2>1, <2>2
<1>12. ASSUME clash' = "no" PROVE Owned'
  <2>1. UNCHANGED <<image, load_base, pc, result>> /\ pc = "done"
    BY <1>3 DEF load_vars, Running, IInv, Control, Typed, ElfTypeOK
  <2>2. BlockHeld'
    BY <2>1 DEF BlockHeld
  <2>3. ASSUME NEW t \in DOMAIN vmas' PROVE Apart(vmas[t].size, t)'
    <3>1. Apart(vmas[t].size, t) /\ vmas'[t].size = vmas[t].size
      BY <1>3, <1>12, <2>3 DEF IInv, Owned
    <3>. QED
      BY <3>1, <2>1 DEF Apart, Loads, Headers, PagesFor
  <2>. QED
    BY <2>2, <2>3, <1>8, <1>11, <1>12 DEF Owned, AreaRun
<1>13. FreedPagesUnmapped'
  BY <1>8 DEF FreedPagesUnmapped, NoneFree
<1>. QED
  BY <1>3, <1>4, <1>10, <1>12, <1>13, RunStep

(* The expiry of the token: what stays mapped to a frame of an area is the *)
(* page behind those that were unmapped.                                   *)
LEMMA ExpireInv ==
    ASSUME IInv, Expire
    PROVE  IInv'
<1>0. /\ Running /\ token = "live" /\ token' = "expired" /\ DOMAIN vmas' = {}
      /\ mappings' = [v \in DOMAIN mappings \ UNION {unmapped(s) : s \in DOMAIN vmas} |-> mappings[v]]
      /\ free' = free \cup UNION {AreaRun(s) : s \in {t \in DOMAIN vmas : vmas[t].phys # 0}}
      /\ tails' = {s \div PAGE + vmas[s].size \div PAGE : s \in {t \in DOMAIN vmas : vmas[t].size % PAGE # 0}}
      /\ UNCHANGED <<load_vars, mem, starved, clash, memory_used, cpu>>
  BY DEF Expire, AreaRun
<1>1. UNCHANGED <<image, loader, pc, i, page, min_vaddr, load_base, phys, result>>
  BY <1>0 DEF load_vars
<1>2. \A v \in DOMAIN mappings' :
         /\ v \in DOMAIN mappings /\ mappings'[v] = mappings[v]
         /\ \A s \in DOMAIN vmas : v \notin unmapped(s)
  BY <1>0
<1>3. free' \subseteq Frames
  BY <1>0 DEF IInv, Typed, ElfTypeOK, AreasInPool
<1>4. ElfTypeOK'
  BY <1>1, <1>2, <1>3 DEF IInv, Typed, ElfTypeOK
<1>5. Typed'
  BY <1>0, <1>1, <1>4 DEF IInv, Typed, AreasInPool
<1>6. FreedPagesUnmapped'
  <2>1. SUFFICES ASSUME Owned, NEW v \in DOMAIN mappings', mappings'[v].frame \in free'
                 PROVE  v \in tails'
    BY <1>0 DEF FreedPagesUnmapped, IInv
  <2>. DEFINE fr == mappings[v].frame
  <2>2. v \in DOMAIN mappings /\ fr \in free' /\ fr \notin free
    BY <1>0, <1>2, <2>1 DEF Owned, NoneFree
  <2>3. PICK s \in DOMAIN vmas : vmas[s].phys # 0 /\ fr \in AreaRun(s)
    BY <1>0, <2>2
  <2>. DEFINE size == vmas[s].size
              k == fr - vmas[s].phys
  <2>4. size \in Nat /\ s \in Nat /\ vmas[s].phys \in Nat
    <3>1. s \in AreaAddrs /\ vmas[s] \in [size : AreaSizes, phys : Frames \cup {0}]
      BY DEF IInv, Typed
    <3>2. vmas[s].size \in AreaSizes /\ vmas[s].phys \in Frames \cup {0}
      BY <3>1
    <3>3. AreaSizes \subseteq Nat /\ AreaAddrs \subseteq Nat /\ Frames \cup {0} \subseteq Nat
      BY ProcessAssumption, ElfAssumption
    <3>. QED
      BY <3>1, <3>2, <3>3
  <2>5. v = s \div PAGE + k
    BY <2>1, <2>2, <2>3 DEF Owned
  <2>6. k \in 0 .. PagesFor(size) - 1
    <3>1. PagesFor(size) \in Nat
      BY <2>4, PagesForRoundsUp
    <3>. QED
      BY <3>1, <2>3, <2>4 DEF AreaRun, Run
  <2>7. size \div PAGE \in Nat /\ s \div PAGE \in Nat
    BY <2>4, ElfAssumption, DivMod
  <2>. HIDE DEF size, k, fr
  <2>8. k \notin 0 .. (size \div PAGE) - 1
    BY <1>2, <2>1, <2>5 DEF unmapped, size
  <2>9. PagesFor(size) = size \div PAGE + (IF size % PAGE = 0 THEN 0 ELSE 1)
    BY <2>4, PagesForRoundsUp
  <2>10. k = size \div PAGE /\ size % PAGE # 0
    <3>1. CASE size % PAGE = 0
      BY <3>1, <2>6, <2>7, <2>8, <2>9
    <3>2. CASE size % PAGE # 0
      BY <3>2, <2>6, <2>7, <2>8, <2>9
    <3>. QED
      BY <3>1, <3>2
  <2>. QED
    BY <1>0, <2>5, <2>10 DEF size
<1>7. clash' = "no" => Owned'
  <2>1. pc' = "done"
    BY <1>0, <1>1 DEF Running, IInv, Control, Typed, ElfTypeOK
  <2>. QED
    BY <1>0, <2>1 DEF Owned, BlockHeld
<1>. QED
  BY <1>0, <1>5, <1>6, <1>7, RunStep

-----------------------------------------------------------------------------
LEMMA NextInv ==
    ASSUME IInv, [Next]_process_vars
    PROVE  IInv'
<1>1. CASE UNCHANGED process_vars
  <2>1. /\ UNCHANGED <<loader, image, pc, i, page, min_vaddr, load_base, phys, result>>
        /\ UNCHANGED <<free, mem, mappings, starved, clash, vmas, memory_used, token, tails, cpu>>
    BY <1>1 DEF process_vars, elf_vars, load_vars, machine_vars, token_vars
  <2>2. Typed'
    BY <2>1 DEF IInv, Typed, ElfTypeOK, AreasInPool, AreaRun
  <2>3. Control'
    BY <2>1 DEF IInv, Control, h
  <2>4. (clash' = "no" => Owned') /\ FreedPagesUnmapped'
    BY <2>1, OwnedStays DEF IInv, FreedPagesUnmapped
  <2>5. PanicOnlyIfMalformed'
    BY <2>1 DEF IInv, PanicOnlyIfMalformed, Headers
  <2>. QED
    BY <2>2, <2>3, <2>4, <2>5 DEF IInv
<1>2. CASE ElfNext /\ UNCHANGED <<token_vars, cpu>>
  BY <1>2, ScanInv, LoadSegmentInv, MapSegmentInv, StackInv, ReissuedInv DEF ElfNext
<1>3. CASE Next
  BY <1>2, <1>3, MemAllocInv, DemandPageInv, HaltInv, ExpireInv DEF Next
<1>. QED
  BY <1>1, <1>3

(* The invariant of loading and running, whatever the files and the areas. *)
THEOREM ProcessInvariant == Spec => []IInv
  BY InitInv, NextInv, PTL DEF Spec

(* Type correctness of the loader: mapped frames exist.                    *)
THEOREM ElfTyped == Spec => []ElfTypeOK
<1>1. IInv => ElfTypeOK
  BY DEF IInv, Typed
<1>. QED
  BY <1>1, ProcessInvariant, PTL

(* load_elf panics on a malformed file only, never on a truncated one.     *)
THEOREM OnlyMalformedFilesPanic == Spec => []PanicOnlyIfMalformed
<1>1. IInv => PanicOnlyIfMalformed
  BY DEF IInv
<1>. QED
  BY <1>1, ProcessInvariant, PTL

(* rust_kernel_tick leaves no page mapped to a frame it gave back, but the *)
(* one past the whole pages of an area: also for areas that overlap, that  *)
(* replace each other or that start inside a page.                         *)
THEOREM FreedFramesUnmapped == Spec => []FreedPagesUnmapped
<1>1. IInv => FreedPagesUnmapped
  BY DEF IInv
<1>. QED
  BY <1>1, ProcessInvariant, PTL

-----------------------------------------------------------------------------
(* Cells of pages and of frames.                                           *)
LEMMA PageOf ==
    ASSUME NEW a \in Nat, NEW n \in Nat
    PROVE  /\ (a + n * PAGE) \div PAGE = a \div PAGE + n
           /\ (a + n * PAGE) % PAGE = a % PAGE
<1>0. PAGE \in Nat \ {0} /\ n * PAGE \in Nat /\ a + n * PAGE \in Nat
  BY ElfAssumption
<1>. DEFINE q == a \div PAGE
            r == a % PAGE
            x == (a + n * PAGE) \div PAGE
            y == (a + n * PAGE) % PAGE
<1>1. a = PAGE * q + r /\ r \in 0 .. PAGE - 1 /\ q \in Nat
  BY <1>0, DivMod
<1>2. a + n * PAGE = PAGE * x + y /\ y \in 0 .. PAGE - 1 /\ x \in Nat
  BY <1>0, DivMod
<1>. HIDE DEF q, r, x, y
<1>3. /\ PAGE * (q + n + 1) = PAGE * q + n * PAGE + PAGE /\ PAGE * (x + 1) = PAGE * x + PAGE
      /\ PAGE * (q + n) = PAGE * q + n * PAGE
      /\ PAGE * q \in Nat /\ PAGE * x \in Nat
  BY <1>0, <1>1, <1>2
<1>4. PAGE * x < PAGE * (q + n + 1) /\ PAGE * (q + n) < PAGE * (x + 1)
  BY <1>0, <1>1, <1>2, <1>3
<1>5. x < q + n + 1 /\ q + n < x + 1
  BY <1>0, <1>1, <1>2, <1>4, MulLess
<1>6. x = q + n
  BY <1>1, <1>2, <1>5
<1>7. y = r
  BY <1>0, <1>1, <1>2, <1>3, <1>6
<1>. QED
  BY <1>6, <1>7 DEF q, r, x, y

(* Cell k behind a page border is cell k % PAGE of the page k \div PAGE on. *)
LEMMA CellOf ==
    ASSUME NEW a \in Nat, a % PAGE = 0, NEW k \in Nat
    PROVE  /\ (a + k) \div PAGE = a \div PAGE + k \div PAGE
           /\ (a + k) % PAGE = k % PAGE
<1>0. PAGE \in Nat \ {0}
  BY ElfAssumption
<1>. DEFINE q == a \div PAGE
<1>1. a = PAGE * q /\ q \in Nat
  BY <1>0, DivMod
<1>2. a + k = k + q * PAGE
  <2>. HIDE DEF q
  <2>. QED
    BY <1>0, <1>1
<1>3. k \div PAGE \in Nat
  BY <1>0, DivMod
<1>4. (k + q * PAGE) \div PAGE = k \div PAGE + q /\ (k + q * PAGE) % PAGE = k % PAGE
  BY <1>1, PageOf
<1>. QED
  BY <1>1, <1>2, <1>3, <1>4

(* A cell of n cells is in one of their pages.                             *)
LEMMA PageInside ==
    ASSUME NEW n \in Nat, NEW k \in 0 .. n - 1
    PROVE  /\ k \div PAGE \in 0 .. PagesFor(n) - 1 /\ k % PAGE \in 0 .. PAGE - 1
           /\ k = (k \div PAGE) * PAGE + (k % PAGE)
<1>0. PAGE \in Nat \ {0} /\ k \in Nat /\ k < n
  BY ElfAssumption
<1>. DEFINE q == k \div PAGE
            r == k % PAGE
<1>1. k = PAGE * q + r /\ r \in 0 .. PAGE - 1 /\ q \in Nat
  BY <1>0, DivMod
<1>2. PagesFor(n) \in Nat /\ n <= PAGE * PagesFor(n)
  BY PagesForRoundsUp
<1>. HIDE DEF q, r
<1>3. PAGE * q \in Nat /\ PAGE * PagesFor(n) \in Nat /\ PAGE * q = q * PAGE
  BY <1>0, <1>1, <1>2
<1>4. PAGE * q < PAGE * PagesFor(n)
  BY <1>0, <1>1, <1>2, <1>3
<1>5. q < PagesFor(n)
  BY <1>0, <1>1, <1>2, <1>4, MulLess
<1>6. q \in 0 .. PagesFor(n) - 1
  BY <1>1, <1>2, <1>5
<1>7. k = q * PAGE + r
  BY <1>1, <1>3
<1>8. r \in 0 .. PAGE - 1
  BY <1>1
<1>. QED
  BY <1>6, <1>7, <1>8 DEF q, r

(* The cells of a frame outside a block are not cells of the block.        *)
LEMMA OtherFrame ==
    ASSUME NEW f \in Nat, NEW g \in Nat, NEW n \in Nat, NEW c \in 0 .. PAGE - 1,
           g \notin Run(f, PagesFor(n))
    PROVE  (g * PAGE + c) - f * PAGE \notin 0 .. n - 1
<1>0. PAGE \in Nat \ {0} /\ PagesFor(n) \in Nat /\ n <= PAGE * PagesFor(n)
  BY ElfAssumption, PagesForRoundsUp
<1>1. SUFFICES ASSUME (g * PAGE + c) - f * PAGE \in 0 .. n - 1 PROVE FALSE
  OBVIOUS
<1>2. /\ g * PAGE \in Nat /\ f * PAGE \in Nat /\ PAGE * (g - f) = g * PAGE - f * PAGE
      /\ PAGE * (-1) = - PAGE /\ PAGE * PagesFor(n) \in Nat
  BY <1>0
<1>3. PAGE * (-1) < PAGE * (g - f) /\ PAGE * (g - f) < PAGE * PagesFor(n)
  BY <1>0, <1>1, <1>2
<1>4. -1 < g - f /\ g - f < PagesFor(n)
  BY <1>0, <1>3, MulLess
<1>. QED
  BY <1>0, <1>4 DEF Run

-----------------------------------------------------------------------------
(* Where segments are, and that they are apart.                            *)
LEMMA LoadHeader ==
    ASSUME Typed, NEW n \in LoadsAt
    PROVE  /\ n \in 1 .. Len(image.headers) /\ image.headers[n] \in Header
           /\ image.headers[n] \in Loads /\ n \in DOMAIN image.headers
           /\ image.headers[n].p_vaddr \in Nat /\ image.headers[n].p_memsz \in Nat
           /\ PagesAt(n) \in Nat
<1>1. image.headers \in Seq(Header)
  BY ElfAssumption DEF Typed, Image
<1>2. n \in DOMAIN image.headers /\ n \in 1 .. Len(image.headers) /\ image.headers[n] \in Header
  BY <1>1 DEF LoadsAt
<1>3. image.headers[n].p_vaddr \in Nat /\ image.headers[n].p_memsz \in Nat
  BY <1>2 DEF Header
<1>4. image.headers[n] \in Loads
  BY <1>2 DEF LoadsAt, Loads, Headers
<1>. QED
  BY <1>2, <1>3, <1>4, PagesForRoundsUp DEF PagesAt

LEMMA FirstPageIs ==
    ASSUME Typed, NEW s, s.p_vaddr \in Nat
    PROVE  /\ FirstPage(s) = load_base \div PAGE + s.p_vaddr \div PAGE
           /\ FirstPage(s) \in Nat /\ load_base \in Nat /\ load_base % PAGE = 0
           /\ load_base \div PAGE \in Nat /\ s.p_vaddr \div PAGE \in Nat
<1>1. load_base \in Nat /\ load_base % PAGE = 0 /\ PAGE \in Nat \ {0}
  BY ElfAssumption DEF Typed, ElfTypeOK
<1>2. (load_base + s.p_vaddr) \div PAGE = load_base \div PAGE + s.p_vaddr \div PAGE
  BY <1>1, CellOf
<1>3. load_base \div PAGE \in Nat /\ s.p_vaddr \div PAGE \in Nat
  BY <1>1, DivMod
<1>. QED
  BY <1>1, <1>2, <1>3 DEF FirstPage

LEMMA SegmentsApart ==
    ASSUME Typed, WellPlaced, NEW m \in LoadsAt, NEW n \in LoadsAt, m # n
    PROVE  Run(FirstPage(image.headers[m]), PagesAt(m))
               \cap Run(FirstPage(image.headers[n]), PagesAt(n)) = {}
<1>. DEFINE s == image.headers[m]
            t == image.headers[n]
<1>1. SegmentPages(s) \cap SegmentPages(t) = {}
  BY LoadHeader DEF WellPlaced
<1>2. /\ FirstPage(s) = load_base \div PAGE + s.p_vaddr \div PAGE
      /\ FirstPage(t) = load_base \div PAGE + t.p_vaddr \div PAGE
      /\ load_base \div PAGE \in Nat /\ s.p_vaddr \div PAGE \in Nat /\ t.p_vaddr \div PAGE \in Nat
  BY LoadHeader, FirstPageIs
<1>3. PagesAt(m) \in Nat /\ PagesAt(n) \in Nat
  BY LoadHeader
<1>4. /\ SegmentPages(s) = Run(s.p_vaddr \div PAGE, PagesAt(m))
      /\ SegmentPages(t) = Run(t.p_vaddr \div PAGE, PagesAt(n))
  BY DEF SegmentPages, PagesAt
<1>. HIDE DEF s, t
<1>5. ASSUME NEW v \in Run(FirstPage(s), PagesAt(m)), v \in Run(FirstPage(t), PagesAt(n)) PROVE FALSE
  <2>1. /\ v - load_base \div PAGE \in Run(s.p_vaddr \div PAGE, PagesAt(m))
        /\ v - load_base \div PAGE \in Run(t.p_vaddr \div PAGE, PagesAt(n))
    BY <1>2, <1>3, <1>5 DEF Run
  <2>. QED
    BY <2>1, <1>1, <1>4
<1>. QED
  BY <1>5 DEF s, t

LEMMA StackApart ==
    ASSUME Typed, WellPlaced, load_base = base, NEW n \in LoadsAt
    PROVE  Run(FirstPage(image.headers[n]), PagesAt(n)) \cap StackPages = {}
<1>. DEFINE s == image.headers[n]
            b == load_base \div PAGE
<1>1. {b + p : p \in SegmentPages(s)} \cap StackPages = {}
  BY LoadHeader DEF WellPlaced
<1>2. FirstPage(s) = b + s.p_vaddr \div PAGE /\ b \in Nat /\ s.p_vaddr \div PAGE \in Nat
  BY LoadHeader, FirstPageIs
<1>3. PagesAt(n) \in Nat /\ SegmentPages(s) = Run(s.p_vaddr \div PAGE, PagesAt(n))
  BY LoadHeader DEF SegmentPages, PagesAt
<1>. HIDE DEF s, b
<1>4. ASSUME NEW v \in Run(FirstPage(s), PagesAt(n)) PROVE v \notin StackPages
  <2>1. v - b \in Run(s.p_vaddr \div PAGE, PagesAt(n)) /\ v = b + (v - b)
    BY <1>2, <1>3, <1>4 DEF Run
  <2>. QED
    BY <2>1, <1>1, <1>3
<1>. QED
  BY <1>4 DEF s

(* Neither reaches an area.                                                *)
LEMMA AreasClear ==
    ASSUME Typed, Owned, NEW s \in DOMAIN vmas
    PROVE  /\ \A n \in LoadsAt : Run(FirstPage(image.headers[n]), PagesAt(n))
                                    \cap Run(s \div PAGE, PagesFor(vmas[s].size)) = {}
           /\ Run(s \div PAGE, PagesFor(vmas[s].size)) \cap StackPages = {}
           /\ s % PAGE = 0
<1>. DEFINE pages == Run(s \div PAGE, PagesFor(vmas[s].size))
<1>1. /\ s % PAGE = 0 /\ pages \cap StackPages = {}
      /\ \A t \in Loads : pages \cap {load_base \div PAGE + p : p \in SegmentPages(t)} = {}
  BY DEF Owned, Apart
<1>. HIDE DEF pages
<1>2. ASSUME NEW n \in LoadsAt, NEW v \in Run(FirstPage(image.headers[n]), PagesAt(n))
      PROVE  v \notin pages
  <2>. DEFINE t == image.headers[n]
              b == load_base \div PAGE
  <2>1. FirstPage(t) = b + t.p_vaddr \div PAGE /\ b \in Nat /\ t.p_vaddr \div PAGE \in Nat
    BY LoadHeader, FirstPageIs
  <2>2. PagesAt(n) \in Nat /\ SegmentPages(t) = Run(t.p_vaddr \div PAGE, PagesAt(n))
    BY LoadHeader DEF SegmentPages, PagesAt
  <2>3. pages \cap {b + p : p \in SegmentPages(t)} = {}
    BY <1>1, LoadHeader
  <2>. HIDE DEF t, b
  <2>4. v - b \in Run(t.p_vaddr \div PAGE, PagesAt(n)) /\ v = b + (v - b)
    BY <1>2, <2>1, <2>2 DEF Run, t
  <2>. QED
    BY <2>2, <2>3, <2>4
<1>. QED
  BY <1>1, <1>2 DEF pages

-----------------------------------------------------------------------------
(* What a step leaves alone, and that it is none with a clash.             *)
NoClash == clash = "no" /\ clash' = "no"
SameLoad == UNCHANGED <<loader, image, min_vaddr, load_base>>
Monotone == starved = "yes" => starved' = "yes"

\* The mapping of page v, and the cells of its frame.
Same(v) ==
    /\ v \in DOMAIN mappings <=> v \in DOMAIN mappings'
    /\ v \in DOMAIN mappings =>
          /\ mappings'[v] = mappings[v]
          /\ \A c \in 0 .. PAGE - 1 :
                mem'[mappings[v].frame * PAGE + c] = mem[mappings[v].frame * PAGE + c]

LEMMA HeldStays ==
    ASSUME SameLoad, Monotone, NEW s, NEW j, PageHeld(s, j), Same(FirstPage(s) + j)
    PROVE  PageHeld(s, j)'
<1>. DEFINE v == FirstPage(s) + j
<1>1. FirstPage(s)' = FirstPage(s) /\ \A k : FileCell(s, k)' = FileCell(s, k)
  BY DEF SameLoad, FirstPage, FileCell
<1>2. CASE v \in DOMAIN mappings
  <2>1. v \in DOMAIN mappings' /\ mappings'[v] = mappings[v]
    BY <1>2 DEF Same
  <2>2. /\ mappings[v].rights = {"u"} \cup s.p_flags
        /\ \A c \in 0 .. PAGE - 1 : j * PAGE + c < s.p_memsz =>
              mem[mappings[v].frame * PAGE + c] = FileCell(s, j * PAGE + c)
    BY <1>2 DEF PageHeld
  <2>3. \A c \in 0 .. PAGE - 1 :
              mem'[mappings[v].frame * PAGE + c] = mem[mappings[v].frame * PAGE + c]
    BY <1>2 DEF Same
  <2>4. /\ mappings'[v].rights = {"u"} \cup s.p_flags
        /\ \A c \in 0 .. PAGE - 1 : j * PAGE + c < s.p_memsz =>
              mem'[mappings'[v].frame * PAGE + c] = FileCell(s, j * PAGE + c)
    BY <2>1, <2>2, <2>3
  <2>. QED
    BY <1>1, <2>1, <2>4 DEF PageHeld
<1>3. CASE v \notin DOMAIN mappings
  <2>1. v \notin DOMAIN mappings' /\ loader = "kernel" /\ starved = "yes"
    BY <1>3 DEF Same, PageHeld
  <2>. QED
    BY <1>1, <2>1 DEF PageHeld, SameLoad, Monotone
<1>. QED
  BY <1>2, <1>3

LEMMA WellPlacedStays ==
    ASSUME SameLoad
    PROVE  /\ WellPlaced' <=> WellPlaced
           /\ LoadsAt' = LoadsAt /\ base' = base
           /\ \A n : PagesAt(n)' = PagesAt(n)
           /\ \A s : FirstPage(s)' = FirstPage(s)
<1>1. image' = image /\ min_vaddr' = min_vaddr /\ load_base' = load_base
  BY DEF SameLoad
<1>2. base' = base /\ Loads' = Loads
  BY <1>1 DEF base, Loads, Headers
<1>3. WellPlaced' <=> WellPlaced
  BY <1>1, <1>2 DEF WellPlaced
<1>. QED
  BY <1>1, <1>2, <1>3 DEF LoadsAt, PagesAt, FirstPage

(* The segments of headers before i stay held.                             *)
LEMMA SegmentsStay ==
    ASSUME SameLoad, Monotone, Past, Placed, WellPlaced,
           NEW n \in LoadsAt, n < i, NEW j \in 0 .. PagesAt(n) - 1,
           Same(FirstPage(image.headers[n]) + j)
    PROVE  PageHeld(image.headers[n], j)'
<1>1. PICK s : s = image.headers[n]
  OBVIOUS
<1>2. s = image'.headers[n]
  BY <1>1 DEF SameLoad
<1>3. PageHeld(s, j) /\ Same(FirstPage(s) + j)
  BY <1>1 DEF Placed
<1>4. PageHeld(s, j)'
  BY <1>3, HeldStays
<1>. QED
  BY <1>2, <1>4

-----------------------------------------------------------------------------
(* While load_elf runs there are no areas.                                 *)
Progress == Scanned /\ Filled /\ Placed /\ NothingElse /\ StackPlaced

LEMMA LoadProgress ==
    ASSUME IInv, pc # "done", UNCHANGED <<token_vars, cpu>>, Progress'
    PROVE  LInv'
<1>1. DOMAIN vmas' = {}
  BY DEF IInv, Control, token_vars
<1>. QED
  BY <1>1 DEF LInv, Progress, AreasPlaced

(* A load that ends without Ok promises nothing.                           *)
LEMMA FailedProgress ==
    ASSUME pc' = "done", result' # "Ok"
    PROVE  Progress'
  BY DEF Progress, Scanned, Past, Filled, Placed, NothingElse, StackPlaced

LEMMA LoadsNat ==
    ASSUME Typed
    PROVE  LoadsAt \subseteq 1 .. Len(image.headers) /\ LoadsAt \subseteq Nat /\ Len(image.headers) \in Nat
<1>1. image \in Image
  BY ElfAssumption DEF Typed
<1>2. image.headers \in Seq(Header)
  BY <1>1 DEF Image
<1>. QED
  BY <1>2 DEF LoadsAt

LEMMA ScanHeaderProgress ==
    ASSUME IInv, LInv, ScanHeader
    PROVE  Progress'
<1>1. CASE pc' = "done"
  BY <1>1, FailedProgress DEF ScanHeader, Finish, IInv, Control
<1>2. CASE pc' # "done"
  <2>0. /\ pc = "range" /\ pc' = "range" /\ i <= Len(image.headers) /\ i' = i + 1
        /\ result = "none" /\ result' = "none" /\ image' = image
        /\ min_vaddr' = IF h.p_type = "PT_LOAD" /\ (min_vaddr = -1 \/ h.p_vaddr < min_vaddr)
                        THEN h.p_vaddr ELSE min_vaddr
    BY <1>2 DEF ScanHeader, AtHeader, Finish, IInv, Control
  <2>1. h \in Header /\ i \in DOMAIN image.headers /\ i \in Nat
    BY <2>0, HeaderAtHand, HeaderCount DEF IInv
  <2>2. h.p_vaddr \in Nat /\ min_vaddr \in Nat \cup {-1}
    BY <2>1 DEF Header, IInv, Typed, ElfTypeOK
  <2>3. LoadsAt' = LoadsAt
    BY <2>0 DEF LoadsAt
  <2>4. min_vaddr = 0 <=> \E n \in LoadsAt : n < i /\ image.headers[n].p_vaddr = 0
    BY <2>0 DEF LInv, Scanned
  <2>5. min_vaddr' = 0 <=> min_vaddr = 0 \/ (h.p_type = "PT_LOAD" /\ h.p_vaddr = 0)
    BY <2>0, <2>2
  <2>6. i \in LoadsAt <=> h.p_type = "PT_LOAD"
    BY <2>1 DEF LoadsAt, h
  <2>7. LoadsAt \subseteq Nat
    BY LoadsNat DEF IInv
  <2>8. \A n \in LoadsAt : n < i + 1 <=> (n < i \/ n = i)
    <3>1. i \in Nat
      BY <2>1
    <3>2. \A n \in Nat : n < i + 1 <=> (n < i \/ n = i)
      BY <3>1
    <3>. QED
      BY <3>2, <2>7
  <2>9. min_vaddr' = 0 <=> \E n \in LoadsAt : n < i + 1 /\ image.headers[n].p_vaddr = 0
    BY <2>4, <2>5, <2>6, <2>8 DEF h
  <2>10. Scanned'
    BY <2>0, <2>3, <2>9 DEF Scanned, Past
  <2>. QED
    BY <2>0, <2>10 DEF Progress, Past, Filled, Placed, NothingElse, StackPlaced
<1>. QED
  BY <1>1, <1>2

LEMMA CheckIdentProgress ==
    ASSUME IInv, LInv, CheckIdent
    PROVE  Progress'
<1>1. CASE pc' = "done"
  BY <1>1, FailedProgress DEF CheckIdent, Finish, IInv, Control
<1>2. CASE pc' # "done"
  <2>0. /\ pc = "ident" /\ pc' = "range" /\ i = 1 /\ i' = 1 /\ result' = "none"
        /\ min_vaddr' = -1 /\ image' = image
    BY <1>2 DEF CheckIdent, Finish, LInv, Scanned, IInv, Control
  <2>1. \A n \in LoadsAt' : ~ (n < 1)
    BY <2>0, LoadsNat DEF IInv, LoadsAt
  <2>2. Scanned'
    BY <2>0, <2>1 DEF Scanned, Past
  <2>. QED
    BY <2>0, <2>2 DEF Progress, Past, Filled, Placed, NothingElse, StackPlaced
<1>. QED
  BY <1>1, <1>2

LEMMA ChooseBaseProgress ==
    ASSUME IInv, LInv, ChooseBase
    PROVE  Progress'
<1>0. /\ pc = "range" /\ pc' = "segment" /\ ~ (i <= Len(image.headers)) /\ i' = 1
      /\ result' = "none" /\ load_base' = base
      /\ UNCHANGED <<image, min_vaddr, mappings>> /\ DOMAIN mappings = {}
  BY DEF ChooseBase, AtHeader, IInv, Control, machine_vars
<1>1. /\ LoadsAt' = LoadsAt /\ base' = base
      /\ LoadsAt \subseteq 1 .. Len(image.headers) /\ Len(image.headers) \in Nat /\ i \in Nat
  BY <1>0, LoadsNat, HeaderCount DEF LoadsAt, base, IInv
<1>2. \A n \in LoadsAt : n < i /\ ~ (n < 1)
  BY <1>0, <1>1
<1>3. min_vaddr = 0 <=> \E n \in LoadsAt : image.headers[n].p_vaddr = 0
  BY <1>0, <1>2 DEF LInv, Scanned
<1>4. Scanned'
  BY <1>0, <1>1, <1>3 DEF Scanned, Past
<1>5. Placed'
  BY <1>0, <1>1, <1>2 DEF Placed
<1>6. NothingElse'
  BY <1>0 DEF NothingElse
<1>. QED
  BY <1>0, <1>4, <1>5, <1>6 DEF Progress, Filled, StackPlaced

(* The second pass keeps what the first one found.                         *)
LEMMA ScannedStays ==
    ASSUME LInv, SameLoad, Past, pc' \notin {"ident", "range"}
    PROVE  Scanned'
<1>1. base' = base /\ LoadsAt' = LoadsAt /\ image' = image /\ min_vaddr' = min_vaddr
      /\ load_base' = load_base
  BY WellPlacedStays DEF SameLoad
<1>. QED
  BY <1>1 DEF LInv, Scanned

LEMMA SkipHeaderProgress ==
    ASSUME IInv, LInv, SkipHeader
    PROVE  Progress'
<1>0. /\ pc = "segment" /\ pc' = "segment" /\ i <= Len(image.headers) /\ h.p_type # "PT_LOAD"
      /\ i' = i + 1 /\ result' = "none" /\ SameLoad /\ Past
      /\ UNCHANGED <<mappings, mem, starved>>
  BY DEF SkipHeader, AtHeader, IInv, Control, SameLoad, Past, machine_vars
<1>1. i \in Nat /\ LoadsAt \subseteq Nat /\ i \notin LoadsAt
  BY <1>0, LoadsNat, HeaderCount DEF IInv, LoadsAt, h
<1>2. \A n \in LoadsAt : n < i + 1 => n < i
  BY <1>1
<1>3. LoadsAt' = LoadsAt /\ (WellPlaced' <=> WellPlaced) /\ image' = image
  BY <1>0, WellPlacedStays DEF SameLoad
<1>4. \A v : Same(v)
  BY <1>0 DEF Same
<1>5. Placed'
  <2>1. SUFFICES ASSUME WellPlaced', NEW n \in LoadsAt', n < i', NEW j \in 0 .. PagesAt(n)' - 1
                 PROVE  PageHeld(image.headers[n], j)'
    BY <1>0 DEF Placed
  <2>2. j \in 0 .. PagesAt(n) - 1
    BY <2>1, <1>0, WellPlacedStays
  <2>. QED
    BY <2>1, <2>2, <1>0, <1>2, <1>3, <1>4, SegmentsStay DEF LInv, Monotone
<1>6. NothingElse'
  <2>1. SUFFICES ASSUME NEW v \in DOMAIN mappings'
                 PROVE  \E n \in LoadsAt' : n < i' /\ v \in Run(FirstPage(image.headers[n])', PagesAt(n)')
    BY <1>0 DEF NothingElse, Run
  <2>2. PICK n \in LoadsAt : n < i /\ v \in Run(FirstPage(image.headers[n]), PagesAt(n))
    BY <2>1, <1>0 DEF LInv, NothingElse
  <2>3. FirstPage(image.headers[n])' = FirstPage(image.headers[n]) /\ PagesAt(n)' = PagesAt(n)
    BY <1>0 DEF SameLoad, FirstPage, PagesAt
  <2>4. n < i'
    BY <2>2, <1>0, <1>1
  <2>. QED
    BY <2>2, <2>3, <2>4, <1>3
<1>7. Scanned'
  BY <1>0, ScannedStays
<1>. QED
  BY <1>0, <1>5, <1>6, <1>7 DEF Progress, Filled, StackPlaced

(* The segments so far, when a step leaves their pages alone.              *)
LEMMA EarlierSegments ==
    ASSUME LInv, SameLoad, Monotone, Past, WellPlaced',
           \A n \in LoadsAt : n < i => \A j \in 0 .. PagesAt(n) - 1 : Same(FirstPage(image.headers[n]) + j)
    PROVE  \A n \in LoadsAt' : n < i => \A j \in 0 .. PagesAt(n)' - 1 : PageHeld(image.headers[n], j)'
<1>1. SUFFICES ASSUME NEW n \in LoadsAt', n < i, NEW j \in 0 .. PagesAt(n)' - 1
               PROVE  PageHeld(image.headers[n], j)'
  OBVIOUS
<1>2. n \in LoadsAt /\ j \in 0 .. PagesAt(n) - 1 /\ WellPlaced
  BY <1>1, WellPlacedStays
<1>. QED
  BY <1>1, <1>2, SegmentsStay DEF LInv

(* The copy puts at cell k what the file says, or 0 behind it.             *)
LEMMA CopyFaithful ==
    ASSUME Typed, i <= Len(image.headers), NEW k \in Nat
    PROVE  segment_cell(k) = FileCell(h, k)
<1>0. image.len \in Nat
  BY HeaderAtHand
<1>1. k < copy_len <=> (k < h.p_filesz /\ h.p_offset + k < image.len)
  BY <1>0, FileEnd DEF copy_len
<1>. QED
  BY <1>1 DEF segment_cell, FileCell

(* A block that is filled is filled to its last cell, and nothing else is  *)
(* touched.                                                                *)
LEMMA BlockFilled ==
    ASSUME Typed, i <= Len(image.headers), NEW f \in Nat,
           Run(f, PagesFor(h.p_memsz)) \subseteq Frames,
           mem' = [a \in DOMAIN mem |->
                      IF a - f * PAGE \in 0 .. h.p_memsz - 1
                      THEN segment_cell(a - f * PAGE) ELSE mem[a]]
    PROVE  /\ \A k \in 0 .. h.p_memsz - 1 : mem'[f * PAGE + k] = FileCell(h, k)
           /\ \A g \in (Frames \cup {0, 1}) \ Run(f, PagesFor(h.p_memsz)) : \A c \in 0 .. PAGE - 1 :
                 mem'[g * PAGE + c] = mem[g * PAGE + c]
<1>0. h.p_memsz \in Nat /\ PagesFor(h.p_memsz) \in Nat /\ PAGE \in Nat \ {0} /\ f * PAGE \in Nat
      /\ Frames \subseteq Nat
  BY FileEnd, HeaderAtHand, ElfAssumption
<1>1. ASSUME NEW k \in 0 .. h.p_memsz - 1 PROVE mem'[f * PAGE + k] = FileCell(h, k)
  <2>. DEFINE q == k \div PAGE
              r == k % PAGE
  <2>1. q \in 0 .. PagesFor(h.p_memsz) - 1 /\ r \in 0 .. PAGE - 1 /\ k = q * PAGE + r
    BY <1>0, PageInside
  <2>. HIDE DEF q, r
  <2>2. f + q \in Run(f, PagesFor(h.p_memsz))
    BY <2>1, <1>0 DEF Run
  <2>3. f * PAGE + k = (f + q) * PAGE + r
    <3>1. (f + q) * PAGE = f * PAGE + q * PAGE /\ q * PAGE \in Nat
      BY <1>0, <2>1
    <3>. QED
      BY <3>1, <2>1, <1>0
  <2>4. f * PAGE + k \in DOMAIN mem
    BY <2>1, <2>2, <2>3 DEF Typed, Cells
  <2>5. (f * PAGE + k) - f * PAGE = k /\ k \in Nat
    BY <1>0
  <2>6. mem'[f * PAGE + k] = segment_cell(k)
    BY <2>4, <2>5
  <2>. QED
    BY <2>5, <2>6, CopyFaithful
<1>2. ASSUME NEW g \in (Frames \cup {0, 1}) \ Run(f, PagesFor(h.p_memsz)), NEW c \in 0 .. PAGE - 1
      PROVE  mem'[g * PAGE + c] = mem[g * PAGE + c]
  <2>1. g * PAGE + c \in DOMAIN mem /\ g \in Nat
    BY <1>0 DEF Typed, Cells
  <2>2. (g * PAGE + c) - f * PAGE \notin 0 .. h.p_memsz - 1
    BY <2>1, <1>0, OtherFrame
  <2>. QED
    BY <2>1, <2>2
<1>. QED
  BY <1>1, <1>2

LEMMA LoadSegmentProgress ==
    ASSUME IInv, LInv, NoClash, LoadSegment
    PROVE  Progress'
<1>1. CASE pc' = "done"
  BY <1>1, FailedProgress DEF LoadSegment, Finish, IInv, Control
<1>2. CASE pc' # "done"
  <2>. DEFINE n == PagesFor(h.p_memsz)
  <2>0. /\ pc = "segment" /\ i <= Len(image.headers) /\ h.p_type = "PT_LOAD"
        /\ UNCHANGED <<loader, image, i, min_vaddr, load_base, mappings, starved>>
        /\ result = "none" /\ result' = "none" /\ pc' = "map" /\ page' = 0
    BY <1>2 DEF LoadSegment, AtHeader, Finish, IInv, Control
  <2>1. PICK f \in Block(n) :
           /\ mem' = [a \in DOMAIN mem |->
                      IF a - f * PAGE \in 0 .. h.p_memsz - 1
                      THEN segment_cell(a - f * PAGE) ELSE mem[a]]
           /\ phys' = f /\ Take(f, n)
    BY <1>2 DEF LoadSegment, Finish
  <2>2. Typed /\ n \in Nat /\ free \subseteq Frames /\ Frames \subseteq Nat /\ h' = h
        /\ clash \in {"yes", "no"}
    BY <2>0, HeaderAtHand, ElfAssumption DEF IInv, Typed, ElfTypeOK, h
  <2>3. f \in Nat /\ Run(f, n) \subseteq free /\ Run(f, n) \subseteq Frames
    <3>1. f \in Frames
      BY <2>1, BlockInPool
    <3>2. Run(f, n) \subseteq free
      BY <2>1, <2>2, Taken DEF NoClash
    <3>. QED
      BY <3>1, <3>2, <2>2
  <2>4. /\ \A k \in 0 .. h.p_memsz - 1 : mem'[f * PAGE + k] = FileCell(h, k)
        /\ \A g \in (Frames \cup {0, 1}) \ Run(f, n) : \A c \in 0 .. PAGE - 1 :
                 mem'[g * PAGE + c] = mem[g * PAGE + c]
    BY <2>0, <2>1, <2>2, <2>3, BlockFilled
  <2>5. \A v : Same(v)
    <3>1. \A v \in DOMAIN mappings : mappings[v].frame \in (Frames \cup {0, 1}) \ free
      BY <2>0, <2>2, NoneFreeYet DEF NoClash, NoneFree, Typed, ElfTypeOK
    <3>. QED
      BY <3>1, <2>0, <2>3, <2>4 DEF Same
  <2>6. SameLoad /\ Monotone /\ Past
    BY <2>0 DEF SameLoad, Monotone, Past
  <2>7. Filled'
    <3>1. \A k : FileCell(h, k)' = FileCell(h, k)
      BY <2>0, <2>2 DEF FileCell
    <3>. QED
      BY <3>1, <2>1, <2>2, <2>4 DEF Filled
  <2>8. Placed'
    <3>1. (Past /\ WellPlaced)' => \A m \in LoadsAt' : m < i => \A j \in 0 .. PagesAt(m)' - 1 : PageHeld(image.headers[m], j)'
      BY <2>5, <2>6, EarlierSegments
    <3>. QED
      BY <3>1, <2>0 DEF Placed
  <2>9. NothingElse'
    <3>1. SUFFICES ASSUME NEW v \in DOMAIN mappings'
                   PROVE  \E m \in LoadsAt' : m < i' /\ v \in Run(FirstPage(image.headers[m])', PagesAt(m)')
      BY <2>0 DEF NothingElse, Run
    <3>2. PICK m \in LoadsAt : m < i /\ v \in Run(FirstPage(image.headers[m]), PagesAt(m))
      BY <3>1, <2>0 DEF LInv, NothingElse
    <3>3. FirstPage(image.headers[m])' = FirstPage(image.headers[m]) /\ PagesAt(m)' = PagesAt(m)
          /\ LoadsAt' = LoadsAt
      BY <2>0 DEF FirstPage, PagesAt, LoadsAt
    <3>. QED
      BY <3>2, <3>3, <2>0
  <2>10. Scanned'
    BY <2>0, <2>6, ScannedStays
  <2>. QED
    BY <2>0, <2>7, <2>8, <2>9, <2>10 DEF Progress, StackPlaced
<1>. QED
  BY <1>1, <1>2

(* A call of page_table_map changes at most its own page.                  *)
LEMMA MapCallSame ==
    ASSUME NEW rc \in {0, -1}, NEW addr \in Nat, NEW flags, MapCall(rc, addr, flags), UNCHANGED mem
    PROVE  /\ Monotone
           /\ rc = -1 => starved' = "yes" /\ mappings' = mappings
           /\ rc = 0 => /\ addr \div PAGE \in DOMAIN mappings'
                        /\ mappings'[addr \div PAGE].frame = phys + page
                        /\ mappings'[addr \div PAGE].rights = pte_rights(flags)
           /\ \A v : v # addr \div PAGE => Same(v)
           /\ DOMAIN mappings' \subseteq DOMAIN mappings \cup {addr \div PAGE}
<1>. DEFINE q == addr \div PAGE
            new == [frame |-> phys + page, rights |-> pte_rights(flags)]
<1>1. Monotone
  BY DEF MapCall, Monotone
<1>2. CASE rc = -1
  <2>1. starved' = "yes" /\ mappings' = mappings
    BY <1>2 DEF MapCall
  <2>2. \A v : Same(v)
    BY <2>1 DEF Same
  <2>. QED
    BY <1>1, <1>2, <2>1, <2>2
<1>3. CASE rc = 0
  <2>1. mappings' = [v \in DOMAIN mappings \cup {q} |-> IF v = q THEN new ELSE mappings[v]]
    BY <1>3 DEF MapCall, Mapped
  <2>2. new.frame = phys + page /\ new.rights = pte_rights(flags)
    OBVIOUS
  <2>. HIDE DEF q, new
  <2>3. DOMAIN mappings' = DOMAIN mappings \cup {q} /\ mappings'[q] = new
    BY <2>1
  <2>4. \A v : v # q => Same(v)
    <3>1. \A v : v # q => /\ v \in DOMAIN mappings <=> v \in DOMAIN mappings'
                          /\ v \in DOMAIN mappings => mappings'[v] = mappings[v]
      BY <2>1
    <3>. QED
      BY <3>1 DEF Same
  <2>. QED
    BY <1>1, <1>3, <2>2, <2>3, <2>4 DEF q
<1>. QED
  BY <1>2, <1>3

LEMMA MapSegmentProgress ==
    ASSUME IInv, LInv, MapSegmentPage
    PROVE  Progress'
<1>1. CASE pc' = "done"
  BY <1>1, FailedProgress DEF MapSegmentPage, Finish, IInv, Control
<1>2. CASE pc' # "done"
  <2>0. /\ pc = "map" /\ i <= Len(image.headers) /\ h.p_type = "PT_LOAD" /\ result = "none"
        /\ page < PagesFor(h.p_memsz)
        /\ UNCHANGED <<loader, image, min_vaddr, load_base, phys, free, mem>>
        /\ page' = page + 1 /\ result' = "none"
        /\ i' = (IF LastPage THEN i + 1 ELSE i)
        /\ pc' = (IF LastPage THEN "segment" ELSE "map")
    BY <1>2 DEF MapSegmentPage, Finish, IInv, Control
  <2>1. PICK rc \in {0, -1} :
           /\ MapCall(rc, load_base + h.p_vaddr + page * PAGE, segment_flags)
           /\ rc = -1 => loader # "compat"
    BY <1>2 DEF MapSegmentPage, Finish
  <2>2. /\ Typed /\ page \in Nat /\ i \in Nat /\ phys \in Nat /\ load_base \in Nat
        /\ PagesFor(h.p_memsz) \in Nat /\ LoadsAt \subseteq Nat /\ loader \in {"kernel", "compat"}
        /\ h.p_vaddr \in Nat /\ h.p_memsz \in Nat /\ PAGE \in Nat \ {0}
    <3>1. Typed /\ PAGE \in Nat \ {0} /\ Frames \subseteq Nat
      BY ElfAssumption DEF IInv
    <3>2. /\ page \in Nat /\ phys \in Nat /\ load_base \in Nat /\ loader \in {"kernel", "compat"}
      BY <3>1, ElfAssumption DEF Typed, ElfTypeOK
    <3>3. /\ PagesFor(h.p_memsz) \in Nat /\ i \in Nat /\ LoadsAt \subseteq Nat
          /\ h.p_vaddr \in Nat /\ h.p_memsz \in Nat
      BY <3>1, <2>0, HeaderAtHand, HeaderCount, LoadsNat, FileEnd
    <3>. QED
      BY <3>1, <3>2, <3>3
  <2>3. i \in LoadsAt /\ image.headers[i] = h /\ PagesAt(i) = PagesFor(h.p_memsz)
    BY <2>0, <2>2, HeaderAtHand DEF LoadsAt, h, PagesAt
  <2>4. SameLoad /\ Past
    BY <2>0 DEF SameLoad, Past
  <2>. DEFINE v0 == FirstPage(h) + page
  <2>5. (load_base + h.p_vaddr + page * PAGE) \div PAGE = v0 /\ FirstPage(h) \in Nat
        /\ load_base + h.p_vaddr + page * PAGE \in Nat
    <3>1. load_base + h.p_vaddr \in Nat /\ page * PAGE \in Nat
      BY <2>2
    <3>2. ((load_base + h.p_vaddr) + page * PAGE) \div PAGE = (load_base + h.p_vaddr) \div PAGE + page
      BY <3>1, <2>2, PageOf
    <3>3. (load_base + h.p_vaddr) \div PAGE \in Nat
      BY <3>1, <2>2, DivMod
    <3>. QED
      BY <3>1, <3>2, <3>3, <2>2 DEF FirstPage
  <2>6. /\ Monotone
        /\ rc = -1 => starved' = "yes" /\ mappings' = mappings /\ loader = "kernel"
        /\ rc = 0 => /\ v0 \in DOMAIN mappings'
                     /\ mappings'[v0].frame = phys + page /\ mappings'[v0].rights = pte_rights(segment_flags)
        /\ \A v : v # v0 => Same(v)
        /\ DOMAIN mappings' \subseteq DOMAIN mappings \cup {v0}
    <3>. DEFINE addr == load_base + h.p_vaddr + page * PAGE
    <3>. HIDE DEF v0
    <3>1. /\ Monotone
          /\ rc = -1 => starved' = "yes" /\ mappings' = mappings
          /\ rc = 0 => /\ addr \div PAGE \in DOMAIN mappings'
                       /\ mappings'[addr \div PAGE].frame = phys + page
                       /\ mappings'[addr \div PAGE].rights = pte_rights(segment_flags)
          /\ \A v : v # addr \div PAGE => Same(v)
          /\ DOMAIN mappings' \subseteq DOMAIN mappings \cup {addr \div PAGE}
      BY <2>0, <2>1, <2>5, MapCallSame
    <3>2. addr \div PAGE = v0
      BY <2>5
    <3>. HIDE DEF addr
    <3>3. rc = -1 => loader = "kernel"
      BY <2>1, <2>2
    <3>. QED
      BY <3>1, <3>2, <3>3
  <2>. HIDE DEF v0
  <2>7. v0 \in Run(FirstPage(h), page + 1) /\ v0 \in Run(FirstPage(h), PagesAt(i))
        /\ v0 \notin Run(FirstPage(h), page)
    <3>. DEFINE first == FirstPage(h)
                pages == PagesAt(i)
    <3>1. first \in Nat /\ page \in Nat /\ pages \in Nat /\ page < pages /\ v0 = first + page
      BY <2>0, <2>2, <2>3, <2>5 DEF v0
    <3>. HIDE DEF first, pages
    <3>2. v0 \in Run(first, page + 1) /\ v0 \in Run(first, pages) /\ v0 \notin Run(first, page)
      BY <3>1 DEF Run
    <3>. QED
      BY <3>2 DEF first, pages
  <2>8. \A m \in LoadsAt : m < i =>
           FirstPage(image.headers[m]) \in Nat /\ PagesAt(m) \in Nat
    BY <2>2, LoadHeader, FirstPageIs
  <2>9. ASSUME WellPlaced PROVE \A m \in LoadsAt : m < i => v0 \notin Run(FirstPage(image.headers[m]), PagesAt(m))
    BY <2>2, <2>3, <2>7, <2>9, SegmentsApart
  <2>10. (WellPlaced' <=> WellPlaced) /\ LoadsAt' = LoadsAt /\ image' = image
         /\ (\A s : FirstPage(s)' = FirstPage(s)) /\ (\A m : PagesAt(m)' = PagesAt(m))
    BY <2>4, WellPlacedStays DEF SameLoad
  <2>11. ASSUME WellPlaced'
         PROVE  \A m \in LoadsAt' : m < i => \A j \in 0 .. PagesAt(m)' - 1 : PageHeld(image.headers[m], j)'
    <3>1. \A m \in LoadsAt : m < i => \A j \in 0 .. PagesAt(m) - 1 : FirstPage(image.headers[m]) + j # v0
      BY <2>8, <2>9, <2>10, <2>11 DEF Run
    <3>. QED
      BY <3>1, <2>4, <2>6, <2>11, EarlierSegments
  <2>12. ASSUME WellPlaced', NEW s, s = h, NEW j \in 0 .. page
         PROVE  PageHeld(s, j)'
    <3>1. CASE j < page
      <4>1. FirstPage(s) + j # v0 /\ j \in 0 .. page - 1
        BY <2>12, <3>1, <2>2, <2>5 DEF v0
      <4>2. PageHeld(s, j)
        BY <4>1, <2>0, <2>4, <2>10, <2>12 DEF LInv, Placed
      <4>3. Same(FirstPage(s) + j)
        BY <4>1, <2>6
      <4>. QED
        BY <4>2, <4>3, <2>4, <2>6, HeldStays
    <3>2. CASE j = page
      <4>1. FirstPage(s)' = FirstPage(s) /\ FirstPage(s) + j = v0
        BY <2>12, <3>2, <2>10 DEF v0
      <4>2. CASE rc = -1
        <5>1. v0 \notin DOMAIN mappings
          BY <2>7, <2>9, <2>10, <2>12, <2>0 DEF LInv, NothingElse
        <5>2. v0 \notin DOMAIN mappings' /\ loader' = "kernel" /\ starved' = "yes"
          BY <5>1, <4>2, <2>0, <2>6
        <5>. QED
          BY <5>2, <4>1 DEF PageHeld
      <4>3. CASE rc = 0
        <5>1. ASSUME NEW c \in 0 .. PAGE - 1, j * PAGE + c < s.p_memsz
              PROVE  mem'[(phys + page) * PAGE + c] = FileCell(s, j * PAGE + c)'
          <6>1. j * PAGE + c \in 0 .. h.p_memsz - 1 /\ j * PAGE \in Nat /\ phys * PAGE \in Nat
            BY <2>12, <5>1, <2>2
          <6>2. (phys + j) * PAGE = phys * PAGE + j * PAGE
            BY <2>2
          <6>3. (phys + page) * PAGE + c = phys * PAGE + (j * PAGE + c)
            BY <3>2, <6>1, <6>2
          <6>4. mem[phys * PAGE + (j * PAGE + c)] = FileCell(h, j * PAGE + c)
            BY <6>1, <2>0 DEF LInv, Filled
          <6>5. FileCell(s, j * PAGE + c)' = FileCell(h, j * PAGE + c)
            BY <2>12, <2>0 DEF FileCell
          <6>. QED
            BY <6>3, <6>4, <6>5, <2>0
        <5>2. mappings'[v0].rights = {"u"} \cup s.p_flags
          <6>1. h.p_flags \subseteq {"w", "x"}
            BY <2>0, <2>2, FileEnd
          <6>2. pte_rights(segment_flags) = {"u"} \cup h.p_flags
            BY <6>1, FlagsRead
          <6>. QED
            BY <6>2, <2>12, <4>3, <2>6
        <5>3. v0 \in DOMAIN mappings' /\ mappings'[v0].frame = phys + page
          BY <4>3, <2>6
        <5>. QED
          BY <5>1, <5>2, <5>3, <4>1 DEF PageHeld
      <4>. QED
        BY <4>2, <4>3
    <3>. QED
      BY <3>1, <3>2, <2>2
  <2>13. Placed'
    <3>1. CASE LastPage
      <4>1. i' = i + 1 /\ pc' = "segment" /\ PagesAt(i) = page + 1
        BY <3>1, <2>0, <2>3 DEF LastPage
      <4>2. \A m \in LoadsAt : m < i + 1 => m < i \/ m = i
        BY <2>2
      <4>3. ASSUME WellPlaced', NEW m \in LoadsAt', m < i', NEW j \in 0 .. PagesAt(m)' - 1
            PROVE  PageHeld(image.headers[m], j)'
        <5>1. CASE m < i
          BY <4>3, <5>1, <2>11
        <5>2. CASE m = i
          <6>1. j \in 0 .. page
            BY <4>1, <4>3, <5>2, <2>2, <2>10
          <6>2. PICK s : s = image'.headers[m]
            OBVIOUS
          <6>3. PageHeld(s, j)'
            BY <6>1, <6>2, <5>2, <4>3, <2>3, <2>10, <2>12
          <6>. QED
            BY <6>2, <6>3
        <5>. QED
          BY <5>1, <5>2, <4>1, <4>2, <4>3, <2>10
      <4>. QED
        BY <4>1, <4>3 DEF Placed
    <3>2. CASE ~LastPage
      <4>1. i' = i /\ pc' = "map" /\ h' = h /\ page' - 1 = page
        BY <3>2, <2>0, <2>2 DEF h
      <4>2. ASSUME WellPlaced', NEW j \in 0 .. page' - 1
            PROVE  PageHeld(h, j)'
        <5>1. PICK s : s = h'
          OBVIOUS
        <5>2. PageHeld(s, j)'
          BY <5>1, <4>1, <4>2, <2>12
        <5>. QED
          BY <5>1, <5>2
      <4>. QED
        BY <4>1, <4>2, <2>11 DEF Placed
    <3>. QED
      BY <3>1, <3>2
  <2>14. NothingElse'
    <3>1. SUFFICES ASSUME NEW v \in DOMAIN mappings'
                   PROVE  \/ \E m \in LoadsAt : m < i' /\ v \in Run(FirstPage(image.headers[m]), PagesAt(m))
                          \/ pc' = "map" /\ v \in Run(FirstPage(h), page + 1) /\ h' = h
      <4>1. \A m : FirstPage(image.headers[m])' = FirstPage(image.headers[m])
        BY <2>0 DEF FirstPage
      <4>2. h' = h => FirstPage(h)' = FirstPage(h)
        BY <2>0 DEF FirstPage
      <4>. QED
        BY <4>1, <4>2, <2>0, <2>10 DEF NothingElse, Run
    <3>2. v \in Run(FirstPage(h), page + 1) \/ \E m \in LoadsAt : m < i /\ v \in Run(FirstPage(image.headers[m]), PagesAt(m))
      <4>1. CASE v = v0
        BY <4>1, <2>7
      <4>2. CASE v # v0
        <5>1. v \in DOMAIN mappings
          BY <4>2, <2>6
        <5>2. Run(FirstPage(h), page) \subseteq Run(FirstPage(h), page + 1)
          BY <2>2, <2>5 DEF Run
        <5>. QED
          BY <5>1, <5>2, <2>0 DEF LInv, NothingElse
      <4>. QED
        BY <4>1, <4>2
    <3>3. CASE LastPage
      <4>1. i' = i + 1 /\ PagesAt(i) = page + 1
        BY <3>3, <2>0, <2>3 DEF LastPage
      <4>2. \A m \in LoadsAt : m < i => m < i + 1
        BY <2>2
      <4>3. i < i + 1
        BY <2>2
      <4>. QED
        BY <4>1, <4>2, <4>3, <3>2, <2>3
    <3>4. CASE ~LastPage
      BY <3>2, <3>4, <2>0 DEF h
    <3>. QED
      BY <3>3, <3>4
  <2>15. Filled'
    <3>1. CASE pc' = "map"
      <4>1. h' = h
        BY <3>1, <2>0 DEF h
      <4>2. \A k : FileCell(h, k)' = FileCell(h, k)
        BY <4>1, <2>0 DEF FileCell
      <4>. QED
        BY <4>1, <4>2, <2>0 DEF LInv, Filled
    <3>. QED
      BY <3>1 DEF Filled
  <2>16. Scanned'
    BY <2>0, <2>4, ScannedStays
  <2>17. StackPlaced'
    BY <2>0 DEF StackPlaced
  <2>. QED
    BY <2>13, <2>14, <2>15, <2>16, <2>17 DEF Progress
<1>. QED
  BY <1>1, <1>2

(* From the stack on every segment is in place; the stack's pages follow.  *)
LEMMA AllocStackProgress ==
    ASSUME IInv, LInv, AllocStack
    PROVE  Progress'
<1>0. /\ pc = "segment" /\ pc' = "stack" /\ page' = 0 /\ result' = "none" /\ i' = i
      /\ UNCHANGED <<mem, mappings>> /\ SameLoad /\ Past /\ Monotone
  BY DEF AllocStack, IInv, Control, SameLoad, Past, Monotone
<1>1. \A v : Same(v)
  BY <1>0 DEF Same
<1>2. Placed'
  <2>1. WellPlaced' => \A n \in LoadsAt' : n < i => \A j \in 0 .. PagesAt(n)' - 1 : PageHeld(image.headers[n], j)'
    BY <1>0, <1>1, EarlierSegments
  <2>. QED
    BY <2>1, <1>0 DEF Placed
<1>3. Scanned'
  BY <1>0, ScannedStays
<1>. QED
  BY <1>0, <1>2, <1>3 DEF Progress, Filled, NothingElse, StackPlaced

LEMMA MapStackProgress ==
    ASSUME IInv, LInv, MapStackPage
    PROVE  Progress'
<1>0. /\ pc = "stack" /\ pc' = "stack" /\ page < STACK_PAGES /\ page' = page + 1 /\ i' = i
      /\ result' = "none" /\ UNCHANGED mem /\ SameLoad /\ Past
  BY DEF MapStackPage, IInv, Control, SameLoad, Past
<1>. DEFINE q == stack_virt \div PAGE
            v0 == q + page
<1>1. PICK rc \in {0, -1} : MapCall(rc, stack_virt + page * PAGE, stack_flags)
  BY DEF MapStackPage
<1>2. Typed /\ page \in Nat /\ PAGE \in Nat \ {0} /\ stack_virt \in Nat
  BY ElfAssumption DEF IInv, Typed, ElfTypeOK, stack_virt, STACK_PAGES
<1>3. (stack_virt + page * PAGE) \div PAGE = v0 /\ q \in Nat
  BY <1>2, PageOf, DivMod
<1>4. /\ Monotone
      /\ rc = -1 => starved' = "yes"
      /\ rc = 0 => v0 \in DOMAIN mappings' /\ mappings'[v0].rights = pte_rights(stack_flags)
      /\ \A v : v # v0 => Same(v)
  <2>. DEFINE addr == stack_virt + page * PAGE
  <2>1. addr \in Nat
    BY <1>2
  <2>2. addr \div PAGE = v0
    BY <1>3
  <2>. HIDE DEF addr, v0
  <2>3. /\ Monotone
        /\ rc = -1 => starved' = "yes"
        /\ rc = 0 => /\ addr \div PAGE \in DOMAIN mappings'
                     /\ mappings'[addr \div PAGE].rights = pte_rights(stack_flags)
        /\ \A v : v # addr \div PAGE => Same(v)
    <3>1. MapCall(rc, addr, stack_flags)
      BY <1>1 DEF addr
    <3>. QED
      BY <3>1, <2>1, <1>0, MapCallSame
  <2>. QED
    BY <2>2, <2>3
<1>5. v0 \in StackPages
  BY <1>0, <1>2, <1>3 DEF StackPages, Run, STACK_PAGES
<1>. HIDE DEF v0
<1>6. Placed'
  <2>1. ASSUME WellPlaced'
        PROVE  \A n \in LoadsAt' : n < i => \A j \in 0 .. PagesAt(n)' - 1 : PageHeld(image.headers[n], j)'
    <3>1. WellPlaced /\ load_base = base
      BY <2>1, <1>0, WellPlacedStays DEF LInv, Scanned
    <3>2. ASSUME NEW n \in LoadsAt, NEW j \in 0 .. PagesAt(n) - 1
          PROVE  FirstPage(image.headers[n]) + j # v0
      <4>1. FirstPage(image.headers[n]) \in Nat /\ PagesAt(n) \in Nat
        BY <1>2, LoadHeader, FirstPageIs
      <4>2. FirstPage(image.headers[n]) + j \in Run(FirstPage(image.headers[n]), PagesAt(n))
        BY <4>1 DEF Run
      <4>. QED
        BY <4>2, <3>1, <1>2, <1>5, StackApart
    <3>. QED
      BY <3>2, <2>1, <1>0, <1>4, EarlierSegments
  <2>. QED
    BY <2>1, <1>0 DEF Placed
<1>7. ASSUME NEW j \in 0 .. page
      PROVE  StackHeld(j)'
  <2>1. CASE j = page
    <3>1. {"u", "w"} \subseteq pte_rights(stack_flags)
      BY FlagsRead
    <3>2. starved' = "yes" \/ (v0 \in DOMAIN mappings' /\ {"u", "w"} \subseteq mappings'[v0].rights)
      BY <3>1, <1>4
    <3>3. stack_virt \div PAGE + j = v0
      BY <2>1 DEF v0
    <3>. QED
      BY <3>2, <3>3 DEF StackHeld
  <2>2. CASE j < page
    <3>1. q + j # v0 /\ j \in 0 .. page - 1
      BY <2>2, <1>2, <1>3 DEF v0
    <3>2. StackHeld(j)
      BY <3>1, <1>0 DEF LInv, StackPlaced
    <3>3. Same(q + j)
      BY <3>1, <1>4
    <3>. QED
      BY <3>2, <3>3, <1>4 DEF StackHeld, Same, Monotone
  <2>. QED
    BY <2>1, <2>2, <1>2
<1>8. StackPlaced'
  <2>1. page' - 1 = page
    BY <1>0, <1>2
  <2>. QED
    BY <2>1, <1>0, <1>7 DEF StackPlaced
<1>9. Scanned'
  BY <1>0, ScannedStays
<1>. QED
  BY <1>0, <1>6, <1>8, <1>9 DEF Progress, Filled, NothingElse

LEMMA LoadDoneProgress ==
    ASSUME IInv, LInv, LoadDone
    PROVE  Progress'
<1>0. /\ pc = "stack" /\ pc' = "done" /\ page = STACK_PAGES /\ i' = i /\ result' = "Ok"
      /\ UNCHANGED <<mem, mappings, starved>> /\ SameLoad /\ Past /\ Monotone
  BY DEF LoadDone, Finish, SameLoad, Past, Monotone, machine_vars
<1>1. \A v : Same(v)
  BY <1>0 DEF Same
<1>2. Placed'
  <2>1. WellPlaced' => \A n \in LoadsAt' : n < i => \A j \in 0 .. PagesAt(n)' - 1 : PageHeld(image.headers[n], j)'
    BY <1>0, <1>1, EarlierSegments
  <2>. QED
    BY <2>1, <1>0 DEF Placed
<1>3. Scanned'
  BY <1>0, ScannedStays
<1>4. StackPlaced'
  BY <1>0 DEF LInv, StackPlaced, StackHeld
<1>. QED
  BY <1>0, <1>2, <1>3, <1>4 DEF Progress, Filled, NothingElse

-----------------------------------------------------------------------------
(* The program runs: nothing of the image or the stack is touched, for     *)
(* areas are apart from them.                                              *)
LEMMA RunProgress ==
    ASSUME IInv, LInv, Running, UNCHANGED load_vars, Monotone,
           \A n \in LoadsAt : \A j \in 0 .. PagesAt(n) - 1 : Same(FirstPage(image.headers[n]) + j),
           \A v \in StackPages : Same(v),
           AreasPlaced'
    PROVE  LInv'
<1>0. /\ SameLoad /\ Past /\ pc' = pc /\ pc = "done" /\ result = "Ok" /\ result' = "Ok" /\ i' = i
  BY DEF load_vars, SameLoad, Past, Running, IInv, Control, Typed, ElfTypeOK
<1>1. Scanned'
  BY <1>0, ScannedStays
<1>2. Placed'
  <2>1. WellPlaced' => \A n \in LoadsAt' : n < i => \A j \in 0 .. PagesAt(n)' - 1 : PageHeld(image.headers[n], j)'
    BY <1>0, EarlierSegments
  <2>. QED
    BY <2>1, <1>0 DEF Placed
<1>3. StackPlaced'
  <2>1. ASSUME NEW j \in 0 .. STACK_PAGES - 1 PROVE StackHeld(j)'
    <3>1. stack_virt \div PAGE \in Nat
      BY ElfAssumption DEF stack_virt, STACK_PAGES
    <3>2. stack_virt \div PAGE + j \in StackPages
      BY <3>1 DEF StackPages, Run, STACK_PAGES
    <3>3. StackHeld(j) /\ Same(stack_virt \div PAGE + j)
      BY <3>2, <1>0 DEF LInv, StackPlaced
    <3>. QED
      BY <3>3 DEF StackHeld, Same, Monotone
  <2>. QED
    BY <2>1, <1>0 DEF StackPlaced
<1>. QED
  BY <1>0, <1>1, <1>2, <1>3 DEF LInv, Filled, NothingElse

LEMMA MemAllocProgress ==
    ASSUME IInv, LInv, NEW size \in AreaSizes, NEW a \in AreaAddrs, mem_alloc(size, a)
    PROVE  LInv'
<1>0. /\ Running /\ UNCHANGED load_vars /\ UNCHANGED <<mem, mappings, starved, cpu>>
      /\ vmas' = [s \in DOMAIN vmas \cup {a} |->
             IF s = a THEN [size |-> size, phys |-> 0] ELSE vmas[s]]
  BY DEF mem_alloc
<1>1. \A v : Same(v)
  BY <1>0 DEF Same
<1>2. \A s \in DOMAIN vmas' : vmas'[s].phys # 0 => s \in DOMAIN vmas /\ vmas'[s] = vmas[s]
  BY <1>0
<1>3. AreasPlaced'
  BY <1>0, <1>2 DEF LInv, AreasPlaced
<1>4. Monotone
  BY <1>0 DEF Monotone
<1>. QED
  BY <1>0, <1>1, <1>3, <1>4, RunProgress

(* Pages of an area are neither the image's nor the stack's.               *)
LEMMA OutsideAreas ==
    ASSUME IInv, clash = "no", NEW pages,
           \A v \in pages : \E s \in DOMAIN vmas : v \in Run(s \div PAGE, PagesFor(vmas[s].size)),
           \A v : v \notin pages => Same(v)
    PROVE  /\ \A n \in LoadsAt : \A j \in 0 .. PagesAt(n) - 1 : Same(FirstPage(image.headers[n]) + j)
           /\ \A v \in StackPages : Same(v)
<1>1. ASSUME NEW n \in LoadsAt, NEW j \in 0 .. PagesAt(n) - 1
      PROVE  FirstPage(image.headers[n]) + j \notin pages
  <2>1. FirstPage(image.headers[n]) \in Nat /\ PagesAt(n) \in Nat
    BY LoadHeader, FirstPageIs DEF IInv
  <2>2. FirstPage(image.headers[n]) + j \in Run(FirstPage(image.headers[n]), PagesAt(n))
    BY <2>1 DEF Run
  <2>. QED
    BY <2>2, AreasClear DEF IInv
<1>2. \A v \in StackPages : v \notin pages
  BY AreasClear DEF IInv
<1>. QED
  BY <1>1, <1>2

LEMMA DemandPageProgress ==
    ASSUME IInv, LInv, NoClash, NEW a \in Touched, DemandPage(a)
    PROVE  LInv'
<1>1. PICK s \in DOMAIN vmas, f \in Frames :
         \E done \in SUBSET (0 .. PagesFor(vmas[s].size) - 1) : DemandPaged(s, f, done)
  BY DemandPageEffect
<1>2. PICK done \in SUBSET (0 .. PagesFor(vmas[s].size) - 1) : DemandPaged(s, f, done)
  BY <1>1
<1>. DEFINE n == PagesFor(vmas[s].size)
            new == {s \div PAGE + k : k \in done}
<1>3. /\ Running /\ s \in Nat /\ n \in Nat
      /\ DOMAIN vmas' = DOMAIN vmas /\ vmas'[s].size = vmas[s].size
      /\ \A t \in DOMAIN vmas : t # s => vmas'[t] = vmas[t]
      /\ DOMAIN mappings' = DOMAIN mappings \cup new
      /\ \A v \in new : mappings'[v].rights = {"u", "w", "x"}
      /\ \A v \in DOMAIN mappings \ new : mappings'[v] = mappings[v]
      /\ starved' = (IF done = 0 .. n - 1 THEN starved ELSE "yes")
      /\ UNCHANGED load_vars /\ UNCHANGED <<mem, cpu>>
  BY <1>2 DEF DemandPaged
<1>4. s \div PAGE \in Nat
  BY <1>3, ElfAssumption, DivMod
<1>5. new \subseteq Run(s \div PAGE, n)
  BY <1>3, <1>4 DEF Run
<1>6. done = 0 .. n - 1 => \A j \in 0 .. n - 1 : s \div PAGE + j \in new
  OBVIOUS
<1>. HIDE DEF new
<1>7. \A v : v \notin new => Same(v)
  BY <1>3 DEF Same
<1>8. /\ \A m \in LoadsAt : \A j \in 0 .. PagesAt(m) - 1 : Same(FirstPage(image.headers[m]) + j)
      /\ \A v \in StackPages : Same(v)
  BY <1>5, <1>7, OutsideAreas DEF NoClash
<1>9. Monotone
  BY <1>3 DEF Monotone
<1>10. AreasPlaced'
  <2>1. SUFFICES ASSUME NEW t \in DOMAIN vmas', vmas'[t].phys # 0,
                        NEW j \in 0 .. PagesFor(vmas'[t].size) - 1
                 PROVE  \/ starved' = "yes"
                        \/ /\ t \div PAGE + j \in DOMAIN mappings'
                           /\ mappings'[t \div PAGE + j].rights = {"u", "w", "x"}
    BY DEF AreasPlaced, PagesFor
  <2>2. CASE t = s
    BY <2>1, <2>2, <1>3, <1>6
  <2>3. CASE t # s
    <3>1. \/ starved = "yes"
          \/ /\ t \div PAGE + j \in DOMAIN mappings
             /\ mappings[t \div PAGE + j].rights = {"u", "w", "x"}
      BY <2>1, <2>3, <1>3 DEF LInv, AreasPlaced
    <3>. QED
      BY <3>1, <1>3
  <2>. QED
    BY <2>2, <2>3
<1>. QED
  BY <1>3, <1>8, <1>9, <1>10, RunProgress

LEMMA ExpireProgress ==
    ASSUME IInv, LInv, NoClash, Expire
    PROVE  LInv'
<1>. DEFINE gone == UNION {unmapped(s) : s \in DOMAIN vmas}
<1>0. /\ Running /\ DOMAIN vmas' = {}
      /\ mappings' = [v \in DOMAIN mappings \ gone |-> mappings[v]]
      /\ UNCHANGED load_vars /\ UNCHANGED <<mem, starved, cpu>>
  BY DEF Expire
<1>1. ASSUME NEW s \in DOMAIN vmas, NEW v \in unmapped(s)
      PROVE  v \in Run(s \div PAGE, PagesFor(vmas[s].size))
  <2>1. s \in Nat /\ vmas[s].size \in Nat
    BY ProcessAssumption DEF IInv, Typed
  <2>2. s \div PAGE \in Nat /\ vmas[s].size \div PAGE \in Nat
    BY <2>1, ElfAssumption, DivMod
  <2>3. PagesFor(vmas[s].size) \in Nat /\ PagesFor(vmas[s].size) >= vmas[s].size \div PAGE
    BY <2>1, <2>2, PagesForRoundsUp
  <2>. QED
    BY <1>1, <2>2, <2>3 DEF unmapped, Run
<1>2. \A v \in gone : \E s \in DOMAIN vmas : v \in Run(s \div PAGE, PagesFor(vmas[s].size))
  BY <1>1
<1>. HIDE DEF gone
<1>3. \A v : v \notin gone => Same(v)
  BY <1>0 DEF Same
<1>4. /\ \A m \in LoadsAt : \A j \in 0 .. PagesAt(m) - 1 : Same(FirstPage(image.headers[m]) + j)
      /\ \A v \in StackPages : Same(v)
  BY <1>2, <1>3, OutsideAreas DEF NoClash
<1>5. Monotone /\ AreasPlaced'
  BY <1>0 DEF Monotone, AreasPlaced
<1>. QED
  BY <1>0, <1>4, <1>5, RunProgress

-----------------------------------------------------------------------------
(* The page of an address of the program's own was asked for, unless       *)
(* memory or page tables ran out: in a segment, on the stack, in an area.  *)
LEMMA SegmentAccess ==
    ASSUME IInv, LInv, WellPlaced, result = "Ok", NEW s \in Loads,
           NEW a \in Run(load_base + s.p_vaddr, s.p_memsz), NEW right \in {"u"} \cup s.p_flags,
           ~Asked(a, right)
    PROVE  starved = "yes"
<1>1. PICK n \in DOMAIN image.headers : s = image.headers[n]
  BY DEF Loads, Headers
<1>2. n \in LoadsAt
  BY <1>1 DEF LoadsAt, Loads
<1>3. /\ Typed /\ n \in 1 .. Len(image.headers) /\ s.p_vaddr \in Nat /\ s.p_memsz \in Nat
      /\ PagesAt(n) = PagesFor(s.p_memsz)
  BY <1>1, <1>2, LoadHeader DEF IInv, PagesAt
<1>4. n < i
  <2>1. i = Len(image.headers) + 1 /\ Len(image.headers) \in Nat
    BY <1>3, HeaderCount DEF IInv, Control
  <2>. QED
    BY <2>1, <1>3
<1>5. load_base \in Nat /\ load_base % PAGE = 0 /\ PAGE \in Nat \ {0} /\ s.p_vaddr % PAGE = 0
  BY <1>3, FirstPageIs, ElfAssumption DEF WellPlaced
<1>. DEFINE top == load_base + s.p_vaddr
            k == a - top
            j == k \div PAGE
<1>6. k \in 0 .. s.p_memsz - 1 /\ a = top + k /\ top \in Nat /\ k \in Nat
  <2>1. a \in top .. top + s.p_memsz - 1 /\ top \in Nat
    BY <1>3, <1>5 DEF Run
  <2>. HIDE DEF top
  <2>. QED
    BY <2>1, <1>3
<1>7. top % PAGE = 0
  BY <1>3, <1>5, CellOf
<1>. HIDE DEF top, k
<1>8. j \in 0 .. PagesAt(n) - 1
  BY <1>3, <1>6, PageInside
<1>9. a \div PAGE = FirstPage(s) + j
  BY <1>6, <1>7, CellOf DEF FirstPage, top
<1>10. PageHeld(s, j)
  BY <1>1, <1>2, <1>4, <1>8 DEF LInv, Placed, Past
<1>. QED
  BY <1>9, <1>10 DEF PageHeld, Asked

LEMMA StackAccess ==
    ASSUME LInv, result = "Ok", NEW a \in Run(stack_virt, STACK_PAGES * PAGE),
           NEW right \in {"u", "w"}, ~Asked(a, right)
    PROVE  starved = "yes"
<1>. DEFINE k == a - stack_virt
            j == k \div PAGE
<1>0. PAGE \in Nat \ {0} /\ stack_virt \in Nat /\ STACK_TOP \in Nat /\ STACK_TOP % PAGE = 0
      /\ STACK_TOP = stack_virt + STACK_PAGES * PAGE
  BY ElfAssumption DEF stack_virt, STACK_PAGES
<1>1. stack_virt % PAGE = 0
  <2>1. STACK_PAGES \in Nat
    BY DEF STACK_PAGES
  <2>2. (stack_virt + STACK_PAGES * PAGE) % PAGE = stack_virt % PAGE
    BY <2>1, <1>0, PageOf
  <2>. QED
    BY <2>2, <1>0
<1>2. k \in Nat /\ k < PAGE * STACK_PAGES /\ a = stack_virt + k
  BY <1>0 DEF Run, STACK_PAGES
<1>. HIDE DEF k
<1>3. j \in Nat /\ PAGE * j <= k /\ PAGE * j \in Nat
  BY <1>0, <1>2, DivMod
<1>. HIDE DEF j
<1>4. PAGE * j < PAGE * STACK_PAGES
  BY <1>0, <1>2, <1>3 DEF STACK_PAGES
<1>5. j < STACK_PAGES
  BY <1>0, <1>3, <1>4, MulLess DEF STACK_PAGES
<1>6. j \in 0 .. STACK_PAGES - 1
  BY <1>3, <1>5 DEF STACK_PAGES
<1>7. a \div PAGE = stack_virt \div PAGE + j
  BY <1>0, <1>1, <1>2, CellOf DEF j
<1>8. StackHeld(j)
  BY <1>6 DEF LInv, StackPlaced
<1>. QED
  BY <1>7, <1>8 DEF StackHeld, Asked

LEMMA AreaAccess ==
    ASSUME IInv, LInv, clash = "no", NEW a \in Nat, Around(a) # {}, ~NotYetBacked(a),
           NEW right \in {"u", "w"}, ~Asked(a, right)
    PROVE  starved = "yes"
<1>. DEFINE s == found_vma(a)
            k == a - s
            j == k \div PAGE
<1>1. /\ s \in DOMAIN vmas /\ s \in Nat /\ s <= a /\ a < s + vmas[s].size
      /\ vmas[s].size \in Nat
  BY FoundArea DEF IInv
<1>2. vmas[s].phys # 0
  BY DEF NotYetBacked
<1>. HIDE DEF s
<1>3. k \in 0 .. vmas[s].size - 1 /\ k \in Nat /\ a = s + k
  BY <1>1
<1>4. s % PAGE = 0
  BY <1>1, AreasClear DEF IInv
<1>. HIDE DEF k
<1>5. j \in 0 .. PagesFor(vmas[s].size) - 1
  BY <1>1, <1>3, PageInside
<1>6. a \div PAGE = s \div PAGE + j
  BY <1>1, <1>3, <1>4, CellOf
<1>. HIDE DEF j
<1>7. starved = "yes" \/ (a \div PAGE \in DOMAIN mappings /\ mappings[a \div PAGE].rights = {"u", "w", "x"})
  BY <1>1, <1>2, <1>5, <1>6 DEF LInv, AreasPlaced
<1>. QED
  BY <1>7 DEF Asked

LEMMA OwnAsked ==
    ASSUME IInv, UntilClash
    PROVE  OwnPagesAsked
<1>1. SUFFICES ASSUME result = "Ok", WellPlaced, starved = "no", clash = "no",
                      NEW a \in Touched, NEW right \in {"u", "w", "x"}, Own(a, right),
                      ~Asked(a, right), ~NotYetBacked(a)
               PROVE  FALSE
  BY DEF OwnPagesAsked
<1>2. LInv /\ a \in Nat
  BY <1>1, ProcessAssumption DEF UntilClash
<1>3. ASSUME NEW s \in Loads, a \in Run(load_base + s.p_vaddr, s.p_memsz), right \in {"u"} \cup s.p_flags
      PROVE  FALSE
  BY <1>1, <1>2, <1>3, SegmentAccess
<1>4. ASSUME a \in Run(stack_virt, STACK_PAGES * PAGE), right # "x"
      PROVE  FALSE
  BY <1>1, <1>2, <1>4, StackAccess
<1>5. ASSUME Around(a) # {}, right # "x"
      PROVE  FALSE
  BY <1>1, <1>2, <1>5, AreaAccess
<1>. QED
  BY <1>1, <1>3, <1>4, <1>5 DEF Own

LEMMA HaltProgress ==
    ASSUME IInv, LInv, NEW a \in Touched, Halt(a)
    PROVE  LInv'
<1>0. /\ Running /\ starved' = (IF NotYetBacked(a) THEN "yes" ELSE starved)
      /\ UNCHANGED load_vars /\ UNCHANGED <<mem, mappings, vmas>>
  BY DEF Halt, token_vars
<1>1. Monotone /\ \A v : Same(v)
  BY <1>0 DEF Monotone, Same
<1>2. AreasPlaced'
  BY <1>0, <1>1 DEF LInv, AreasPlaced, Monotone
<1>. QED
  BY <1>0, <1>1, <1>2, RunProgress

-----------------------------------------------------------------------------
LEMMA InitProgress == Init => LInv
<1>. SUFFICES ASSUME Init PROVE LInv
  OBVIOUS
<1>1. /\ pc = "ident" /\ i = 1 /\ min_vaddr = -1 /\ result = "none" /\ DOMAIN vmas = {} /\ cpu = "running"
  BY DEF Init, ElfInit
<1>. QED
  BY <1>1 DEF LInv, Scanned, Past, Filled, Placed, NothingElse, StackPlaced, AreasPlaced

LEMMA NextProgress ==
    ASSUME IInv, LInv, NoClash, [Next]_process_vars
    PROVE  LInv'
<1>1. CASE UNCHANGED process_vars
  <2>1. /\ UNCHANGED <<loader, image, pc, i, page, min_vaddr, load_base, phys, result>>
        /\ UNCHANGED <<mem, mappings, starved, vmas, cpu>>
    BY <1>1 DEF process_vars, elf_vars, load_vars, machine_vars, token_vars
  <2>2. SameLoad /\ Monotone /\ h' = h /\ (Past' <=> Past) /\ \A v : Same(v)
    BY <2>1 DEF SameLoad, Monotone, h, Past, Same
  <2>3. Scanned'
    BY <2>1 DEF LInv, Scanned, LoadsAt, Past, base
  <2>4. Filled'
    BY <2>1, <2>2 DEF LInv, Filled, FileCell
  <2>5. Placed'
    <3>1. ASSUME Past, WellPlaced', pc = "map", NEW j \in 0 .. page - 1 PROVE PageHeld(h, j)'
      <4>1. PICK s : s = h
        OBVIOUS
      <4>2. PageHeld(s, j)
        BY <3>1, <4>1, <2>2, WellPlacedStays DEF LInv, Placed
      <4>3. PageHeld(s, j)'
        BY <4>2, <2>2, HeldStays
      <4>. QED
        BY <4>1, <4>3, <2>2
    <3>2. ASSUME Past, WellPlaced'
          PROVE  \A n \in LoadsAt' : n < i => \A j \in 0 .. PagesAt(n)' - 1 : PageHeld(image.headers[n], j)'
      BY <3>2, <2>2, EarlierSegments
    <3>. QED
      BY <3>1, <3>2, <2>1, <2>2 DEF Placed
  <2>6. NothingElse'
    BY <2>1, <2>2 DEF LInv, NothingElse, LoadsAt, FirstPage, PagesAt
  <2>7. StackPlaced' /\ AreasPlaced'
    BY <2>1 DEF LInv, StackPlaced, StackHeld, AreasPlaced
  <2>. QED
    BY <2>3, <2>4, <2>5, <2>6, <2>7 DEF LInv
<1>2. CASE ElfNext /\ UNCHANGED <<token_vars, cpu>>
  <2>0. ~Reissued
    BY DEF Reissued, NoClash
  <2>1. Progress'
    BY <1>2, <2>0, CheckIdentProgress, ScanHeaderProgress, ChooseBaseProgress, SkipHeaderProgress,
       LoadSegmentProgress, MapSegmentProgress, AllocStackProgress, MapStackProgress,
       LoadDoneProgress DEF ElfNext
  <2>2. pc # "done"
    BY <1>2, <2>0 DEF ElfNext, CheckIdent, ScanHeader, ChooseBase, SkipHeader, LoadSegment,
                MapSegmentPage, AllocStack, MapStackPage, LoadDone
  <2>. QED
    BY <1>2, <2>1, <2>2, LoadProgress
<1>3. CASE Next
  BY <1>2, <1>3, MemAllocProgress, DemandPageProgress, HaltProgress, ExpireProgress DEF Next
<1>. QED
  BY <1>1, <1>3

(* No step takes a clash back.                                             *)
LEMMA ClashStays ==
    ASSUME IInv, [Next]_process_vars, clash' = "no"
    PROVE  clash = "no"
<1>0. clash \in {"yes", "no"}
  BY DEF IInv, Typed
<1>1. CASE UNCHANGED process_vars
  BY <1>1 DEF process_vars, elf_vars, machine_vars
<1>2. CASE ElfNext
  BY <1>0, <1>2 DEF ElfNext, CheckIdent, ScanHeader, ChooseBase, SkipHeader, LoadSegment, Take,
                    MapSegmentPage, AllocStack, MapStackPage, LoadDone, Reissued, machine_vars
<1>3. ASSUME NEW size \in AreaSizes, NEW a \in AreaAddrs, mem_alloc(size, a)
      PROVE  clash = "no"
  BY <1>0, <1>3 DEF mem_alloc
<1>4. ASSUME NEW a \in Touched, DemandPage(a) PROVE clash = "no"
  <2>1. \E s \in DOMAIN vmas, f \in Frames :
           \E done \in SUBSET (0 .. PagesFor(vmas[s].size) - 1) : DemandPaged(s, f, done)
    BY <1>4, DemandPageEffect
  <2>. QED
    BY <2>1 DEF DemandPaged
<1>5. ASSUME NEW a \in Touched, Halt(a) PROVE clash = "no"
  BY <1>5 DEF Halt
<1>6. CASE Expire
  BY <1>6 DEF Expire
<1>. QED
  BY <1>1, <1>2, <1>3, <1>4, <1>5, <1>6 DEF Next

(* Where the loader and the program are, until there is a clash.           *)
THEOREM ProgressInvariant == Spec => [](IInv /\ UntilClash)
<1>1. Init => IInv /\ UntilClash
  BY InitInv, InitProgress DEF UntilClash
<1>2. (IInv /\ UntilClash) /\ [Next]_process_vars => (IInv /\ UntilClash)'
  <2>. SUFFICES ASSUME IInv, UntilClash, [Next]_process_vars
                PROVE  IInv' /\ UntilClash'
    OBVIOUS
  <2>1. ASSUME clash' = "no" PROVE LInv'
    <3>1. clash = "no"
      BY <2>1, ClashStays
    <3>. QED
      BY <2>1, <3>1, NextProgress DEF NoClash, UntilClash
  <2>. QED
    BY <2>1, NextInv DEF UntilClash
<1>. QED
  BY <1>1, <1>2, PTL DEF Spec

(* What the invariant says of a loaded file: all of every segment.         *)
LEMMA LoadedFile ==
    ASSUME IInv, UntilClash
    PROVE  LoadedAsTheFileSays
<1>1. SUFFICES ASSUME result = "Ok", WellPlaced, LInv, NEW s \in Loads, NEW k \in 0 .. s.p_memsz - 1
               PROVE  LET moved == image.e_type = "ET_DYN" /\ \E z \in Loads : z.p_vaddr = 0
                          a == s.p_vaddr + k + (IF moved THEN PIE_BASE ELSE 0)
                          v == a \div PAGE
                      IN  IF v \in DOMAIN mappings
                          THEN /\ mem[mappings[v].frame * PAGE + (a % PAGE)] = FileCell(s, k)
                               /\ mappings[v].rights = {"u"} \cup s.p_flags
                          ELSE loader = "kernel" /\ starved = "yes"
  BY DEF LoadedAsTheFileSays, UntilClash
<1>. DEFINE moved == image.e_type = "ET_DYN" /\ \E z \in Loads : z.p_vaddr = 0
            a == s.p_vaddr + k + (IF moved THEN PIE_BASE ELSE 0)
            v == a \div PAGE
            j == k \div PAGE
            top == load_base + s.p_vaddr
<1>2. PICK n \in DOMAIN image.headers : s = image.headers[n]
  BY DEF Loads, Headers
<1>3. n \in LoadsAt
  BY <1>1, <1>2 DEF LoadsAt, Loads
<1>4. /\ Typed /\ n \in 1 .. Len(image.headers) /\ s.p_vaddr \in Nat /\ s.p_memsz \in Nat
      /\ PagesAt(n) = PagesFor(s.p_memsz)
  BY <1>2, <1>3, LoadHeader DEF IInv, PagesAt
<1>5. n < i
  <2>1. i = Len(image.headers) + 1 /\ Len(image.headers) \in Nat
    BY <1>1, <1>4, HeaderCount DEF IInv, Control
  <2>. QED
    BY <2>1, <1>4
<1>6. load_base \in Nat /\ load_base % PAGE = 0 /\ PAGE \in Nat \ {0} /\ s.p_vaddr % PAGE = 0
  BY <1>1, <1>4, FirstPageIs, ElfAssumption DEF WellPlaced
<1>7. load_base = IF moved THEN PIE_BASE ELSE 0
  <2>1. (\E z \in Loads : z.p_vaddr = 0) <=> \E m \in LoadsAt : image.headers[m].p_vaddr = 0
    BY DEF Loads, Headers, LoadsAt
  <2>. QED
    BY <2>1, <1>1 DEF LInv, Scanned, Past, base
<1>8. a = top + k /\ k \in Nat /\ top \in Nat /\ top % PAGE = 0
  <2>1. k \in Nat /\ top \in Nat
    BY <1>4, <1>6
  <2>2. top % PAGE = 0
    BY <1>4, <1>6, CellOf
  <2>3. a = s.p_vaddr + k + load_base
    BY <1>7
  <2>. HIDE DEF a
  <2>. QED
    BY <2>1, <2>2, <2>3, <1>4, <1>6
<1>. HIDE DEF a, top
<1>9. v = FirstPage(s) + j /\ a % PAGE = k % PAGE
  BY <1>8, CellOf DEF FirstPage, top
<1>10. j \in 0 .. PagesAt(n) - 1 /\ k % PAGE \in 0 .. PAGE - 1 /\ k = j * PAGE + (k % PAGE)
  BY <1>4, PageInside
<1>11. PageHeld(s, j)
  BY <1>1, <1>2, <1>3, <1>5, <1>10 DEF LInv, Placed, Past
<1>. DEFINE c == k % PAGE
<1>. HIDE DEF v, j, c
<1>12. IF v \in DOMAIN mappings
       THEN /\ mappings[v].rights = {"u"} \cup s.p_flags
            /\ \A d \in 0 .. PAGE - 1 : j * PAGE + d < s.p_memsz =>
                  mem[mappings[v].frame * PAGE + d] = FileCell(s, j * PAGE + d)
       ELSE loader = "kernel" /\ starved = "yes"
  BY <1>9, <1>11 DEF PageHeld
<1>13. c \in 0 .. PAGE - 1 /\ k = j * PAGE + c /\ k < s.p_memsz /\ a % PAGE = c
  BY <1>4, <1>9, <1>10 DEF c
<1>14. IF v \in DOMAIN mappings
       THEN /\ mem[mappings[v].frame * PAGE + (a % PAGE)] = FileCell(s, k)
            /\ mappings[v].rights = {"u"} \cup s.p_flags
       ELSE loader = "kernel" /\ starved = "yes"
  BY <1>12, <1>13
<1>. QED
  BY <1>14 DEF v, a

(* A load that reports Ok has filled its blocks as the file says and asked *)
(* for them where the headers want them, with flags that page_table_map    *)
(* reads as p_flags; and so it stays while the program runs: its areas are *)
(* demand-paged, and the token's expiry unmaps them, without touching it.  *)
THEOREM FilesLoadFaithfully == Spec => []LoadedAsTheFileSays
<1>1. IInv /\ UntilClash => LoadedAsTheFileSays
  BY LoadedFile
<1>. QED
  BY <1>1, ProgressInvariant, PTL

(* All of a program's segments, stack and areas is asked for, with its     *)
(* rights, or will be at the first fault, unless memory or page tables ran *)
(* out or two holders clash.                                               *)
THEOREM OwnMemoryAsked == Spec => []OwnPagesAsked
<1>1. IInv /\ UntilClash => OwnPagesAsked
  BY OwnAsked
<1>. QED
  BY <1>1, ProgressInvariant, PTL

=============================================================================
