------------------------------- MODULE Paging -------------------------------
(***************************************************************************)
(* The four-level page tables of arch/x86_64/mm/paging.zig, as the bytes   *)
(* the manager writes and as the processor reads them: page_table_map and  *)
(* page_table_unmap change tables in physical memory, Translate is the     *)
(* hardware walk, and tlb is what the processor has cached of it.          *)
(*                                                                         *)
(* A virtual page is its four indices <<pml4, pdpt, pd, pt>> (va_split); a *)
(* physical page is its number.  A call runs under the kernel mutex, so it *)
(* is one step.  The boot sequence calls paging_global_init before any     *)
(* other code maps, so Init is the state it leaves.  Tables are never      *)
(* given back.                                                             *)
(*                                                                         *)
(* The manager trusts bytes that are not its own.  phys_alloc(1) may give  *)
(* it any page of the pool, one that is a table already too (module Ppa:   *)
(* blocks overlap, and pages in use are handed out again once the single   *)
(* ones are gone); whoever else was given a table's page may write it; and *)
(* ensure_table takes the two huge pages at 0 and 1 GB for tables, whose   *)
(* bytes nothing in the kernel clears.  When a call meets one of these,    *)
(* the tables are lost: the model goes no further, and the properties say  *)
(* what holds until then.                                                  *)
(***************************************************************************)
EXTENDS Naturals

CONSTANTS
    PT_ENTRIES,     \* 512
    Pool,           \* the pages phys_alloc hands out
    pml4, pdpt0,    \* the first two it handed out, to paging_global_init
    Junk,           \* what a page of the pool holds before it is a table
    Strays,         \* the entries <<page, index>> of pages 0 and 1 GB that have
                    \* the present bit at boot, whatever those bytes are
    VPages,         \* the virtual pages callers map
    Targets,        \* the physical pages they map them to
    FlagSets,       \* the flags they pass, as sets of bit numbers
    None

Index == 0 .. PT_ENTRIES - 1
GB == PT_ENTRIES * PT_ENTRIES       \* 1 GB, in pages

Entry == [present : BOOLEAN, page : Nat, writable : BOOLEAN, user : BOOLEAN,
          huge : BOOLEAN, nx : BOOLEAN]

ASSUME PagingAssumption ==
    /\ PT_ENTRIES \in Nat \ {0, 1}
    /\ Pool \subseteq 1 .. GB - 1       \* below 1 GB, not page 0
    /\ pml4 \in Pool /\ pdpt0 \in Pool /\ pml4 # pdpt0
    /\ Junk \in [Index -> Entry] /\ Strays \subseteq {0, GB} \X Index
    /\ VPages \subseteq Index \X Index \X Index \X Index
    /\ Targets \subseteq Nat /\ FlagSets \subseteq SUBSET (0 .. 2)
    /\ None \notin Nat

VARIABLES
    memory,         \* memory[page][index]: the entries of the pages used as tables
    unused,         \* the pages of the pool that are no tables
    tlb,            \* pairs <<virtual page, physical page>> the processor has cached
    asked,          \* history: the last successful call for each virtual page
    status          \* "intact" or "lost"

vars == <<memory, unused, tlb, asked, status>>

-----------------------------------------------------------------------------
(* Entries                                                                 *)

Empty == [present |-> FALSE, page |-> 0, writable |-> FALSE, user |-> FALSE,
          huge |-> FALSE, nx |-> FALSE]
Present(page) == [Empty EXCEPT !.present = TRUE, !.page = page]

TableEntry(page) == [Present(page) EXCEPT !.writable = TRUE, !.user = TRUE]
HugeEntry(page) == [Present(page) EXCEPT !.writable = TRUE, !.huge = TRUE]

\* page_table_map's translation of its flags argument.
PageEntry(page, flags) ==
    [Present(page) EXCEPT !.writable = 0 \in flags, !.user = 1 \in flags, !.nx = 2 \notin flags]

\* The flags rust_allocate_memory passes for memory it calls readable, writable
\* or executable; it refuses memory that is both.
AllocFlags(access) == {0} \cup (IF access = "rw" THEN {1} ELSE {})
                         \cup (IF access = "rx" THEN {2} ELSE {})

Zeroed == [k \in Index |-> Empty]

-----------------------------------------------------------------------------
(* paging_global_init                                                      *)

\* The pages that may be used as tables.  ensure_table takes the target of a
\* present entry for a table, so pages 0 and GB, the targets of the two huge
\* entries, are among them; their entries are absent at boot but for the strays.
Tables == Pool \cup {0, GB}

Init ==
    /\ memory = [t \in Tables |->
                   CASE t = pml4  -> [Zeroed EXCEPT ![0] = [Present(pdpt0) EXCEPT !.writable = TRUE]]
                     [] t = pdpt0 -> [Zeroed EXCEPT ![0] = HugeEntry(0), ![1] = HugeEntry(GB)]
                     [] t \in {0, GB} -> Zeroed
                     [] t \in Pool \ {pml4, pdpt0} -> Junk]
    /\ unused = Pool \ {pml4, pdpt0}
    /\ tlb = {}
    /\ asked = [v \in VPages |-> None]
    /\ status = "intact"

\* What the tables hold from here on is not followed.
Lose == status' = "lost" /\ UNCHANGED <<memory, unused, tlb, asked>>

-----------------------------------------------------------------------------
(* page_table_map                                                          *)

\* A walk: the memory and pool so far, the table reached, and how it goes: "ok",
\* "null" (no memory) or "lost".
Start == [memory |-> memory, unused |-> unused, table |-> pml4, end |-> "ok"]

Linked(w, k, new) ==
    [w EXCEPT !.memory = [@ EXCEPT ![w.table][k] = TableEntry(new), ![new] = Zeroed],
              !.unused = @ \ {new}, !.table = new]

\* phys_alloc(1) gives any page of the pool, or none.
Allocated(w, k) ==
    {[w EXCEPT !.end = "null"]} \cup
    {IF new \in w.unused THEN Linked(w, k, new) ELSE [w EXCEPT !.end = "lost"] : new \in Pool}

\* Mutant: the new table is not cleared.
ensure_table_uncleared(w, k) ==
    LET entry == w.memory[w.table][k]
    IN  IF w.end # "ok" THEN {w}
        ELSE IF <<w.table, k>> \in Strays THEN {[w EXCEPT !.end = "lost"]}
        ELSE IF entry.present THEN {[w EXCEPT !.table = entry.page]}
        ELSE {[w EXCEPT !.memory = [@ EXCEPT ![w.table][k] = TableEntry(new)],
                        !.unused = @ \ {new}, !.table = new] : new \in w.unused}

\* Mutant: a huge entry is replaced by an empty table.
ensure_table_over_huge(w, k) ==
    LET entry == w.memory[w.table][k]
    IN  IF w.end # "ok" THEN {w}
        ELSE IF <<w.table, k>> \in Strays THEN {[w EXCEPT !.end = "lost"]}
        ELSE IF entry.present /\ ~entry.huge THEN {[w EXCEPT !.table = entry.page]}
        ELSE Allocated(w, k)

\* The table that entry k of the walk's table points to, made if need be.
ensure_table(w, k) ==
    LET entry == w.memory[w.table][k]
    IN  IF w.end # "ok" THEN {w}
        ELSE IF <<w.table, k>> \in Strays THEN {[w EXCEPT !.end = "lost"]}
        ELSE IF entry.present THEN {[w EXCEPT !.table = entry.page]}
        ELSE Allocated(w, k)

EnsureTables(v) ==
    LET pdpts == ensure_table(Start, v[1])
        pds == UNION {ensure_table(w, v[2]) : w \in pdpts}
    IN  UNION {ensure_table(w, v[3]) : w \in pds}

\* Mutant: the cached translation is left alone.
invlpg_missing(v) == tlb

invlpg(v) == {c \in tlb : c[1] # v}

page_table_map(v, page, flags) ==
    \E w \in EnsureTables(v) :
        /\ w.end = "ok"
        /\ memory' = [w.memory EXCEPT ![w.table][v[4]] = PageEntry(page, flags)]
        /\ unused' = w.unused
        /\ tlb' = invlpg(v)
        /\ asked' = [asked EXCEPT ![v] = [page |-> page, flags |-> flags]]
        /\ UNCHANGED status

\* Out of memory: the call returns -1, the tables made on the way stay.
page_table_map_fails(v) ==
    \E w \in EnsureTables(v) :
        /\ w.end = "null"
        /\ memory' = w.memory /\ unused' = w.unused
        /\ UNCHANGED <<tlb, asked, status>>

\* A table was cleared to be a table again, or stray bytes were taken for one.
page_table_map_astray(v) ==
    /\ \E w \in EnsureTables(v) : w.end = "lost"
    /\ Lose

-----------------------------------------------------------------------------
(* page_table_unmap                                                        *)

\* The table at depth n of the walk for v, None where an entry is absent.
PdptOf(v) == IF memory[pml4][v[1]].present THEN memory[pml4][v[1]].page ELSE None
PdOf(v) ==
    IF PdptOf(v) # None /\ memory[PdptOf(v)][v[2]].present
    THEN memory[PdptOf(v)][v[2]].page ELSE None
PtOf(v) ==
    IF PdOf(v) # None /\ memory[PdOf(v)][v[3]].present
    THEN memory[PdOf(v)][v[3]].page ELSE None

\* Mutant: the entry cleared is the one that points to the page table, and the
\* whole TLB is flushed.
page_table_unmap_table(v) ==
    /\ <<PdOf(v), v[3]>> \notin Strays
    /\ IF PtOf(v) = None
       THEN UNCHANGED <<memory, tlb>>
       ELSE memory' = [memory EXCEPT ![PdOf(v)][v[3]] = Empty] /\ tlb' = {}
    /\ asked' = [asked EXCEPT ![v] = None]
    /\ UNCHANGED <<unused, status>>

page_table_unmap(v) ==
    /\ <<PdOf(v), v[3]>> \notin Strays
    /\ IF PtOf(v) = None
       THEN UNCHANGED <<memory, tlb>>
       ELSE memory' = [memory EXCEPT ![PtOf(v)][v[4]] = Empty] /\ tlb' = invlpg(v)
    /\ asked' = [asked EXCEPT ![v] = None]
    /\ UNCHANGED <<unused, status>>

\* The entry of a page table that is none is cleared.
page_table_unmap_astray(v) ==
    /\ <<PdOf(v), v[3]>> \in Strays
    /\ Lose

\* Someone else who was given the page of a table writes it.
Overwritten == Lose

-----------------------------------------------------------------------------
(* The processor                                                           *)

\* A huge entry ends the walk at the second table.
InHuge(v) == PdptOf(v) # None /\ memory[PdptOf(v)][v[2]].huge

LeafEntry(v) ==
    IF InHuge(v) THEN memory[PdptOf(v)][v[2]]
    ELSE IF PtOf(v) = None THEN Empty
    ELSE memory[PtOf(v)][v[4]]

Translate(v) ==
    IF ~LeafEntry(v).present THEN None
    ELSE IF InHuge(v) THEN LeafEntry(v).page + v[3] * PT_ENTRIES + v[4]
    ELSE LeafEntry(v).page

\* User mode reaches a page only if every entry of the walk has the bit.
UserAccessible(v) ==
    /\ Translate(v) # None
    /\ memory[pml4][v[1]].user /\ memory[PdptOf(v)][v[2]].user
    /\ ~InHuge(v) => memory[PdOf(v)][v[3]].user /\ LeafEntry(v).user

\* An access through v: the processor uses the cached translation if it has
\* one, and caches the walk's result otherwise.
Access(v) ==
    /\ Translate(v) # None
    /\ \A c \in tlb : c[1] # v
    /\ tlb' = tlb \cup {<<v, Translate(v)>>}
    /\ UNCHANGED <<memory, unused, asked, status>>

\* The processor drops a cached translation whenever it likes.
Evict(c) ==
    /\ c \in tlb
    /\ tlb' = tlb \ {c}
    /\ UNCHANGED <<memory, unused, asked, status>>

Next ==
    /\ status = "intact"
    /\ \/ \E v \in VPages :
             \/ \E page \in Targets, flags \in FlagSets : page_table_map(v, page, flags)
             \/ page_table_map_fails(v) \/ page_table_map_astray(v)
             \/ page_table_unmap(v) \/ page_table_unmap_astray(v)
             \/ Access(v)
       \/ \E c \in tlb : Evict(c)
       \/ Overwritten

Spec == Init /\ [][Next]_vars

-----------------------------------------------------------------------------
(* Properties                                                              *)

\* The virtual pages above the 2 GB that the two huge entries cover.
HighPages == {v \in VPages : ~(v[1] = 0 /\ v[2] \in {0, 1})}

\* Above 2 GB the four levels behave as one function as long as the tables are
\* intact: a map call changes the translation of its page and of no other, even
\* when it runs out of memory half way down and whatever the new tables held
\* before, and an unmap call clears its page's and no other.
Abstract == INSTANCE PageMap WITH
    Pages <- HighPages, Frames <- Targets,
    mapping <- [v \in HighPages |-> Translate(v)]
ImplementsPageMap == Abstract!Spec

\* No call of the manager takes the kernel's own memory away: as long as the
\* tables are intact the first 2 GB are identity-mapped, whatever is mapped or
\* unmapped there: "ensures the kernel, VGA buffer (0xB8000), and physical
\* allocator pool remain accessible" (paging.zig:202-203).
IdentityMapped ==
    status = "intact" =>
        \A v \in VPages \ HighPages : Translate(v) = v[2] * GB + v[3] * PT_ENTRIES + v[4]

\* As long as the tables are intact, no cached translation outlives the entry it
\* was read from: map and unmap invalidate the page they change, and no call
\* changes another page's walk.
TlbCoherent == status = "intact" => \A c \in tlb : Translate(c[1]) = c[2]

\* As long as ensure_table was given no page twice, a page that serves as a table
\* is pointed to by one entry of one table: no two virtual pages with different
\* indices share an entry below the first level where they differ, whatever the
\* pages held before.
TablesNotShared ==
    status = "intact" =>
    \A v, u \in VPages :
        /\ PdptOf(v) # None /\ v[1] # u[1] => PdptOf(v) # PdptOf(u)
        /\ PdOf(v) # None /\ <<v[1], v[2]>> # <<u[1], u[2]>> => PdOf(v) # PdOf(u)
        /\ PtOf(v) # None /\ <<v[1], v[2], v[3]>> # <<u[1], u[2], u[3]>> => PtOf(v) # PtOf(u)

\* paging.zig:106, "Map `virtual_addr` -> `physical_addr` with the given flags.":
\* the processor then translates the page so.  Violated below 2 GB, where every
\* token's memory lies: ensure_table takes the 1 GB page for a table, the entry
\* is written where no walk reads it, and the identity mapping stays.
MapTakesEffect == \A v \in VPages : asked[v] # None => Translate(v) = asked[v].page

\* paging.zig:247, "flags: bit0=writable, bit1=user, bit2=no-execute": a page
\* mapped with bit 1 can be reached from user mode.  Violated for every page of
\* the first 512 GB: paging_global_init gives PML4 entry 0 no user bit, and
\* ensure_table does not add it to an entry that is present.
UserPagesAccessible ==
    \A v \in HighPages : asked[v] # None /\ 1 \in asked[v].flags => UserAccessible(v)

\* kernel/src/lib.rs:367, "Enforce W^X policy": with the flags that
\* rust_allocate_memory passes, no page is both writable and executable.
\* Violated: it sets bit 0 for every page ("Present"), which page_table_map reads
\* as writable, and bit 2 for an executable one.
WriteXorExecute ==
    \A v \in HighPages : LeafEntry(v).present => ~LeafEntry(v).writable \/ LeafEntry(v).nx

=============================================================================
