-------------------------------- MODULE Ppa --------------------------------
(***************************************************************************)
(* The physical page allocator, mm/ppa.zig: a buddy allocator over a pool  *)
(* of pages with an array page_meta of an order and a free flag for every  *)
(* page.  phys_alloc and phys_free hold ppa_lock for their whole work, so  *)
(* each is one step.  A page is its number in the pool.                    *)
(*                                                                         *)
(* A client stands for one outstanding block: the page tables, a VMA of a  *)
(* token, a segment of an ELF image.  It frees the pointer it was given.   *)
(***************************************************************************)
EXTENDS Integers, FiniteSetsExt

CONSTANTS MAX_ORDER,      \* 11
          TOTAL_PAGES,    \* 16384
          Requests,       \* sizes that are asked for, in pages
          Clients

\* 1 << order
shl[order \in 0 .. MAX_ORDER] == IF order = 0 THEN 1 ELSE 2 * shl[order - 1]

ASSUME PpaAssumption ==
    /\ MAX_ORDER \in Nat \ {0}
    /\ TOTAL_PAGES \in Nat \ {0} /\ TOTAL_PAGES % shl[MAX_ORDER - 1] = 0
    /\ Requests \subseteq Nat

VARIABLES page_meta,
          block           \* what each client holds: a block, or Null

ppa_vars == <<page_meta, block>>

Pages == 0 .. TOTAL_PAGES - 1
Order == 0 .. MAX_ORDER - 1
PageInfo == [order : Order, is_free : BOOLEAN]
Null == [start |-> -1, pages |-> 0, order |-> 0]
Block == [start : Pages, pages : Requests, order : Order]

\* ppa_init: the first page of each maximal block gets its order; every page is
\* free.
PpaInit ==
    /\ page_meta = [i \in Pages |->
           [order |-> IF i % shl[MAX_ORDER - 1] = 0 THEN MAX_ORDER - 1 ELSE 0,
            is_free |-> TRUE]]
    /\ block = [c \in Clients |-> Null]

-----------------------------------------------------------------------------
\* Mutant: the smallest order is one too small for sizes just above a power of 2.
fits_off_by_one(o, pages) == shl[o] >= pages - 1

fits(o, pages) == shl[o] >= pages

\* The orders that are tried, from the smallest that fits upwards, and the pages
\* looked at for an order.
req_order(pages) == Min({o \in Order : fits(o, pages)})
FreeAt(o) == {i \in Pages : i % shl[o] = 0 /\ page_meta[i] = [order |-> o, is_free |-> TRUE]}
OrdersFor(pages) == {o \in Order : o >= req_order(pages) /\ FreeAt(o) # {}}

\* Mutant: the last cut leaves its upper half out.
split_but_last(i, cur, req) ==
    [p \in Pages |->
        IF p = i THEN [order |-> req, is_free |-> FALSE]
        ELSE IF \E co \in req + 1 .. cur - 1 : p = i + shl[co]
             THEN [order |-> CHOOSE co \in req + 1 .. cur - 1 : p = i + shl[co], is_free |-> TRUE]
             ELSE page_meta[p]]

\* Block i of order cur cut down to order req: the upper halves become free.
split(i, cur, req) ==
    [p \in Pages |->
        IF p = i THEN [order |-> req, is_free |-> FALSE]
        ELSE IF \E co \in req .. cur - 1 : p = i + shl[co]
             THEN [order |-> CHOOSE co \in req .. cur - 1 : p = i + shl[co], is_free |-> TRUE]
             ELSE page_meta[p]]

phys_alloc(c, pages) ==
    /\ block[c] = Null
    /\ pages > 0 /\ \E o \in Order : fits(o, pages)
    /\ OrdersFor(pages) # {}
    /\ LET cur == Min(OrdersFor(pages))
           i == Min(FreeAt(cur))
       IN  /\ page_meta' = split(i, cur, req_order(pages))
           /\ block' = [block EXCEPT ![c] =
                  [start |-> i, pages |-> pages, order |-> req_order(pages)]]

\* null: a size of 0 or above the largest block, or no block left.
phys_alloc_null(c, pages) ==
    /\ block[c] = Null
    /\ (pages > 0 /\ \E o \in Order : fits(o, pages)) => OrdersFor(pages) = {}
    /\ UNCHANGED ppa_vars

\* The head of the block of order k that page i is in, and its buddy.
HeadAt(i, k) == i - (i % shl[k])
Buddy(i, k) == IF (i \div shl[k]) % 2 = 0 THEN HeadAt(i, k) + shl[k] ELSE HeadAt(i, k) - shl[k]

last_merge(k) == k < MAX_ORDER - 1

\* How far a freed block grows: as long as the buddy of that order is free.
Mergeable(i, k) ==
    /\ last_merge(k)
    /\ Buddy(i, k) < TOTAL_PAGES
    /\ page_meta[Buddy(i, k)] = [order |-> k, is_free |-> TRUE]
GrowsTo(i, o) ==
    CHOOSE k \in o .. MAX_ORDER :
        /\ \A j \in o .. k - 1 : Mergeable(i, j)
        /\ ~ Mergeable(i, k)

\* The loop of phys_free.  A merge clears the buddy's flag and then sets that of
\* the lower of the two; the flag of the upper one stays set when it is the block
\* being freed.
coalesce(i, o) ==
    LET top == GrowsTo(i, o)
        heads == {HeadAt(i, k) : k \in o .. top}
        buddies == {Buddy(i, k) : k \in o .. top - 1}
    IN  [p \in Pages |->
            IF p \in heads
            THEN [order |-> Max({k \in o .. top : HeadAt(i, k) = p}), is_free |-> TRUE]
            ELSE IF p \in buddies THEN [page_meta[p] EXCEPT !.is_free = FALSE]
                 ELSE page_meta[p]]

\* phys_free of a client's pointer; a page that is marked free is left alone.
phys_free(c) ==
    /\ block[c] # Null
    /\ LET i == block[c].start
       IN  page_meta' = IF page_meta[i].is_free THEN page_meta
                        ELSE coalesce(i, page_meta[i].order)
    /\ block' = [block EXCEPT ![c] = Null]

PpaNext ==
    \/ \E c \in Clients, pages \in Requests : phys_alloc(c, pages)
    \/ \E c \in Clients, pages \in Requests : phys_alloc_null(c, pages)
    \/ \E c \in Clients : phys_free(c)

PpaSpec == PpaInit /\ [][PpaNext]_ppa_vars

free_pages ==
    MapThenSumSet(LAMBDA i : IF page_meta[i].is_free THEN shl[page_meta[i].order] ELSE 0, Pages)

-----------------------------------------------------------------------------
(* Properties *)

TypeOK ==
    /\ page_meta \in [Pages -> PageInfo]
    /\ block \in [Clients -> Block \cup {Null}]

\* However blocks were cut, merged and freed by whoever, a block that is given out
\* is large enough, aligned to its order and inside the pool, and so is every
\* block the array describes.
BlocksInPool ==
    /\ \A i \in Pages : LET n == shl[page_meta[i].order] IN i % n = 0 /\ i + n <= TOTAL_PAGES
    /\ \A c \in Clients : block[c] # Null =>
          /\ block[c].pages <= shl[block[c].order]
          /\ block[c].start + block[c].pages <= TOTAL_PAGES

\* The pages a client was given.
PagesOf(c) == block[c].start .. block[c].start + block[c].pages - 1

\* ppa.zig:14, "allocate 'pages' contiguous pages": no page is given to two
\* clients at a time.
AllocationsDisjoint ==
    \A c, d \in Clients :
        (block[c] # Null /\ block[d] # Null /\ c # d) => PagesOf(c) \cap PagesOf(d) = {}

\* No page is lost for good: however blocks were cut, merged and freed, also
\* through pointers into the middle of other blocks, a page that is in no
\* client's block (rounded up to its order) is in a block that the array has free.
Covers(start, order, p) == p \in start .. start + shl[order] - 1
NoPageLost ==
    \A p \in Pages :
        \/ \E c \in Clients : block[c] # Null /\ Covers(block[c].start, block[c].order, p)
        \/ \E i \in Pages : page_meta[i].is_free /\ Covers(i, page_meta[i].order, p)

\* shell.zig:52, "const used_pgs = total_pgs - free_pgs": no more pages are free
\* than there are.
FreePagesBounded == free_pages <= TOTAL_PAGES

=============================================================================
