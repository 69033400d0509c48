---------------------------- MODULE PagingProofs ----------------------------
(***************************************************************************)
(* For tables of any size, any pool and whatever bytes the pages held at   *)
(* boot: until the tables are lost (phys_alloc gives ensure_table a table  *)
(* again, a walk goes through bytes nobody wrote as an entry, or another   *)
(* holder of a table's page writes it), they are a tree, so that no two    *)
(* virtual pages share an entry, the low 2 GB stay mapped to themselves,   *)
(* the TLB is never stale, and above 2 GB the four levels implement one    *)
(* function from pages to frames.  For a pool and orders of any size:      *)
(* every block of the buddy allocator is aligned and inside the pool, and  *)
(* no page is lost to it.                                                  *)
(***************************************************************************)
EXTENDS Paging, Ppa, FiniteSetTheorems, WellFoundedInduction, TLAPS

(* m and f as memory and unused, and lev the level at which each page is   *)
(* used: 1 for the PML4 down to 4 for a page table, 0 for a page not used. *)
(* Every present entry above level 4 points one level down, and no two of  *)
(* them to the same page; the only huge entries are those of boot.         *)
Typed(m, f, lev) ==
    /\ m \in [Tables -> [Index -> Entry]]
    /\ f \in SUBSET Pool
    /\ lev \in [Tables -> 0 .. 4]
    /\ lev[pml4] = 1 /\ \A t \in f : lev[t] = 0

Down(m, lev) ==
    \A t \in Tables, k \in Index :
        lev[t] \in 1 .. 3 /\ m[t][k].present =>
            m[t][k].page \in Tables /\ lev[m[t][k].page] = lev[t] + 1

Once(m, lev) ==
    \A t, u \in Tables, k, l \in Index :
        /\ lev[t] \in 1 .. 3 /\ m[t][k].present
        /\ lev[u] \in 1 .. 3 /\ m[u][l].present
        /\ m[t][k].page = m[u][l].page
        => t = u /\ k = l

Boot(m, lev) ==
    /\ m[pml4][0].present /\ m[pml4][0].page = pdpt0
    /\ m[pdpt0][0] = HugeEntry(0) /\ m[pdpt0][1] = HugeEntry(GB)
    /\ \A t \in Tables, k \in Index :
          lev[t] = 2 /\ m[t][k].huge => t = pdpt0 /\ k \in {0, 1}

Tree(m, f, lev) == Typed(m, f, lev) /\ Down(m, lev) /\ Once(m, lev) /\ Boot(m, lev)

(* The hardware walk in a memory m.                                        *)
Pdpt(m, v) == IF m[pml4][v[1]].present THEN m[pml4][v[1]].page ELSE None
Pd(m, v) ==
    IF Pdpt(m, v) # None /\ m[Pdpt(m, v)][v[2]].present
    THEN m[Pdpt(m, v)][v[2]].page ELSE None
Pt(m, v) ==
    IF Pd(m, v) # None /\ m[Pd(m, v)][v[3]].present
    THEN m[Pd(m, v)][v[3]].page ELSE None
Huge(m, v) == Pdpt(m, v) # None /\ m[Pdpt(m, v)][v[2]].huge
Leaf(m, v) ==
    IF Huge(m, v) THEN m[Pdpt(m, v)][v[2]]
    ELSE IF Pt(m, v) = None THEN Empty
    ELSE m[Pt(m, v)][v[4]]
Walk(m, v) ==
    IF ~Leaf(m, v).present THEN None
    ELSE IF Huge(m, v) THEN Leaf(m, v).page + v[3] * PT_ENTRIES + v[4]
    ELSE Leaf(m, v).page

IInv ==
    /\ \E lev \in [Tables -> 0 .. 4] : Tree(memory, unused, lev)
    /\ \A c \in tlb : c[1] \in VPages /\ Translate(c[1]) = c[2]

-----------------------------------------------------------------------------
(* The pages and entries the proofs meet.                                  *)

LEMMA LeastOf ==
    ASSUME NEW S \in SUBSET Nat, S # {}
    PROVE  \E m \in S : \A n \in S : m <= n
<1>1. PICK m \in S : \A n \in S : <<n, m>> \notin OpToRel(<, Nat)
  BY NatLessThanWellFounded, WFMin
<1>2. \A n \in Nat : n < m => <<n, m>> \in OpToRel(<, Nat)
  BY Zenon DEF OpToRel
<1>3. \A n \in S : ~(n < m)
  BY <1>1, <1>2, Zenon
<1>. QED
  BY <1>3

LEMMA MinIn ==
    ASSUME NEW S \in SUBSET Nat, S # {}
    PROVE  Min(S) \in S
  BY LeastOf DEF Min

LEMMA BootPages ==
    /\ pml4 \in Pool /\ pdpt0 \in Pool /\ pml4 # pdpt0
    /\ 0 \notin Pool /\ GB \notin Pool /\ GB \in Nat /\ GB # 0
    /\ Tables \subseteq Nat /\ None \notin Tables
    /\ 0 \in Index /\ 1 \in Index
<1>1. /\ PT_ENTRIES \in Nat /\ PT_ENTRIES # 0 /\ PT_ENTRIES # 1 /\ None \notin Nat
      /\ Pool \subseteq 1 .. GB - 1 /\ pml4 \in Pool /\ pdpt0 \in Pool /\ pml4 # pdpt0
  BY PagingAssumption
<1>2. GB \in Nat
  BY <1>1 DEF GB
<1>3. Pool \subseteq Nat /\ 0 \notin Pool /\ GB \notin Pool /\ GB # 0
  BY <1>1, <1>2
<1>4. 0 \in Index /\ 1 \in Index
  BY <1>1 DEF Index
<1>5. Tables \subseteq Nat
  BY <1>2, <1>3 DEF Tables
<1>. QED
  BY <1>1, <1>2, <1>3, <1>4, <1>5

LEMMA EmptyFacts == Empty \in Entry /\ ~Empty.present /\ ~Empty.huge
BY DEF Empty, Entry

LEMMA TableFacts ==
    ASSUME NEW page \in Nat
    PROVE  /\ TableEntry(page) \in Entry /\ TableEntry(page).present
           /\ TableEntry(page).page = page /\ ~TableEntry(page).huge
BY DEF TableEntry, Present, Empty, Entry

LEMMA HugeFacts ==
    ASSUME NEW page \in Nat
    PROVE  /\ HugeEntry(page) \in Entry /\ HugeEntry(page).present
           /\ HugeEntry(page).page = page /\ HugeEntry(page).huge
BY DEF HugeEntry, Present, Empty, Entry

LEMMA RootFacts ==
    ASSUME NEW page \in Nat
    PROVE  /\ [Present(page) EXCEPT !.writable = TRUE] \in Entry
           /\ [Present(page) EXCEPT !.writable = TRUE].present
           /\ [Present(page) EXCEPT !.writable = TRUE].page = page
BY DEF Present, Empty, Entry

LEMMA PageFacts ==
    ASSUME NEW page \in Nat, NEW flags
    PROVE  /\ PageEntry(page, flags) \in Entry /\ PageEntry(page, flags).present
           /\ PageEntry(page, flags).page = page
<1>. DEFINE w == 0 \in flags
            us == 1 \in flags
            x == 2 \notin flags
<1>1. w \in BOOLEAN /\ us \in BOOLEAN /\ x \in BOOLEAN
  OBVIOUS
<1>2. PageEntry(page, flags) = [Present(page) EXCEPT !.writable = w, !.user = us, !.nx = x]
  BY DEF PageEntry
<1>. HIDE DEF w, us, x
<1>. QED
  BY <1>1, <1>2 DEF Present, Empty, Entry

LEMMA PageIndices ==
    ASSUME NEW v \in VPages
    PROVE  v[1] \in Index /\ v[2] \in Index /\ v[3] \in Index /\ v[4] \in Index
<1>1. v \in Index \X Index \X Index \X Index
  BY PagingAssumption
<1>. QED
  BY <1>1

LEMMA PagesDiffer ==
    ASSUME NEW v \in VPages, NEW u \in VPages,
           v[1] = u[1], v[2] = u[2], v[3] = u[3], v[4] = u[4]
    PROVE  v = u
<1>1. v \in Index \X Index \X Index \X Index /\ u \in Index \X Index \X Index \X Index
  BY PagingAssumption
<1>. QED
  BY <1>1

-----------------------------------------------------------------------------
(* Walks in a tree.                                                        *)

(* Each level of a walk is a table of that level.                          *)
LEMMA WalkLevels ==
    ASSUME NEW m, NEW f, NEW lev, Tree(m, f, lev), NEW v \in VPages
    PROVE  /\ pml4 \in Tables /\ lev[pml4] = 1
           /\ Pdpt(m, v) # None => Pdpt(m, v) \in Tables /\ lev[Pdpt(m, v)] = 2
           /\ Pd(m, v) # None => Pdpt(m, v) # None /\ Pd(m, v) \in Tables /\ lev[Pd(m, v)] = 3
           /\ Pt(m, v) # None => Pd(m, v) # None /\ Pt(m, v) \in Tables /\ lev[Pt(m, v)] = 4
<1>1. pml4 \in Tables /\ lev[pml4] = 1
  BY BootPages DEF Tree, Typed, Tables
<1>2. v[1] \in Index /\ v[2] \in Index /\ v[3] \in Index /\ Down(m, lev)
  BY PageIndices DEF Tree
<1>3. Pdpt(m, v) # None => Pdpt(m, v) \in Tables /\ lev[Pdpt(m, v)] = 2
  BY <1>1, <1>2 DEF Pdpt, Down
<1>4. Pd(m, v) # None => Pdpt(m, v) # None /\ Pd(m, v) \in Tables /\ lev[Pd(m, v)] = 3
  BY <1>2, <1>3 DEF Pd, Down
<1>5. Pt(m, v) # None => Pd(m, v) # None /\ Pt(m, v) \in Tables /\ lev[Pt(m, v)] = 4
  BY <1>2, <1>4 DEF Pt, Down
<1>. QED
  BY <1>1, <1>3, <1>4, <1>5

(* Two walks that meet in a table came the same way.                       *)
LEMMA SamePath ==
    ASSUME NEW m, NEW f, NEW lev, Tree(m, f, lev), NEW v \in VPages, NEW u \in VPages
    PROVE  /\ Pdpt(m, v) # None /\ Pdpt(m, v) = Pdpt(m, u) => v[1] = u[1]
           /\ Pd(m, v) # None /\ Pd(m, v) = Pd(m, u) => v[1] = u[1] /\ v[2] = u[2]
           /\ Pt(m, v) # None /\ Pt(m, v) = Pt(m, u) =>
                 v[1] = u[1] /\ v[2] = u[2] /\ v[3] = u[3]
<1>1. /\ v[1] \in Index /\ v[2] \in Index /\ v[3] \in Index
      /\ u[1] \in Index /\ u[2] \in Index /\ u[3] \in Index
  BY PageIndices
<1>2. Once(m, lev)
  BY DEF Tree
<1>3. pml4 \in Tables /\ lev[pml4] = 1
  BY WalkLevels
<1>4. Pdpt(m, v) # None /\ Pdpt(m, v) = Pdpt(m, u) => v[1] = u[1]
  BY <1>1, <1>2, <1>3 DEF Pdpt, Once
<1>5. ASSUME Pd(m, v) # None, Pd(m, v) = Pd(m, u)
      PROVE  Pdpt(m, v) # None /\ Pdpt(m, v) = Pdpt(m, u) /\ v[2] = u[2]
  <2>1. /\ Pdpt(m, v) \in Tables /\ lev[Pdpt(m, v)] = 2 /\ Pdpt(m, v) # None
        /\ Pdpt(m, u) \in Tables /\ lev[Pdpt(m, u)] = 2
    BY <1>5, WalkLevels
  <2>2. /\ m[Pdpt(m, v)][v[2]].present /\ m[Pdpt(m, u)][u[2]].present
        /\ m[Pdpt(m, v)][v[2]].page = m[Pdpt(m, u)][u[2]].page
    BY <1>5 DEF Pd
  <2>. QED
    BY <2>1, <2>2, <1>1, <1>2 DEF Once
<1>6. ASSUME Pt(m, v) # None, Pt(m, v) = Pt(m, u)
      PROVE  Pd(m, v) # None /\ Pd(m, v) = Pd(m, u) /\ v[3] = u[3]
  <2>1. /\ Pd(m, v) \in Tables /\ lev[Pd(m, v)] = 3 /\ Pd(m, v) # None
        /\ Pd(m, u) \in Tables /\ lev[Pd(m, u)] = 3
    BY <1>6, WalkLevels
  <2>2. /\ m[Pd(m, v)][v[3]].present /\ m[Pd(m, u)][u[3]].present
        /\ m[Pd(m, v)][v[3]].page = m[Pd(m, u)][u[3]].page
    BY <1>6 DEF Pt
  <2>. QED
    BY <2>1, <2>2, <1>1, <1>2 DEF Once
<1>. QED
  BY <1>4, <1>5, <1>6

(* The huge entries are met below 2 GB and nowhere else.                   *)
LEMMA HugeIsLow ==
    ASSUME NEW m, NEW f, NEW lev, Tree(m, f, lev), NEW v \in VPages
    PROVE  Huge(m, v) <=> v \notin HighPages
<1>1. pml4 \in Tables /\ lev[pml4] = 1 /\ v[1] \in Index /\ v[2] \in Index /\ 0 \in Index
  BY WalkLevels, PageIndices, BootPages
<1>2. /\ m[pml4][0].present /\ m[pml4][0].page = pdpt0 /\ pdpt0 # None
      /\ m[pdpt0][0].huge /\ m[pdpt0][1].huge
  <2>1. pdpt0 # None /\ GB \in Nat
    BY BootPages DEF Tables
  <2>2. HugeEntry(0).huge /\ HugeEntry(GB).huge
    BY <2>1, HugeFacts
  <2>. QED
    BY <2>1, <2>2 DEF Tree, Boot
<1>3. ASSUME v[1] = 0, v[2] \in {0, 1} PROVE Huge(m, v)
  BY <1>2, <1>3 DEF Huge, Pdpt
<1>4. ASSUME Huge(m, v) PROVE v[1] = 0 /\ v[2] \in {0, 1}
  <2>1. Pdpt(m, v) # None /\ m[Pdpt(m, v)][v[2]].huge
    BY <1>4 DEF Huge
  <2>2. Pdpt(m, v) \in Tables /\ lev[Pdpt(m, v)] = 2
    BY <2>1, WalkLevels
  <2>3. Pdpt(m, v) = pdpt0 /\ v[2] \in {0, 1}
    BY <1>1, <2>1, <2>2 DEF Tree, Boot
  <2>4. m[pml4][v[1]].present /\ m[pml4][v[1]].page = pdpt0
    BY <2>1, <2>3 DEF Pdpt
  <2>5. v[1] = 0
    BY <1>1, <1>2, <2>4 DEF Tree, Once
  <2>. QED
    BY <2>3, <2>5
<1>. QED
  BY <1>3, <1>4 DEF HighPages

LEMMA LowWalk ==
    ASSUME NEW m, NEW f, NEW lev, Tree(m, f, lev), NEW v \in VPages \ HighPages
    PROVE  Walk(m, v) = v[2] * GB + v[3] * PT_ENTRIES + v[4]
<1>1. Huge(m, v) /\ v[1] = 0 /\ v[2] \in {0, 1}
  BY HugeIsLow DEF HighPages
<1>2. /\ m[pml4][0].present /\ m[pml4][0].page = pdpt0
      /\ m[pdpt0][0] = HugeEntry(0) /\ m[pdpt0][1] = HugeEntry(GB)
  BY DEF Tree, Boot
<1>3. Pdpt(m, v) = pdpt0
  BY <1>1, <1>2 DEF Pdpt
<1>4. Leaf(m, v) = m[pdpt0][v[2]]
  BY <1>1, <1>3 DEF Leaf
<1>5. Leaf(m, v).present /\ Leaf(m, v).page = v[2] * GB
  <2>1. GB \in Nat
    BY BootPages
  <2>2. CASE v[2] = 0
    <3>1. Leaf(m, v).present /\ Leaf(m, v).page = 0
      BY <2>2, <1>2, <1>4, HugeFacts
    <3>. QED
      BY <3>1, <2>1, <2>2
  <2>3. CASE v[2] = 1
    <3>1. Leaf(m, v).present /\ Leaf(m, v).page = GB
      BY <2>1, <2>3, <1>2, <1>4, HugeFacts
    <3>. QED
      BY <3>1, <2>1, <2>3
  <2>. QED
    BY <1>1, <2>2, <2>3
<1>. QED
  BY <1>1, <1>5, Zenon DEF Walk

-----------------------------------------------------------------------------
(* ensure_table                                                            *)

(* Page new, unused so far, is emptied and entry k of table t points to it. *)
Grown(m, lev, t, k, new, m2, f2, lev2) ==
    /\ new \in Tables /\ lev[new] = 0
    /\ Typed(m2, f2, lev2)
    /\ lev2[new] = lev[t] + 1
    /\ \A s \in Tables : s # new => lev2[s] = lev[s]
    /\ \A s \in Tables, l \in Index : s # new =>
          m2[s][l] = IF s = t /\ l = k THEN TableEntry(new) ELSE m[s][l]
    /\ \A l \in Index : m2[new][l] = Empty

LEMMA GrowTyped ==
    ASSUME NEW m, NEW f, NEW lev, Typed(m, f, lev),
           NEW t \in Tables, NEW k \in Index, lev[t] \in 1 .. 3, NEW new \in f,
           NEW m2, NEW lev2,
           m2 = [m EXCEPT ![t][k] = TableEntry(new), ![new] = Zeroed],
           lev2 = [lev EXCEPT ![new] = lev[t] + 1]
    PROVE  Grown(m, lev, t, k, new, m2, f \ {new}, lev2)
<1>. DEFINE e == TableEntry(new)
            z == Zeroed
<1>1. /\ m \in [Tables -> [Index -> Entry]] /\ f \in SUBSET Pool
      /\ lev \in [Tables -> 0 .. 4] /\ lev[pml4] = 1 /\ \A s \in f : lev[s] = 0
  BY DEF Typed
<1>2. new \in Tables /\ new \in Nat /\ lev[new] = 0 /\ new # t /\ pml4 \in Tables
      /\ new # pml4
  BY <1>1, BootPages DEF Tables
<1>3. e \in Entry /\ z \in [Index -> Entry] /\ \A l \in Index : z[l] = Empty
  BY <1>2, TableFacts, EmptyFacts DEF Zeroed
<1>4. m2 = [m EXCEPT ![t][k] = e, ![new] = z]
  OBVIOUS
<1>. HIDE DEF e, z
<1>. DEFINE r == [m[t] EXCEPT ![k] = e]
            m1 == [m EXCEPT ![t] = r]
<1>5. /\ r \in [Index -> Entry] /\ r[k] = e /\ \A l \in Index : l # k => r[l] = m[t][l]
  BY <1>1, <1>3
<1>a. m2 = [m1 EXCEPT ![new] = z]
  BY <1>4, Zenon
<1>. HIDE DEF r
<1>b. m1 \in [Tables -> [Index -> Entry]] /\ m1[t] = r /\ \A s \in Tables : s # t => m1[s] = m[s]
  BY <1>1, <1>5
<1>. HIDE DEF m1
<1>6. /\ m2 \in [Tables -> [Index -> Entry]] /\ m2[new] = z
      /\ \A s \in Tables : s # new => m2[s] = m1[s]
  BY <1>2, <1>3, <1>a, <1>b
<1>7. \A s \in Tables, l \in Index : s # new =>
          m2[s][l] = IF s = t /\ l = k THEN e ELSE m[s][l]
  BY <1>5, <1>6, <1>b
<1>8. /\ lev2 \in [Tables -> 0 .. 4] /\ lev2[new] = lev[t] + 1 /\ lev[t] + 1 \in 2 .. 4
      /\ \A s \in Tables : s # new => lev2[s] = lev[s]
  BY <1>1, <1>2
<1>9. Typed(m2, f \ {new}, lev2)
  <2>1. lev2[pml4] = 1
    BY <1>1, <1>2, <1>8
  <2>2. \A s \in f \ {new} : s \in Tables /\ lev2[s] = 0
    BY <1>1, <1>8 DEF Tables
  <2>. QED
    BY <1>1, <1>6, <1>8, <2>1, <2>2 DEF Typed
<1>. QED
  BY <1>2, <1>3, <1>6, <1>7, <1>8, <1>9 DEF e, Grown

(* A page from the pool, emptied and hung below an absent entry: the tree  *)
(* grows.                                                                  *)
LEMMA GrowTree ==
    ASSUME NEW m, NEW f, NEW lev, Tree(m, f, lev),
           NEW t \in Tables, NEW k \in Index, lev[t] \in 1 .. 3, ~m[t][k].present,
           NEW new, NEW m2, NEW f2, NEW lev2,
           Grown(m, lev, t, k, new, m2, f2, lev2)
    PROVE  Tree(m2, f2, lev2)
<1>. USE DEF Grown
<1>1. /\ m \in [Tables -> [Index -> Entry]]
      /\ lev \in [Tables -> 0 .. 4] /\ lev[pml4] = 1
  BY DEF Tree, Typed
<1>2. new \in Nat /\ new # t /\ pml4 \in Tables
  BY BootPages DEF Tables
<1>3. /\ TableEntry(new).present
      /\ TableEntry(new).page = new /\ ~TableEntry(new).huge
  BY <1>2, TableFacts
<1>5. \A s \in Tables, l \in Index : s # new =>
          m2[s][l] = IF s = t /\ l = k THEN TableEntry(new) ELSE m[s][l]
  OBVIOUS
<1>6. /\ lev2[new] = lev[t] + 1 /\ lev2[new] # 0
      /\ \A s \in Tables : s # new => lev2[s] = lev[s]
  OBVIOUS
<1>7. \A s \in Tables : lev[s] # 0 => s # new
  BY <1>2
<1>8. \A l \in Index : m2[new][l] = Empty /\ ~m2[new][l].present /\ ~m2[new][l].huge
  BY EmptyFacts
(* The present entries above level 4: the old ones, and the new one.       *)
<1>10. ASSUME NEW s \in Tables, NEW l \in Index, lev2[s] \in 1 .. 3, m2[s][l].present
       PROVE  /\ s # new /\ lev[s] \in 1 .. 3 /\ lev2[s] = lev[s]
              /\ \/ s = t /\ l = k /\ m2[s][l].page = new
                 \/ ~(s = t /\ l = k) /\ m[s][l].present /\ m2[s][l].page = m[s][l].page
                    /\ m[s][l].page \in Tables /\ lev[m[s][l].page] = lev[s] + 1
  <2>1. s # new
    BY <1>8, <1>10
  <2>2. lev2[s] = lev[s]
    BY <2>1, <1>6
  <2>3. CASE s = t /\ l = k
    BY <2>1, <2>2, <2>3, <1>3, <1>5, <1>10
  <2>4. CASE ~(s = t /\ l = k)
    <3>1. m2[s][l] = m[s][l]
      BY <2>1, <2>4, <1>5
    <3>2. m[s][l].page \in Tables /\ lev[m[s][l].page] = lev[s] + 1
      BY <3>1, <2>2, <1>10 DEF Tree, Down
    <3>. QED
      BY <2>1, <2>2, <2>4, <3>1, <3>2, <1>10
  <2>. QED
    BY <2>3, <2>4
<1>11. Down(m2, lev2)
  <2>. SUFFICES ASSUME NEW s \in Tables, NEW l \in Index, lev2[s] \in 1 .. 3, m2[s][l].present
                PROVE  m2[s][l].page \in Tables /\ lev2[m2[s][l].page] = lev2[s] + 1
    BY DEF Down
  <2>1. CASE s = t /\ l = k
    BY <2>1, <1>2, <1>6, <1>10
  <2>2. CASE ~(s = t /\ l = k)
    <3>1. /\ m2[s][l].page = m[s][l].page /\ m[s][l].page \in Tables
          /\ lev[m[s][l].page] = lev[s] + 1 /\ lev[s] \in 1 .. 3 /\ lev2[s] = lev[s]
      BY <2>2, <1>10
    <3>2. lev[m[s][l].page] # 0
      BY <3>1
    <3>3. lev2[m[s][l].page] = lev[m[s][l].page]
      BY <3>1, <3>2, <1>6, <1>7
    <3>. QED
      BY <3>1, <3>3
  <2>. QED
    BY <2>1, <2>2
<1>12. Once(m2, lev2)
  <2>. SUFFICES ASSUME NEW s \in Tables, NEW u \in Tables, NEW l \in Index, NEW j \in Index,
                       lev2[s] \in 1 .. 3, m2[s][l].present,
                       lev2[u] \in 1 .. 3, m2[u][j].present,
                       m2[s][l].page = m2[u][j].page
                PROVE  s = u /\ l = j
    BY DEF Once
  <2>1. \A p \in Tables : lev[p] = lev[s] + 1 \/ lev[p] = lev[u] + 1 => p # new
    <3>1. lev[s] + 1 # 0 /\ lev[u] + 1 # 0
      BY <1>10
    <3>. QED
      BY <3>1, <1>2
  <2>2. CASE s = t /\ l = k
    <3>1. m2[u][j].page = new
      BY <2>2, <1>10
    <3>. QED
      BY <2>1, <2>2, <3>1, <1>10
  <2>3. CASE u = t /\ j = k
    <3>1. m2[s][l].page = new
      BY <2>3, <1>10
    <3>. QED
      BY <2>1, <2>3, <3>1, <1>10
  <2>4. CASE ~(s = t /\ l = k) /\ ~(u = t /\ j = k)
    <3>1. /\ m[s][l].present /\ m[u][j].present /\ m[s][l].page = m[u][j].page
          /\ lev[s] \in 1 .. 3 /\ lev[u] \in 1 .. 3
      BY <2>4, <1>10
    <3>. QED
      BY <3>1 DEF Tree, Once
  <2>. QED
    BY <2>2, <2>3, <2>4
<1>13. Boot(m2, lev2)
  <2>1. Boot(m, lev) /\ 0 \in Index /\ 1 \in Index /\ GB \in Nat
    BY BootPages DEF Tree
  <2>2. lev[pdpt0] = 2 /\ pdpt0 \in Tables
    <3>1. m[pml4][0].present /\ m[pml4][0].page = pdpt0
      BY <2>1 DEF Boot
    <3>2. lev[pml4] \in 1 .. 3 /\ lev[pml4] + 1 = 2
      BY <1>1
    <3>. QED
      BY <1>1, <1>2, <2>1, <3>1, <3>2 DEF Tree, Down
  <2>3. pdpt0 # new /\ pml4 # new
    BY <1>1, <1>2, <2>2
  <2>4. m2[pml4][0] = m[pml4][0]
    BY <1>2, <1>5, <2>1, <2>3 DEF Boot
  <2>5. m[pdpt0][0].present /\ m[pdpt0][1].present
    BY <2>1, HugeFacts DEF Boot
  <2>6. m2[pdpt0][0] = m[pdpt0][0] /\ m2[pdpt0][1] = m[pdpt0][1]
    BY <1>5, <2>1, <2>2, <2>3, <2>5
  <2>7. ASSUME NEW s \in Tables, NEW l \in Index, lev2[s] = 2, m2[s][l].huge
        PROVE  s = pdpt0 /\ l \in {0, 1}
    <3>1. s # new
      BY <1>8, <2>7
    <3>2. lev[s] = 2
      BY <3>1, <2>7, <1>6
    <3>3. ~(s = t /\ l = k)
      BY <3>1, <2>7, <1>3, <1>5
    <3>4. m[s][l].huge
      BY <3>1, <3>3, <2>7, <1>5
    <3>. QED
      BY <3>2, <3>4, <2>1 DEF Boot
  <2>. QED
    BY <2>1, <2>4, <2>6, <2>7 DEF Boot
<1>. QED
  BY <1>11, <1>12, <1>13 DEF Tree

LEMMA GrowKeepsWalks ==
    ASSUME NEW m, NEW f, NEW lev, Tree(m, f, lev),
           NEW t \in Tables, NEW k \in Index, lev[t] \in 1 .. 3, ~m[t][k].present,
           NEW new \in Tables, lev[new] = 0, NEW m2,
           \A s \in Tables, l \in Index : lev[s] # 0 =>
               m2[s][l] = IF s = t /\ l = k THEN TableEntry(new) ELSE m[s][l],
           \A l \in Index : m2[new][l] = Empty,
           NEW u \in VPages
    PROVE  Walk(m2, u) = Walk(m, u)
<1>1. u[1] \in Index /\ u[2] \in Index /\ u[3] \in Index /\ u[4] \in Index
  BY PageIndices
<1>2. new # None /\ new \in Nat
  BY BootPages
<1>3. TableEntry(new).present /\ TableEntry(new).page = new /\ ~TableEntry(new).huge
  BY <1>2, TableFacts
<1>4. \A l \in Index : ~m2[new][l].present /\ ~m2[new][l].huge
  BY EmptyFacts
<1>5. pml4 \in Tables /\ lev[pml4] = 1
  BY WalkLevels
<1>6. ASSUME Pdpt(m, u) = None, Pdpt(m2, u) \in {None, new}
      PROVE  Walk(m2, u) = Walk(m, u)
  <2>1. ~Huge(m, u) /\ ~Huge(m2, u)
    BY <1>1, <1>4, <1>6 DEF Huge
  <2>2. Pd(m, u) = None /\ Pd(m2, u) = None
    BY <1>1, <1>4, <1>6 DEF Pd
  <2>3. Pt(m, u) = None /\ Pt(m2, u) = None
    BY <2>2 DEF Pt
  <2>. QED
    BY <2>1, <2>3 DEF Leaf, Walk
<1>7. ASSUME Pdpt(m2, u) = Pdpt(m, u), Pdpt(m, u) # None
      PROVE  Walk(m2, u) = Walk(m, u)
  <2>. DEFINE p == Pdpt(m, u)
  <2>1. p \in Tables /\ lev[p] = 2 /\ p # None
    BY <1>7, WalkLevels
  <2>2. ASSUME p = t, u[2] = k
        PROVE  Walk(m2, u) = Walk(m, u)
    <3>1. ~m[p][u[2]].present /\ m2[p][u[2]] = TableEntry(new)
      BY <1>1, <2>1, <2>2
    <3>2. ~m[p][u[2]].huge
      <4>. SUFFICES ASSUME m[p][u[2]].huge PROVE FALSE
        OBVIOUS
      <4>1. Boot(m, lev) /\ GB \in Nat
        BY BootPages DEF Tree
      <4>2. p = pdpt0 /\ u[2] \in {0, 1}
        BY <4>1, <2>1, <1>1 DEF Boot
      <4>3. m[pdpt0][0].present /\ m[pdpt0][1].present
        BY <4>1, HugeFacts DEF Boot
      <4>. QED
        BY <3>1, <4>2, <4>3
    <3>3. ~Huge(m, u) /\ ~Huge(m2, u)
      BY <1>3, <1>7, <3>1, <3>2 DEF Huge
    <3>4. Pd(m, u) = None /\ Pd(m2, u) = new
      BY <1>3, <1>7, <3>1 DEF Pd
    <3>5. Pt(m, u) = None /\ Pt(m2, u) = None
      BY <1>1, <1>4, <3>4 DEF Pt
    <3>. QED
      BY <3>3, <3>5 DEF Leaf, Walk
  <2>3. ASSUME ~(p = t /\ u[2] = k)
        PROVE  Walk(m2, u) = Walk(m, u)
    <3>1. m2[p][u[2]] = m[p][u[2]]
      BY <1>1, <2>1, <2>3
    <3>2. Huge(m2, u) = Huge(m, u) /\ Pd(m2, u) = Pd(m, u)
      BY <1>7, <3>1 DEF Huge, Pd
    <3>3. CASE Huge(m, u)
      BY <1>7, <3>1, <3>2, <3>3 DEF Leaf, Walk
    <3>4. CASE ~Huge(m, u) /\ Pd(m, u) = None
      <4>1. Pt(m, u) = None /\ Pt(m2, u) = None
        BY <3>2, <3>4 DEF Pt
      <4>. QED
        BY <3>2, <3>4, <4>1 DEF Leaf, Walk
    <3>5. CASE ~Huge(m, u) /\ Pd(m, u) # None
      <4>. DEFINE d == Pd(m, u)
      <4>1. d \in Tables /\ lev[d] = 3 /\ d # None /\ Pd(m2, u) = d
        BY <3>2, <3>5, WalkLevels
      <4>2. CASE d = t /\ u[3] = k
        <5>1. ~m[d][u[3]].present /\ m2[d][u[3]] = TableEntry(new)
          BY <1>1, <4>1, <4>2
        <5>2. Pt(m, u) = None /\ Pt(m2, u) = new
          BY <1>3, <4>1, <5>1 DEF Pt
        <5>3. ~Leaf(m, u).present
          BY <3>5, <5>2, EmptyFacts DEF Leaf
        <5>4. ~Leaf(m2, u).present
          BY <1>1, <1>2, <1>4, <3>2, <3>5, <5>2 DEF Leaf
        <5>. QED
          BY <5>3, <5>4 DEF Walk
      <4>3. CASE ~(d = t /\ u[3] = k)
        <5>1. m2[d][u[3]] = m[d][u[3]]
          BY <1>1, <4>1, <4>3
        <5>2. Pt(m2, u) = Pt(m, u)
          BY <4>1, <5>1 DEF Pt
        <5>3. Pt(m, u) # None => m2[Pt(m, u)][u[4]] = m[Pt(m, u)][u[4]]
          <6>. SUFFICES ASSUME Pt(m, u) # None
                        PROVE  m2[Pt(m, u)][u[4]] = m[Pt(m, u)][u[4]]
            OBVIOUS
          <6>1. Pt(m, u) \in Tables /\ lev[Pt(m, u)] = 4 /\ Pt(m, u) # t
            BY WalkLevels
          <6>. QED
            BY <1>1, <6>1
        <5>4. Leaf(m2, u) = Leaf(m, u)
          BY <3>2, <3>5, <5>2, <5>3 DEF Leaf
        <5>. QED
          BY <3>2, <3>5, <5>4 DEF Walk
      <4>. QED
        BY <4>2, <4>3
    <3>. QED
      BY <3>3, <3>4, <3>5
  <2>. QED
    BY <2>2, <2>3
<1>8. CASE pml4 = t /\ u[1] = k
  <2>1. ~m[pml4][u[1]].present /\ m2[pml4][u[1]] = TableEntry(new)
    BY <1>1, <1>5, <1>8
  <2>2. Pdpt(m, u) = None /\ Pdpt(m2, u) = new
    BY <1>3, <2>1 DEF Pdpt
  <2>. QED
    BY <1>6, <2>2
<1>9. CASE ~(pml4 = t /\ u[1] = k)
  <2>1. m2[pml4][u[1]] = m[pml4][u[1]]
    BY <1>1, <1>5, <1>9
  <2>2. Pdpt(m2, u) = Pdpt(m, u)
    BY <2>1 DEF Pdpt
  <2>. QED
    BY <1>6, <1>7, <2>2
<1>. QED
  BY <1>8, <1>9

WalkRec == [memory : [Tables -> [Index -> Entry]], unused : SUBSET Pool,
            table : Tables, end : {"ok", "null", "lost"}]

(* A walk that has the table t of a tree, and the walk w after             *)
(* ensure_table(_, k): still a tree, with all it had before.               *)
Ensured(m, lev, t, k, w, lev2) ==
    /\ w \in WalkRec
    /\ Tree(w.memory, w.unused, lev2)
    /\ \A s \in Tables, l \in Index :
          lev[s] # 0 /\ m[s][l].present => w.memory[s][l] = m[s][l]
    /\ \A s \in Tables : lev[s] # 0 => lev2[s] = lev[s]
    /\ \A u \in VPages : Walk(w.memory, u) = Walk(m, u)
    /\ w.end = "ok" => /\ lev2[w.table] = lev[t] + 1
               /\ w.memory[t][k].present /\ w.memory[t][k].page = w.table

LEMMA GrowStep ==
    ASSUME NEW m, NEW f, NEW lev, Tree(m, f, lev),
           NEW t \in Tables, NEW k \in Index, lev[t] \in 1 .. 3, ~m[t][k].present,
           NEW new, NEW m2, NEW f2, NEW lev2,
           Grown(m, lev, t, k, new, m2, f2, lev2),
           NEW w \in WalkRec, w.memory = m2, w.unused = f2, w.table = new, w.end = "ok"
    PROVE  Ensured(m, lev, t, k, w, lev2)
<1>5. Tree(m2, f2, lev2)
  BY GrowTree
<1>. USE DEF Grown
<1>6. \A s \in Tables : lev[s] # 0 => s # new
  OBVIOUS
<1>7. \A u \in VPages : Walk(m2, u) = Walk(m, u)
  <2>1. \A s \in Tables, l \in Index : lev[s] # 0 =>
            m2[s][l] = IF s = t /\ l = k THEN TableEntry(new) ELSE m[s][l]
    BY <1>6
  <2>. QED
    BY <2>1, GrowKeepsWalks
<1>8. m2[t][k] = TableEntry(new) /\ TableEntry(new).present /\ TableEntry(new).page = new
  <2>1. t # new /\ new \in Tables /\ Tables \subseteq Nat
    BY <1>6, BootPages
  <2>2. m2[t][k] = TableEntry(new)
    BY <2>1
  <2>. QED
    BY <2>1, <2>2, TableFacts
<1>9. \A s \in Tables, l \in Index : lev[s] # 0 /\ m[s][l].present => m2[s][l] = m[s][l]
  BY <1>6
<1>10. \A s \in Tables : lev[s] # 0 => lev2[s] = lev[s]
  BY <1>6
<1>. QED
  BY <1>5, <1>7, <1>8, <1>9, <1>10 DEF Ensured

LEMMA EnsureTable ==
    ASSUME NEW w0 \in WalkRec, w0.end = "ok", NEW lev, Tree(w0.memory, w0.unused, lev),
           lev[w0.table] \in 1 .. 3, NEW k \in Index, NEW w \in ensure_table(w0, k)
    PROVE  \E lev2 : Ensured(w0.memory, lev, w0.table, k, w, lev2)
<1>. DEFINE m == w0.memory
            f == w0.unused
            t == w0.table
<1>a. t \in Tables
  BY DEF WalkRec
<1>1. \/ w = [w0 EXCEPT !.end = "lost"]
      \/ w = [w0 EXCEPT !.end = "null"]
      \/ m[t][k].present /\ w = [w0 EXCEPT !.table = m[t][k].page]
      \/ ~m[t][k].present /\ \E new \in f : w = Linked(w0, k, new)
  BY DEF ensure_table, Allocated
<1>2. CASE m[t][k].present /\ w = [w0 EXCEPT !.table = m[t][k].page]
  <2>2. m[t][k].page \in Tables /\ lev[m[t][k].page] = lev[t] + 1
    BY <1>2, <1>a DEF Tree, Down
  <2>3. w \in WalkRec /\ w.memory = m /\ w.unused = f /\ w.table = m[t][k].page
    BY <1>2, <2>2 DEF WalkRec
  <2>. HIDE DEF m, f, t
  <2>4. Ensured(m, lev, t, k, w, lev)
    BY <1>2, <2>2, <2>3 DEF Ensured, m, f, t
  <2>. QED
    BY <2>4 DEF m, t
<1>3. ASSUME NEW e \in {"null", "lost"}, w = [w0 EXCEPT !.end = e]
      PROVE  \E lev2 : Ensured(m, lev, t, k, w, lev2)
  <2>2. w \in WalkRec /\ w.memory = m /\ w.unused = f /\ w.table = t /\ w.end # "ok"
    BY <1>3 DEF WalkRec
  <2>3. Ensured(m, lev, t, k, w, lev)
    BY <2>2 DEF Ensured
  <2>. QED
    BY <2>3
<1>4. ASSUME ~m[t][k].present, NEW new \in f, w = Linked(w0, k, new)
      PROVE  \E lev2 : Ensured(m, lev, t, k, w, lev2)
  <2>. DEFINE m2 == [m EXCEPT ![t][k] = TableEntry(new), ![new] = Zeroed]
              lev2 == [lev EXCEPT ![new] = lev[t] + 1]
  <2>1. w = [w0 EXCEPT !.memory = m2, !.unused = f \ {new}, !.table = new]
    BY <1>4, Zenon DEF Linked
  <2>. HIDE DEF m2, lev2
  <2>2. w.memory = m2 /\ w.unused = f \ {new} /\ w.table = new /\ w.end = "ok"
    BY <2>1 DEF WalkRec
  <2>. HIDE DEF m, f, t
  <2>3. t \in Tables /\ lev[t] \in 1 .. 3 /\ Tree(m, f, lev) /\ Typed(m, f, lev)
    BY <1>a DEF m, f, t, Tree
  <2>5. Grown(m, lev, t, k, new, m2, f \ {new}, lev2)
    BY <1>4, <2>3, GrowTyped DEF m2, lev2
  <2>6. w \in WalkRec
    <3>1. m2 \in [Tables -> [Index -> Entry]] /\ f \ {new} \in SUBSET Pool /\ new \in Tables
      BY <2>5 DEF Typed, Grown
    <3>. QED
      BY <2>1, <3>1 DEF WalkRec
  <2>7. Ensured(m, lev, t, k, w, lev2)
    BY <1>4, <2>2, <2>3, <2>5, <2>6, GrowStep
  <2>. QED
    BY <2>7
<1>. QED
  BY <1>1, <1>2, <1>3, <1>4

LEMMA EnsureFailed ==
    ASSUME NEW w, NEW k, w.end # "ok"
    PROVE  ensure_table(w, k) = {w}
BY DEF ensure_table

(* The three calls of page_table_map: the tree grows, no walk changes, and *)
(* when all succeed the walk for v reaches the table that is returned.     *)
LEMMA EnsureAll ==
    ASSUME NEW lev, Tree(memory, unused, lev), NEW v \in VPages, NEW w \in EnsureTables(v)
    PROVE  /\ \E lev3 : Tree(w.memory, w.unused, lev3)
           /\ \A u \in VPages : Walk(w.memory, u) = Walk(memory, u)
           /\ w.end = "ok" => w.table # None /\ Pt(w.memory, v) = w.table
<1>1. v[1] \in Index /\ v[2] \in Index /\ v[3] \in Index
  BY PageIndices
<1>2. pml4 \in Tables /\ lev[pml4] = 1 /\ lev[pml4] \in 1 .. 3 /\ None \notin Tables
  BY WalkLevels, BootPages
<1>3. PICK w1, w2, w3 : /\ w1 \in ensure_table(Start, v[1]) /\ w2 \in ensure_table(w1, v[2])
                        /\ w3 \in ensure_table(w2, v[3]) /\ w = w3
  BY DEF EnsureTables
<1>a. /\ Start \in WalkRec /\ Start.end = "ok"
      /\ Start.memory = memory /\ Start.unused = unused /\ Start.table = pml4
  <2>1. memory \in [Tables -> [Index -> Entry]] /\ unused \in SUBSET Pool
    BY DEF Tree, Typed
  <2>. QED
    BY <1>2, <2>1 DEF Start, WalkRec
<1>. HIDE DEF Start
<1>4. PICK lev1 : Ensured(memory, lev, pml4, v[1], w1, lev1)
  <2>1. \E l1 : Ensured(Start.memory, lev, Start.table, v[1], w1, l1)
    BY <1>1, <1>2, <1>3, <1>a, EnsureTable
  <2>. QED
    BY <2>1, <1>a
<1>5. CASE w1.end # "ok"
  <2>1. w2 = w1
    BY <1>3, <1>5, EnsureFailed
  <2>2. w3 = w1
    BY <1>3, <1>5, <2>1, EnsureFailed
  <2>. QED
    BY <1>3, <1>4, <1>5, <2>2 DEF Ensured
<1>6. CASE w1.end = "ok"
  <2>1. /\ w1.table \in Tables /\ lev1[w1.table] = 2 /\ lev1[w1.table] \in 1 .. 3
        /\ Tree(w1.memory, w1.unused, lev1)
        /\ w1 \in WalkRec
    BY <1>2, <1>4, <1>6 DEF Ensured, WalkRec
  <2>2. PICK lev2 : Ensured(w1.memory, lev1, w1.table, v[2], w2, lev2)
    BY <1>1, <1>3, <1>6, <2>1, EnsureTable
  <2>3. CASE w2.end # "ok"
    <3>1. w3 = w2
      BY <1>3, <2>3, EnsureFailed
    <3>. QED
      BY <1>3, <1>4, <2>2, <2>3, <3>1 DEF Ensured
  <2>4. CASE w2.end = "ok"
    <3>1. /\ w2.table \in Tables /\ lev2[w2.table] = 3 /\ lev2[w2.table] \in 1 .. 3
          /\ Tree(w2.memory, w2.unused, lev2)
          /\ w2 \in WalkRec
      BY <2>1, <2>2, <2>4 DEF Ensured, WalkRec
    <3>2. PICK lev3 : Ensured(w2.memory, lev2, w2.table, v[3], w3, lev3)
      BY <1>1, <1>3, <2>4, <3>1, EnsureTable
    <3>3. Tree(w3.memory, w3.unused, lev3)
      BY <3>2 DEF Ensured
    <3>4. \A u \in VPages : Walk(w3.memory, u) = Walk(memory, u)
      BY <1>4, <2>2, <3>2 DEF Ensured
    <3>5. ASSUME w3.end = "ok"
          PROVE  w3.table # None /\ Pt(w3.memory, v) = w3.table
      <4>1. w3.memory[pml4][v[1]].present /\ w3.memory[pml4][v[1]].page = w1.table
        <5>1. w1.memory[pml4][v[1]].present /\ w1.memory[pml4][v[1]].page = w1.table
              /\ lev1[pml4] = 1
          BY <1>2, <1>4, <1>6 DEF Ensured
        <5>2. w2.memory[pml4][v[1]] = w1.memory[pml4][v[1]] /\ lev2[pml4] = 1
          BY <1>1, <1>2, <2>2, <5>1 DEF Ensured
        <5>3. w3.memory[pml4][v[1]] = w2.memory[pml4][v[1]]
          BY <1>1, <1>2, <3>2, <5>1, <5>2 DEF Ensured
        <5>. QED
          BY <5>1, <5>2, <5>3
      <4>2. w3.memory[w1.table][v[2]].present /\ w3.memory[w1.table][v[2]].page = w2.table
        <5>1. /\ w2.memory[w1.table][v[2]].present /\ w2.memory[w1.table][v[2]].page = w2.table
              /\ lev2[w1.table] = 2
          BY <2>1, <2>2, <2>4 DEF Ensured
        <5>2. w3.memory[w1.table][v[2]] = w2.memory[w1.table][v[2]]
          BY <1>1, <2>1, <3>2, <5>1 DEF Ensured
        <5>. QED
          BY <5>1, <5>2
      <4>3. /\ w3.memory[w2.table][v[3]].present /\ w3.memory[w2.table][v[3]].page = w3.table
            /\ w3.table \in Tables
        BY <3>2, <3>5 DEF Ensured, WalkRec
      <4>4. Pdpt(w3.memory, v) = w1.table
        BY <4>1 DEF Pdpt
      <4>5. Pd(w3.memory, v) = w2.table
        BY <1>2, <2>1, <4>2, <4>4 DEF Pd
      <4>6. Pt(w3.memory, v) = w3.table
        BY <1>2, <3>1, <4>3, <4>5 DEF Pt
      <4>. QED
        BY <1>2, <4>3, <4>6
    <3>. QED
      BY <1>3, <3>3, <3>4, <3>5
  <2>. QED
    BY <2>3, <2>4
<1>. QED
  BY <1>5, <1>6

-----------------------------------------------------------------------------
(* The write to a page table: one virtual page is translated anew.         *)
LEMMA OneEntry ==
    ASSUME NEW m \in [Tables -> [Index -> Entry]], NEW p \in Tables, NEW i \in Index,
           NEW e \in Entry
    PROVE  /\ [m EXCEPT ![p][i] = e] \in [Tables -> [Index -> Entry]]
           /\ \A s \in Tables, l \in Index :
                 [m EXCEPT ![p][i] = e][s][l] = IF s = p /\ l = i THEN e ELSE m[s][l]
<1>. DEFINE r == [m[p] EXCEPT ![i] = e]
            m2 == [m EXCEPT ![p] = r]
<1>1. r \in [Index -> Entry] /\ \A l \in Index : r[l] = IF l = i THEN e ELSE m[p][l]
  OBVIOUS
<1>2. [m EXCEPT ![p][i] = e] = m2
  BY Zenon
<1>. HIDE DEF r
<1>3. /\ m2 \in [Tables -> [Index -> Entry]]
      /\ \A s \in Tables, l \in Index : m2[s][l] = IF s = p /\ l = i THEN e ELSE m[s][l]
  BY <1>1
<1>. HIDE DEF m2
<1>. QED
  BY <1>2, <1>3, Zenon

LEMMA LeafWrite ==
    ASSUME NEW m, NEW f, NEW lev, Tree(m, f, lev), NEW v \in VPages,
           NEW p, p = Pt(m, v), p # None, NEW e \in Entry, NEW m2,
           m2 \in [Tables -> [Index -> Entry]],
           \A s \in Tables, l \in Index :
               m2[s][l] = IF s = p /\ l = v[4] THEN e ELSE m[s][l]
    PROVE  /\ Tree(m2, f, lev)
           /\ \A u \in VPages \ {v} : Walk(m2, u) = Walk(m, u)
           /\ v \in HighPages => Walk(m2, v) = IF e.present THEN e.page ELSE None
<1>1. p \in Tables /\ lev[p] = 4 /\ p # None
  BY WalkLevels
<1>2. v[4] \in Index
  BY PageIndices
<1>3. /\ m \in [Tables -> [Index -> Entry]] /\ f \in SUBSET Pool
      /\ lev \in [Tables -> 0 .. 4] /\ lev[pml4] = 1 /\ \A t \in f : lev[t] = 0
  BY DEF Tree, Typed
<1>4. /\ m2 \in [Tables -> [Index -> Entry]]
      /\ \A s \in Tables, l \in Index :
            m2[s][l] = IF s = p /\ l = v[4] THEN e ELSE m[s][l]
  OBVIOUS
<1>5. \A s \in Tables, l \in Index : lev[s] \in 1 .. 3 => m2[s][l] = m[s][l]
  BY <1>1, <1>4
<1>6. Tree(m2, f, lev)
  <2>1. Typed(m2, f, lev)
    BY <1>3, <1>4 DEF Typed
  <2>2. Down(m2, lev)
    <3>1. Down(m, lev)
      BY DEF Tree
    <3>. QED
      BY <3>1, <1>5 DEF Down
  <2>3. Once(m2, lev)
    <3>1. Once(m, lev)
      BY DEF Tree
    <3>. QED
      BY <3>1, <1>5 DEF Once
  <2>4. Boot(m2, lev)
    <3>1. Boot(m, lev) /\ Down(m, lev) /\ 0 \in Index /\ 1 \in Index
          /\ pml4 \in Tables /\ pdpt0 \in Tables
      BY BootPages DEF Tree, Tables
    <3>2. lev[pdpt0] = 2
      <4>1. lev[pml4] \in 1 .. 3 /\ m[pml4][0].present /\ m[pml4][0].page = pdpt0
        BY <1>3, <3>1 DEF Boot
      <4>2. lev[pdpt0] = lev[pml4] + 1
        BY <3>1, <4>1 DEF Down
      <4>. QED
        BY <4>2, <1>3
    <3>3. m2[pml4][0] = m[pml4][0] /\ m2[pdpt0][0] = m[pdpt0][0] /\ m2[pdpt0][1] = m[pdpt0][1]
      BY <1>3, <1>5, <3>1, <3>2
    <3>4. \A t \in Tables, k \in Index : lev[t] = 2 => m2[t][k] = m[t][k]
      BY <1>5
    <3>. QED
      BY <3>1, <3>3, <3>4 DEF Boot
  <2>. QED
    BY <2>1, <2>2, <2>3, <2>4 DEF Tree
<1>7. ASSUME NEW u \in VPages
      PROVE  /\ Pdpt(m2, u) = Pdpt(m, u) /\ Pd(m2, u) = Pd(m, u) /\ Pt(m2, u) = Pt(m, u)
             /\ Huge(m2, u) = Huge(m, u)
             /\ Huge(m, u) => Leaf(m2, u) = Leaf(m, u)
  <2>1. u[1] \in Index /\ u[2] \in Index /\ u[3] \in Index
    BY PageIndices
  <2>2. m2[pml4][u[1]] = m[pml4][u[1]]
    BY <1>5, <2>1, WalkLevels
  <2>3. Pdpt(m2, u) = Pdpt(m, u)
    BY <2>2 DEF Pdpt
  <2>4. Pdpt(m, u) # None => m2[Pdpt(m, u)][u[2]] = m[Pdpt(m, u)][u[2]]
    BY <1>5, <2>1, WalkLevels
  <2>5. Pd(m2, u) = Pd(m, u) /\ Huge(m2, u) = Huge(m, u)
    BY <2>3, <2>4 DEF Pd, Huge
  <2>6. Pd(m, u) # None => m2[Pd(m, u)][u[3]] = m[Pd(m, u)][u[3]]
    BY <1>5, <2>1, WalkLevels
  <2>7. Pt(m2, u) = Pt(m, u)
    <3>1. CASE Pd(m, u) = None
      BY <2>5, <3>1 DEF Pt
    <3>2. CASE Pd(m, u) # None
      BY <2>5, <2>6, <3>2 DEF Pt
    <3>. QED
      BY <3>1, <3>2
  <2>8. Huge(m, u) => Leaf(m2, u) = Leaf(m, u)
    BY <2>3, <2>4, <2>5 DEF Leaf, Huge
  <2>. QED
    BY <2>3, <2>5, <2>7, <2>8
<1>8. ASSUME NEW u \in VPages \ {v}
      PROVE  Walk(m2, u) = Walk(m, u)
  <2>1. Leaf(m2, u) = Leaf(m, u)
    <3>1. CASE Huge(m, u)
      BY <3>1, <1>7
    <3>2. CASE ~Huge(m, u) /\ Pt(m, u) = None
      BY <3>2, <1>7 DEF Leaf
    <3>3. CASE ~Huge(m, u) /\ Pt(m, u) # None
      <4>1. ~(Pt(m, u) = p /\ u[4] = v[4])
        BY <1>1, SamePath, PagesDiffer
      <4>2. Pt(m, u) \in Tables /\ u[4] \in Index
        BY <3>3, WalkLevels, PageIndices
      <4>3. m2[Pt(m, u)][u[4]] = m[Pt(m, u)][u[4]]
        BY <4>1, <4>2, <1>4
      <4>. QED
        BY <3>3, <4>3, <1>7 DEF Leaf
    <3>. QED
      BY <3>1, <3>2, <3>3
  <2>. QED
    BY <2>1, <1>7 DEF Walk
<1>9. ASSUME v \in HighPages
      PROVE  Walk(m2, v) = IF e.present THEN e.page ELSE None
  <2>1. ~Huge(m, v)
    BY <1>9, HugeIsLow
  <2>2. Leaf(m2, v) = e
    BY <1>1, <1>2, <1>4, <1>7, <2>1 DEF Leaf
  <2>. QED
    BY <1>7, <2>1, <2>2 DEF Walk
<1>. QED
  BY <1>6, <1>8, <1>9

-----------------------------------------------------------------------------
(* paging_global_init and the four kinds of step.                          *)

LEMMA WalkIsTranslate ==
    /\ \A v : Translate(v) = Walk(memory, v)
    /\ \A v : PdptOf(v) = Pdpt(memory, v) /\ PdOf(v) = Pd(memory, v) /\ PtOf(v) = Pt(memory, v)
BY DEF Translate, LeafEntry, InHuge, PdptOf, PdOf, PtOf, Walk, Leaf, Huge, Pdpt, Pd, Pt

LEMMA BootTree ==
    ASSUME Init
    PROVE  /\ \E lev \in [Tables -> 0 .. 4] : Tree(memory, unused, lev)
           /\ \A v \in HighPages : Walk(memory, v) = None
<1>. DEFINE root == [Present(pdpt0) EXCEPT !.writable = TRUE]
            h0 == HugeEntry(0)
            h1 == HugeEntry(GB)
            lev == [t \in Tables |-> IF t = pml4 THEN 1 ELSE IF t = pdpt0 THEN 2
                                     ELSE IF t \in {0, GB} THEN 3 ELSE 0]
<1>1. /\ pml4 \in Pool /\ pdpt0 \in Pool /\ pml4 # pdpt0
      /\ 0 \notin Pool /\ GB \notin Pool /\ GB \in Nat /\ GB # 0
      /\ pml4 \in Tables /\ pdpt0 \in Tables /\ 0 \in Tables /\ GB \in Tables
      /\ 0 \in Index /\ 1 \in Index /\ Pool \subseteq Nat /\ None \notin Tables
  BY BootPages DEF Tables
<1>2. /\ root \in Entry /\ root.present /\ root.page = pdpt0
      /\ h0 \in Entry /\ h0.present /\ h0.page = 0 /\ h0.huge
      /\ h1 \in Entry /\ h1.present /\ h1.page = GB /\ h1.huge
      /\ Empty \in Entry /\ ~Empty.present /\ ~Empty.huge
  BY <1>1, RootFacts, HugeFacts, EmptyFacts
<1>3. memory = [t \in Tables |->
                   CASE t = pml4  -> [Zeroed EXCEPT ![0] = root]
                     [] t = pdpt0 -> [Zeroed EXCEPT ![0] = h0, ![1] = h1]
                     [] t \in {0, GB} -> Zeroed
                     [] t \in Pool \ {pml4, pdpt0} -> Junk]
      /\ unused = Pool \ {pml4, pdpt0}
  BY DEF Init
<1>. HIDE DEF root, h0, h1
<1>4. Zeroed \in [Index -> Entry] /\ \A k \in Index : Zeroed[k] = Empty
  BY <1>2 DEF Zeroed
<1>. DEFINE za == [Zeroed EXCEPT ![0] = root]
            zb == [Zeroed EXCEPT ![0] = h0, ![1] = h1]
<1>5. /\ za \in [Index -> Entry] /\ \A k \in Index : za[k] = IF k = 0 THEN root ELSE Empty
      /\ zb \in [Index -> Entry]
      /\ \A k \in Index : zb[k] = IF k = 0 THEN h0 ELSE IF k = 1 THEN h1 ELSE Empty
  BY <1>1, <1>2, <1>4
<1>6. memory = [t \in Tables |-> IF t = pml4 THEN za ELSE IF t = pdpt0 THEN zb
                                    ELSE IF t \in {0, GB} THEN Zeroed ELSE Junk]
      /\ Junk \in [Index -> Entry]
  BY <1>1, <1>3, PagingAssumption DEF Tables
<1>. HIDE DEF za, zb
<1>7. /\ memory \in [Tables -> [Index -> Entry]]
      /\ \A k \in Index : memory[pml4][k] = IF k = 0 THEN root ELSE Empty
      /\ \A k \in Index : memory[pdpt0][k] = IF k = 0 THEN h0 ELSE IF k = 1 THEN h1 ELSE Empty
      /\ \A t \in {0, GB}, k \in Index : memory[t][k] = Empty
  BY <1>1, <1>4, <1>5, <1>6
<1>8. /\ lev \in [Tables -> 0 .. 4] /\ lev[pml4] = 1 /\ lev[pdpt0] = 2
      /\ lev[0] = 3 /\ lev[GB] = 3
      /\ \A t \in Tables : lev[t] \in 1 .. 3 => t \in {pml4, pdpt0, 0, GB}
      /\ \A t \in Tables : lev[t] = 1 => t = pml4
      /\ \A t \in Tables : lev[t] = 2 => t = pdpt0
      /\ \A t \in unused : lev[t] = 0
  BY <1>1, <1>3 DEF Tables
<1>. HIDE DEF lev
<1>9. ASSUME NEW t \in Tables, NEW k \in Index, lev[t] \in 1 .. 3, memory[t][k].present
      PROVE  \/ t = pml4 /\ k = 0 /\ memory[t][k] = root
             \/ t = pdpt0 /\ k = 0 /\ memory[t][k] = h0
             \/ t = pdpt0 /\ k = 1 /\ memory[t][k] = h1
  <2>1. t = pml4 \/ t = pdpt0 \/ t \in {0, GB}
    BY <1>8, <1>9
  <2>2. CASE t = pml4
    BY <2>2, <1>2, <1>7, <1>9
  <2>3. CASE t = pdpt0
    BY <2>3, <1>2, <1>7, <1>9
  <2>4. CASE t \in {0, GB}
    BY <2>4, <1>2, <1>7, <1>9
  <2>. QED BY <2>1, <2>2, <2>3, <2>4
<1>10. Typed(memory, unused, lev)
  BY <1>1, <1>3, <1>7, <1>8 DEF Typed
<1>11. Down(memory, lev)
  <2>. SUFFICES ASSUME NEW t \in Tables, NEW k \in Index, lev[t] \in 1 .. 3, memory[t][k].present
                PROVE  memory[t][k].page \in Tables /\ lev[memory[t][k].page] = lev[t] + 1
    BY DEF Down
  <2>. QED
    BY <1>1, <1>2, <1>8, <1>9
<1>12. Once(memory, lev)
  <2>. SUFFICES ASSUME NEW t \in Tables, NEW u \in Tables, NEW k \in Index, NEW l \in Index,
                       lev[t] \in 1 .. 3, memory[t][k].present, lev[u] \in 1 .. 3, memory[u][l].present,
                       memory[t][k].page = memory[u][l].page
                PROVE  t = u /\ k = l
    BY DEF Once
  <2>. QED
    BY <1>1, <1>2, <1>9
<1>13. Boot(memory, lev)
  <2>1. memory[pml4][0] = root /\ memory[pdpt0][0] = h0 /\ memory[pdpt0][1] = h1
    BY <1>1, <1>7
  <2>2. \A k \in Index : memory[pdpt0][k].huge => k \in {0, 1}
    BY <1>2, <1>7
  <2>. QED
    BY <1>2, <1>8, <2>1, <2>2 DEF Boot, h0, h1
<1>14. Tree(memory, unused, lev)
  BY <1>10, <1>11, <1>12, <1>13 DEF Tree
<1>15. ASSUME NEW v \in HighPages
       PROVE  Walk(memory, v) = None
  <2>1. v \in VPages /\ ~(v[1] = 0 /\ v[2] \in {0, 1}) /\ v[1] \in Index /\ v[2] \in Index
    BY PageIndices DEF HighPages
  <2>2. ~Huge(memory, v)
    BY <1>14, <1>15, <2>1, HugeIsLow
  <2>3. Pd(memory, v) = None
    <3>1. CASE v[1] = 0
      <4>1. ~memory[pdpt0][v[2]].present
        BY <3>1, <2>1, <1>2, <1>7
      <4>2. Pdpt(memory, v) = pdpt0
        BY <3>1, <1>1, <1>2, <1>7 DEF Pdpt
      <4>. QED
        BY <4>1, <4>2 DEF Pd
    <3>2. CASE v[1] # 0
      <4>1. Pdpt(memory, v) = None
        BY <3>2, <2>1, <1>2, <1>7 DEF Pdpt
      <4>. QED
        BY <4>1 DEF Pd
    <3>. QED
      BY <3>1, <3>2
  <2>4. Pt(memory, v) = None
    BY <2>3 DEF Pt
  <2>. QED
    BY <2>2, <2>4, EmptyFacts DEF Leaf, Walk
<1>. QED
  BY <1>8, <1>14, <1>15

LEMMA TreeLev ==
    ASSUME NEW m, NEW f, NEW lev, Tree(m, f, lev)
    PROVE  \E l \in [Tables -> 0 .. 4] : Tree(m, f, l)
BY DEF Tree, Typed

LEMMA MapEffect ==
    ASSUME NEW lev, Tree(memory, unused, lev),
           NEW v \in VPages, NEW page \in Targets, NEW flags, page_table_map(v, page, flags)
    PROVE  /\ \E l \in [Tables -> 0 .. 4] : Tree(memory', unused', l)
           /\ \A u \in VPages \ {v} : Walk(memory', u) = Walk(memory, u)
           /\ v \in HighPages => Walk(memory', v) = page
<1>. DEFINE e == PageEntry(page, flags)
<1>1. PICK w \in EnsureTables(v) :
         /\ w.end = "ok" /\ unused' = w.unused
         /\ memory' = [w.memory EXCEPT ![w.table][v[4]] = e]
  BY DEF page_table_map
<1>2. /\ \E lev3 : Tree(w.memory, w.unused, lev3)
      /\ \A u \in VPages : Walk(w.memory, u) = Walk(memory, u)
      /\ w.table # None /\ Pt(w.memory, v) = w.table
  BY <1>1, EnsureAll
<1>3. PICK lev3 : Tree(w.memory, w.unused, lev3)
  BY <1>2
<1>4. page \in Nat
  BY PagingAssumption
<1>5. e \in Entry /\ e.present /\ e.page = page
  BY <1>4, PageFacts
<1>. HIDE DEF e
<1>6. w.table \in Tables /\ v[4] \in Index /\ w.memory \in [Tables -> [Index -> Entry]]
  <2>. DEFINE m == w.memory
              f == w.unused
  <2>1. Tree(m, f, lev3) /\ Pt(m, v) = w.table /\ w.table # None
    BY <1>2, <1>3
  <2>. HIDE DEF m, f
  <2>2. Pt(m, v) \in Tables
    BY <2>1, WalkLevels
  <2>3. m \in [Tables -> [Index -> Entry]]
    BY <2>1 DEF Tree, Typed
  <2>. QED
    BY <2>1, <2>2, <2>3, PageIndices DEF m
<1>7. /\ memory' \in [Tables -> [Index -> Entry]]
      /\ \A s \in Tables, l \in Index :
            memory'[s][l] = IF s = w.table /\ l = v[4] THEN e ELSE w.memory[s][l]
  BY <1>1, <1>5, <1>6, OneEntry
<1>8. /\ Tree(memory', w.unused, lev3)
      /\ \A u \in VPages \ {v} : Walk(memory', u) = Walk(w.memory, u)
      /\ v \in HighPages => Walk(memory', v) = IF e.present THEN e.page ELSE None
  <2>. DEFINE m == w.memory
              p == w.table
              f == w.unused
  <2>1. Tree(m, f, lev3) /\ p = Pt(m, v) /\ p # None
    BY <1>2, <1>3
  <2>2. \A s \in Tables, l \in Index :
            memory'[s][l] = IF s = p /\ l = v[4] THEN e ELSE m[s][l]
    BY <1>7
  <2>. HIDE DEF m, p, f
  <2>3. /\ Tree(memory', f, lev3)
        /\ \A u \in VPages \ {v} : Walk(memory', u) = Walk(m, u)
        /\ v \in HighPages => Walk(memory', v) = IF e.present THEN e.page ELSE None
    BY <1>5, <1>7, <2>1, <2>2, LeafWrite
  <2>. QED
    BY <2>3 DEF m, f
<1>. QED
  BY <1>1, <1>2, <1>5, <1>8, TreeLev

LEMMA MapFailsEffect ==
    ASSUME NEW lev, Tree(memory, unused, lev), NEW v \in VPages, page_table_map_fails(v)
    PROVE  /\ \E l \in [Tables -> 0 .. 4] : Tree(memory', unused', l)
           /\ \A u \in VPages : Walk(memory', u) = Walk(memory, u)
<1>1. PICK w \in EnsureTables(v) : memory' = w.memory /\ unused' = w.unused
  BY DEF page_table_map_fails
<1>. QED
  BY <1>1, EnsureAll, TreeLev

LEMMA UnmapEffect ==
    ASSUME NEW lev, Tree(memory, unused, lev), NEW v \in VPages, page_table_unmap(v)
    PROVE  /\ \E l \in [Tables -> 0 .. 4] : Tree(memory', unused', l)
           /\ \A u \in VPages \ {v} : Walk(memory', u) = Walk(memory, u)
           /\ v \in HighPages => Walk(memory', v) = None
<1>1. unused' = unused /\ PtOf(v) = Pt(memory, v)
  BY WalkIsTranslate DEF page_table_unmap
<1>2. CASE Pt(memory, v) = None
  <2>1. memory' = memory
    BY <1>1, <1>2 DEF page_table_unmap
  <2>2. v \in HighPages => Walk(memory, v) = None
    BY <1>2, HugeIsLow, EmptyFacts DEF Walk, Leaf
  <2>. QED
    BY <1>1, <2>1, <2>2, TreeLev
<1>3. CASE Pt(memory, v) # None
  <2>. DEFINE p == Pt(memory, v)
  <2>1. memory' = [memory EXCEPT ![p][v[4]] = Empty]
    BY <1>1, <1>3 DEF page_table_unmap
  <2>2. p \in Tables /\ v[4] \in Index /\ memory \in [Tables -> [Index -> Entry]]
    BY <1>3, WalkLevels, PageIndices DEF Tree, Typed
  <2>3. p # None
    BY <1>3
  <2>4. Empty \in Entry /\ ~Empty.present
    BY EmptyFacts
  <2>5. /\ memory' \in [Tables -> [Index -> Entry]]
        /\ \A s \in Tables, l \in Index :
              memory'[s][l] = IF s = p /\ l = v[4] THEN Empty ELSE memory[s][l]
    <3>. HIDE DEF p
    <3>. QED
      BY <2>1, <2>2, <2>4, OneEntry
  <2>6. /\ Tree(memory', unused, lev)
        /\ \A u \in VPages \ {v} : Walk(memory', u) = Walk(memory, u)
        /\ v \in HighPages => Walk(memory', v) = IF Empty.present THEN Empty.page ELSE None
    BY <2>3, <2>4, <2>5, LeafWrite
  <2>. QED
    BY <1>1, <2>4, <2>6, TreeLev
<1>. QED
  BY <1>2, <1>3

-----------------------------------------------------------------------------
(* What a step may do to the walks: nothing, or map or unmap one page, of  *)
(* which the TLB then holds nothing.                                       *)
Remapped(v, x) ==
    /\ \A u \in VPages \ {v} : Walk(memory', u) = Walk(memory, u)
    /\ v \in HighPages => Walk(memory', v) = x
    /\ v \notin HighPages => Walk(memory', v) = Walk(memory, v)
    /\ tlb' \subseteq tlb
    /\ \A c \in tlb' : c[1] # v \/ Walk(memory', v) = Walk(memory, v)

LEMMA StepEffect ==
    ASSUME NEW lev, Tree(memory, unused, lev), [Next]_vars
    PROVE  /\ \E l \in [Tables -> 0 .. 4] : Tree(memory', unused', l)
           /\ \/ \A u \in VPages : Walk(memory', u) = Walk(memory, u)
              \/ \E v \in VPages : Remapped(v, None) \/ \E x \in Targets : Remapped(v, x)
<1>1. CASE UNCHANGED vars
  BY <1>1, TreeLev DEF vars
<1>2. ASSUME NEW v \in VPages, NEW page \in Targets, NEW flags \in FlagSets,
             page_table_map(v, page, flags)
      PROVE  /\ \E l \in [Tables -> 0 .. 4] : Tree(memory', unused', l)
             /\ Remapped(v, page)
  <2>1. /\ \E l \in [Tables -> 0 .. 4] : Tree(memory', unused', l)
        /\ \A u \in VPages \ {v} : Walk(memory', u) = Walk(memory, u)
        /\ v \in HighPages => Walk(memory', v) = page
    BY <1>2, MapEffect
  <2>2. v \notin HighPages => Walk(memory', v) = Walk(memory, v)
    BY <2>1, LowWalk
  <2>3. tlb' \subseteq tlb /\ \A c \in tlb' : c[1] # v
    BY <1>2 DEF page_table_map, invlpg
  <2>. QED
    BY <2>1, <2>2, <2>3 DEF Remapped
<1>3. ASSUME NEW v \in VPages, page_table_map_fails(v)
      PROVE  /\ \E l \in [Tables -> 0 .. 4] : Tree(memory', unused', l)
             /\ \A u \in VPages : Walk(memory', u) = Walk(memory, u)
  BY <1>3, MapFailsEffect
<1>4. ASSUME NEW v \in VPages, page_table_unmap(v)
      PROVE  /\ \E l \in [Tables -> 0 .. 4] : Tree(memory', unused', l)
             /\ Remapped(v, None)
  <2>1. /\ \E l \in [Tables -> 0 .. 4] : Tree(memory', unused', l)
        /\ \A u \in VPages \ {v} : Walk(memory', u) = Walk(memory, u)
        /\ v \in HighPages => Walk(memory', v) = None
    BY <1>4, UnmapEffect
  <2>2. v \notin HighPages => Walk(memory', v) = Walk(memory, v)
    BY <2>1, LowWalk
  <2>3. tlb' \subseteq tlb /\ ((\A c \in tlb' : c[1] # v) \/ memory' = memory)
    BY <1>4 DEF page_table_unmap, invlpg
  <2>. QED
    BY <2>1, <2>2, <2>3 DEF Remapped
<1>5. ASSUME \/ \E v \in VPages : Access(v) \/ page_table_map_astray(v) \/ page_table_unmap_astray(v)
             \/ Overwritten \/ \E c \in tlb : Evict(c)
      PROVE  memory' = memory /\ unused' = unused
  BY <1>5 DEF Access, Evict, page_table_map_astray, page_table_unmap_astray, Overwritten, Lose
<1>. QED
  BY <1>1, <1>2, <1>3, <1>4, <1>5, TreeLev DEF Next

LEMMA InitInv ==
    ASSUME Init
    PROVE  IInv
BY BootTree DEF Init, IInv

LEMMA NextInv ==
    ASSUME IInv, [Next]_vars
    PROVE  IInv'
<1>1. PICK lev \in [Tables -> 0 .. 4] : Tree(memory, unused, lev)
  BY DEF IInv
<1>2. \E l \in [Tables -> 0 .. 4] : Tree(memory', unused', l)
  BY <1>1, StepEffect
<1>3. \A c \in tlb : c[1] \in VPages /\ Walk(memory, c[1]) = c[2]
  BY WalkIsTranslate DEF IInv
<1>4. ASSUME NEW c \in tlb'
      PROVE  c[1] \in VPages /\ Walk(memory', c[1]) = c[2]
  <2>1. CASE c \in tlb
    <3>1. CASE \A u \in VPages : Walk(memory', u) = Walk(memory, u)
      BY <2>1, <3>1, <1>3
    <3>2. CASE \E v \in VPages : Remapped(v, None) \/ \E x \in Targets : Remapped(v, x)
      <4>1. PICK v \in VPages : \E x : Remapped(v, x)
        BY <3>2
      <4>2. \A u \in VPages \ {v} : Walk(memory', u) = Walk(memory, u)
        BY <4>1 DEF Remapped
      <4>3. c[1] # v \/ Walk(memory', v) = Walk(memory, v)
        BY <4>1, <1>4 DEF Remapped
      <4>. QED
        BY <2>1, <4>2, <4>3, <1>3
    <3>. QED
      BY <3>1, <3>2, <1>1, StepEffect
  <2>2. CASE c \notin tlb
    <3>1. PICK v \in VPages : Access(v)
      <4>1. ~(tlb' \subseteq tlb)
        BY <2>2, <1>4
      <4>. QED
        BY <4>1 DEF Next, vars, page_table_map, page_table_map_fails, page_table_unmap,
                    invlpg, Evict, page_table_map_astray, page_table_unmap_astray,
                    Overwritten, Lose
    <3>2. c = <<v, Walk(memory, v)>> /\ memory' = memory
      BY <2>2, <3>1, <1>4, WalkIsTranslate DEF Access
    <3>. QED
      BY <3>2
  <2>. QED
    BY <2>1, <2>2
<1>5. ASSUME NEW c \in tlb' PROVE Translate(c[1])' = c[2]
  <2>1. Translate(c[1])' = Walk(memory', c[1])
    BY DEF Translate, LeafEntry, InHuge, PdptOf, PdOf, PtOf, Walk, Leaf, Huge, Pdpt, Pd, Pt
  <2>. QED
    BY <1>4, <2>1
<1>. QED
  BY <1>2, <1>4, <1>5 DEF IInv

(* The page tables are a tree and the TLB agrees with them until they are  *)
(* lost, whatever is mapped, unmapped, accessed or evicted, whatever pages *)
(* phys_alloc gives and wherever it gives none.                            *)
THEOREM PagingInvariant == Spec => []IInv
BY InitInv, NextInv, PTL DEF Spec

(* While the tables are intact no cached translation outlives its entry:   *)
(* page_table_map and page_table_unmap invalidate all they change.         *)
THEOREM TlbNeverStale == Spec => []TlbCoherent
<1>1. IInv => TlbCoherent
  BY DEF IInv, TlbCoherent
<1>. QED
  BY <1>1, PagingInvariant, PTL

(* While the tables are intact no two virtual pages share a table below    *)
(* the level where they differ: ensure_table clears each page it is given  *)
(* and links it once.                                                      *)
THEOREM TablesApart == Spec => []TablesNotShared
<1>1. IInv => TablesNotShared
  <2>. SUFFICES ASSUME IInv, NEW v \in VPages, NEW u \in VPages
                PROVE  /\ PdptOf(v) # None /\ v[1] # u[1] => PdptOf(v) # PdptOf(u)
                       /\ PdOf(v) # None /\ <<v[1], v[2]>> # <<u[1], u[2]>> => PdOf(v) # PdOf(u)
                       /\ PtOf(v) # None /\ <<v[1], v[2], v[3]>> # <<u[1], u[2], u[3]>>
                             => PtOf(v) # PtOf(u)
    BY DEF TablesNotShared
  <2>1. PICK lev \in [Tables -> 0 .. 4] : Tree(memory, unused, lev)
    BY DEF IInv
  <2>. QED
    BY <2>1, SamePath, WalkIsTranslate
<1>. QED
  BY <1>1, PagingInvariant, PTL

(* While the tables are intact the first 2 GB are mapped to themselves,    *)
(* whatever page_table_map is asked to map there.                          *)
THEOREM LowStaysMapped == Spec => []IdentityMapped
<1>1. IInv => IdentityMapped
  <2>. SUFFICES ASSUME IInv, NEW v \in VPages \ HighPages
                PROVE  Translate(v) = v[2] * GB + v[3] * PT_ENTRIES + v[4]
    BY DEF IdentityMapped
  <2>1. PICK lev \in [Tables -> 0 .. 4] : Tree(memory, unused, lev)
    BY DEF IInv
  <2>. QED
    BY <2>1, LowWalk, WalkIsTranslate
<1>. QED
  BY <1>1, PagingInvariant, PTL

mapped == [v \in HighPages |-> Translate(v)]

LEMMA InitRefines ==
    ASSUME Init
    PROVE  Abstract!Init
BY BootTree, WalkIsTranslate DEF Init, Abstract!Init

LEMMA NextRefines ==
    ASSUME IInv, [Next]_vars
    PROVE  [Abstract!Next]_<<mapped, status>>
<1>. DEFINE map == [v \in HighPages |-> Walk(memory, v)]
            map2 == [v \in HighPages |-> Walk(memory', v)]
<1>1. /\ mapped = map /\ [v \in HighPages |-> Translate(v)] = map
      /\ mapped' = map2 /\ [v \in HighPages |-> Translate(v)]' = map2
  <2>1. \A v : Translate(v)' = Walk(memory', v)
    BY DEF Translate, LeafEntry, InHuge, PdptOf, PdOf, PtOf, Walk, Leaf, Huge, Pdpt, Pd, Pt
  <2>. QED
    BY <2>1, WalkIsTranslate DEF mapped
<1>2. PICK lev \in [Tables -> 0 .. 4] : Tree(memory, unused, lev)
  BY DEF IInv
<1>6. CASE status' = "lost"
  BY <1>6 DEF Abstract!Next, Abstract!Lost
<1>7. (UNCHANGED status /\ (status = "intact" \/ UNCHANGED memory)) \/ status' = "lost"
  BY DEF Next, vars, page_table_map, page_table_map_fails, page_table_map_astray, page_table_unmap,
         page_table_unmap_astray, Access, Evict, Overwritten, Lose
<1>8. SUFFICES ASSUME UNCHANGED status, status = "intact" \/ UNCHANGED memory
               PROVE  [Abstract!Next]_<<mapped, status>>
  BY <1>6, <1>7
<1>9. CASE UNCHANGED memory
  BY <1>1, <1>8, <1>9
<1>3. CASE \A u \in VPages : Walk(memory', u) = Walk(memory, u)
  <2>1. map2 = map
    BY <1>3 DEF HighPages
  <2>. QED
    BY <1>1, <1>8, <2>1
<1>4. ASSUME NEW v \in VPages, NEW x, Remapped(v, x)
      PROVE  map2 = map \/ (v \in HighPages /\ map2 = [map EXCEPT ![v] = x])
  <2>1. \A u \in HighPages : u # v => Walk(memory', u) = Walk(memory, u)
    BY <1>4 DEF Remapped, HighPages
  <2>2. CASE v \in HighPages
    <3>1. Walk(memory', v) = x
      BY <2>2, <1>4 DEF Remapped
    <3>. QED
      BY <2>1, <2>2, <3>1
  <2>3. CASE v \notin HighPages
    BY <2>1, <2>3
  <2>. QED
    BY <2>2, <2>3
<1>5. CASE status = "intact" /\ \E v \in VPages : Remapped(v, None) \/ \E x \in Targets : Remapped(v, x)
  <2>1. \/ map2 = map
        \/ \E v \in HighPages : \/ map2 = [map EXCEPT ![v] = None]
                                \/ \E x \in Targets : map2 = [map EXCEPT ![v] = x]
    BY <1>4, <1>5
  <2>. HIDE DEF map, map2
  <2>. QED
    BY <1>1, <1>5, <1>8, <2>1 DEF Abstract!Next, Abstract!Map, Abstract!Unmap
<1>. QED
  BY <1>2, <1>3, <1>5, <1>8, <1>9, StepEffect

(* Above 2 GB, page_table_map and page_table_unmap implement one function  *)
(* from virtual pages to frames until the tables are lost.                 *)
THEOREM RefinesPageMap == Spec => ImplementsPageMap
<1>1. Spec => Abstract!Init
  BY InitRefines DEF Spec
<1>2. Spec => [][Abstract!Next]_<<mapped, status>>
  BY PagingInvariant, NextRefines, PTL DEF Spec
<1>. QED
  BY <1>1, <1>2, PTL DEF ImplementsPageMap, Abstract!Spec, mapped

-----------------------------------------------------------------------------
(* The buddy allocator (module Ppa).                                       *)

LEMMA GreatestOf ==
    ASSUME NEW S \in SUBSET Nat, S # {}, NEW b \in Nat, \A n \in S : n <= b
    PROVE  Max(S) \in S /\ \A n \in S : n <= Max(S)
<1>. DEFINE upper == {m \in Nat : \A n \in S : n <= m}
<1>1. PICK m \in upper : \A n \in upper : m <= n
  <2>1. b \in upper
    OBVIOUS
  <2>. QED BY <2>1, LeastOf
<1>2. m \in Nat /\ \A n \in S : n \in Nat /\ n <= m
  BY <1>1
<1>3. m \in S
  <2>1. SUFFICES ASSUME m \notin S PROVE FALSE
    OBVIOUS
  <2>2. \A n \in S : n \in Nat /\ n <= m - 1
    BY <1>2, <2>1
  <2>3. m - 1 \in Nat
    <3>1. PICK n \in S : n \in Nat /\ n <= m - 1
      BY <2>2
    <3>. QED BY <3>1, <1>2
  <2>4. m - 1 \in upper
    BY <2>2, <2>3
  <2>. QED BY <1>1, <1>2, <2>4
<1>. QED
  BY <1>2, <1>3 DEF Max

-----------------------------------------------------------------------------
(* The page allocator.  A page is reachable when a later call can still     *)
(* give it out: it is in a free block, or in a block whose holder's phys_free *)
(* will find it as it was given.                                           *)
Reachable(m, b, p) ==
    \/ \E x \in Pages : m[x].is_free /\ Covers(x, m[x].order, p)
    \/ \E c \in Clients :
          /\ b[c] # Null /\ Covers(b[c].start, b[c].order, p)
          /\ m[b[c].start] = [order |-> b[c].order, is_free |-> FALSE]
Aligned(p, k) == p % shl[k] = 0
Held(b, c) ==
    b[c] # Null => Aligned(b[c].start, b[c].order) /\ b[c].pages <= shl[b[c].order]
PpaInv ==
    /\ TypeOK
    /\ \A p \in Pages : Aligned(p, page_meta[p].order)
    /\ \A c \in Clients : Held(block, c)
    /\ \A p \in Pages : Reachable(page_meta, block, p)

LEMMA ShlExists == \E g : g = [k \in 0 .. MAX_ORDER |-> IF k = 0 THEN 1 ELSE 2 * g[k - 1]]
<1>. DEFINE G(n, g) == g \in [0 .. n -> Nat] /\ g[0] = 1 /\ \A k \in 1 .. n : g[k] = 2 * g[k - 1]
            bad == {n \in Nat : ~ \E g : G(n, g)}
<1>1. bad = {}
  <2>1. SUFFICES ASSUME bad # {} PROVE FALSE
    OBVIOUS
  <2>2. PICK m \in bad : \A n \in bad : m <= n
    BY <2>1, LeastOf
  <2>3. m # 0
    <3>1. G(0, [k \in 0 .. 0 |-> 1])
      OBVIOUS
    <3>. QED BY <3>1
  <2>4. m \in Nat /\ m - 1 \in Nat /\ m - 1 \notin bad
    <3>1. m \in Nat
      BY Zenon
    <3>. HIDE DEF bad
    <3>. QED BY <3>1, <2>2, <2>3
  <2>5. PICK g : G(m - 1, g)
    BY <2>4
  <2>. DEFINE h == [k \in 0 .. m |-> IF k = m THEN 2 * g[m - 1] ELSE g[k]]
  <2>6. h \in [0 .. m -> Nat] /\ h[0] = 1
    BY <2>3, <2>4, <2>5
  <2>7. ASSUME NEW k \in 1 .. m PROVE h[k] = 2 * h[k - 1]
    <3>1. k \in 0 .. m /\ k - 1 \in 0 .. m - 1 /\ k - 1 # m /\ k - 1 \in 0 .. m
      BY <2>4
    <3>2. h[k - 1] = g[k - 1]
      BY <3>1
    <3>3. CASE k = m
      BY <3>1, <3>2, <3>3
    <3>4. CASE k # m
      BY <3>1, <3>2, <3>4, <2>5
    <3>. QED BY <3>3, <3>4
  <2>8. G(m, h)
    BY <2>6, <2>7
  <2>. QED BY <2>2, <2>8
<1>2. PICK g : G(MAX_ORDER, g)
  BY <1>1, PpaAssumption
<1>3. g = [k \in 0 .. MAX_ORDER |-> IF k = 0 THEN 1 ELSE 2 * g[k - 1]]
  BY <1>2, PpaAssumption
<1>. QED BY <1>3

LEMMA ShlDef ==
    /\ MAX_ORDER \in Nat \ {0} /\ shl[0] = 1
    /\ \A k \in 0 .. MAX_ORDER : shl[k] \in Nat \ {0}
    /\ \A k \in 0 .. MAX_ORDER - 1 : shl[k + 1] = 2 * shl[k]
<1>1. shl = [k \in 0 .. MAX_ORDER |-> IF k = 0 THEN 1 ELSE 2 * shl[k - 1]]
  BY ShlExists, Zenon DEF shl
<1>2. MAX_ORDER \in Nat \ {0}
  BY PpaAssumption
<1>3. shl[0] = 1 /\ \A k \in 1 .. MAX_ORDER : shl[k] = 2 * shl[k - 1]
  BY <1>1, <1>2
<1>4. \A k \in 0 .. MAX_ORDER - 1 : shl[k + 1] = 2 * shl[k]
  <2>. SUFFICES ASSUME NEW k \in 0 .. MAX_ORDER - 1 PROVE shl[k + 1] = 2 * shl[k]
    OBVIOUS
  <2>1. k + 1 \in 1 .. MAX_ORDER /\ (k + 1) - 1 = k
    BY <1>2
  <2>. QED BY <2>1, <1>3
<1>. DEFINE bad == {k \in Nat : k <= MAX_ORDER /\ shl[k] \notin Nat \ {0}}
<1>5. bad = {}
  <2>1. SUFFICES ASSUME bad # {} PROVE FALSE
    OBVIOUS
  <2>2. PICK m \in bad : \A n \in bad : m <= n
    BY <2>1, LeastOf
  <2>3. m \in Nat /\ m <= MAX_ORDER /\ m # 0
    BY <2>2, <1>3
  <2>4. m - 1 \in Nat /\ shl[m - 1] \in Nat \ {0}
    BY <2>2, <2>3, <1>2
  <2>. QED BY <2>2, <2>3, <2>4, <1>3
<1>. QED
  BY <1>2, <1>3, <1>4, <1>5

LEMMA ShlDoubles ==
    ASSUME NEW k \in 0 .. MAX_ORDER, NEW j \in 0 .. MAX_ORDER, j < k
    PROVE  2 * shl[j] <= shl[k]
<1>. DEFINE bad == {n \in Nat : j < n /\ n <= k /\ ~(2 * shl[j] <= shl[n])}
<1>1. SUFFICES ASSUME bad # {} PROVE FALSE
  BY ShlDef
<1>2. PICK m \in bad : \A n \in bad : m <= n
  BY <1>1, LeastOf
<1>3. m \in Nat /\ j < m /\ m <= k /\ ~(2 * shl[j] <= shl[m])
  BY <1>2
<1>4. m - 1 \in 0 .. MAX_ORDER - 1 /\ (m - 1) + 1 = m /\ j \in 0 .. MAX_ORDER
  BY <1>3, ShlDef
<1>5. shl[m] = 2 * shl[m - 1] /\ shl[m - 1] \in Nat \ {0} /\ shl[j] \in Nat
  BY <1>4, ShlDef
<1>6. m - 1 # j
  BY <1>3, <1>5
<1>7. m - 1 \in Nat /\ m - 1 \notin bad /\ j < m - 1 /\ m - 1 <= k
  BY <1>2, <1>3, <1>4, <1>6
<1>8. 2 * shl[j] <= shl[m - 1]
  BY <1>7
<1>. QED
  BY <1>3, <1>5, <1>8

LEMMA ModFacts ==
    ASSUME NEW x \in Nat, NEW d \in Nat \ {0}
    PROVE  /\ x = (x \div d) * d + (x % d) /\ x \div d \in Nat /\ x % d \in 0 .. d - 1
           /\ x % d = 0 <=> \E q \in Nat : x = q * d
<1>1. x = (x \div d) * d + (x % d) /\ x \div d \in Nat /\ x % d \in 0 .. d - 1
  OBVIOUS
<1>2. ASSUME NEW q \in Nat, x = q * d PROVE x % d = 0
  BY <1>2
<1>3. ASSUME x % d = 0 PROVE \E q \in Nat : x = q * d
  <2>1. x = (x \div d) * d
    BY <1>1, <1>3
  <2>. QED BY <1>1, <2>1
<1>. QED BY <1>1, <1>2, <1>3

LEMMA ModOf ==
    ASSUME NEW q \in Nat, NEW d \in Nat \ {0}, NEW r \in 0 .. d - 1
    PROVE  (q * d + r) % d = r
  OBVIOUS

LEMMA AlignedBelow ==
    ASSUME NEW x \in Nat, NEW k \in 0 .. MAX_ORDER, NEW j \in 0 .. k, Aligned(x, k)
    PROVE  Aligned(x, j)
<1>. DEFINE bad == {n \in Nat : n <= k /\ ~Aligned(x, k - n)}
<1>1. SUFFICES ASSUME bad # {} PROVE FALSE
  <2>1. j \in Nat /\ k \in Nat /\ k - j \in Nat /\ k - j <= k /\ k - (k - j) = j
    OBVIOUS
  <2>2. Aligned(x, k - (k - j)) => Aligned(x, j)
    BY <2>1
  <2>. QED BY <2>1, <2>2
<1>2. PICK m \in bad : \A n \in bad : m <= n
  BY <1>1, LeastOf
<1>3. m \in Nat /\ m <= k /\ ~Aligned(x, k - m) /\ k \in Nat
  BY <1>2
<1>4. m # 0
  <2>. SUFFICES ASSUME m = 0 PROVE FALSE
    OBVIOUS
  <2>1. k - m = k
    BY <1>3
  <2>. QED BY <2>1, <1>3
<1>5. m - 1 \in Nat /\ m - 1 \notin bad
  BY <1>2, <1>3, <1>4
<1>. DEFINE l == k - m
<1>6. l \in 0 .. MAX_ORDER - 1 /\ k - (m - 1) = l + 1 /\ l \in 0 .. MAX_ORDER /\ l + 1 \in 0 .. MAX_ORDER
  BY <1>3, <1>4, ShlDef
<1>7. Aligned(x, k - (m - 1))
  BY <1>3, <1>5
<1>8. Aligned(x, l + 1) /\ ~Aligned(x, l)
  BY <1>3, <1>6, <1>7
<1>. HIDE DEF l
<1>9. shl[l + 1] = 2 * shl[l] /\ shl[l] \in Nat \ {0} /\ shl[l + 1] \in Nat \ {0}
  BY <1>6, ShlDef
<1>10. PICK q \in Nat : x = q * shl[l + 1]
  BY <1>8, <1>9, ModFacts DEF Aligned
<1>11. 2 * q \in Nat /\ x = (2 * q) * shl[l]
  BY <1>9, <1>10
<1>12. x % shl[l] = 0
  BY <1>9, <1>11, ModFacts
<1>. QED
  BY <1>8, <1>12 DEF Aligned

LEMMA AlignedApart ==
    ASSUME NEW x \in Nat, NEW y \in Nat, NEW k \in 0 .. MAX_ORDER,
           Aligned(x, k), Aligned(y, k), x < y
    PROVE  x + shl[k] <= y
<1>1. shl[k] \in Nat \ {0}
  BY ShlDef
<1>2. PICK q \in Nat : x = q * shl[k]
  BY <1>1, ModFacts DEF Aligned
<1>3. PICK r \in Nat : y = r * shl[k]
  BY <1>1, ModFacts DEF Aligned
<1>4. q < r
  BY <1>1, <1>2, <1>3
<1>. QED
  BY <1>1, <1>2, <1>3, <1>4

LEMMA AlignedSum ==
    ASSUME NEW x \in Nat, NEW k \in 0 .. MAX_ORDER, Aligned(x, k)
    PROVE  Aligned(x + shl[k], k)
<1>1. shl[k] \in Nat \ {0}
  BY ShlDef
<1>2. PICK q \in Nat : x = q * shl[k]
  BY <1>1, ModFacts DEF Aligned
<1>3. q + 1 \in Nat /\ x + shl[k] \in Nat /\ x + shl[k] = (q + 1) * shl[k]
  BY <1>1, <1>2
<1>. QED
  BY <1>1, <1>3, ModFacts DEF Aligned

LEMMA AlignedZero == ASSUME NEW x \in Nat PROVE Aligned(x, 0)
  BY ShlDef DEF Aligned

(* A block of the pool ends in the pool.                                   *)
LEMMA BlockInPool ==
    ASSUME NEW x \in Pages, NEW k \in Order, Aligned(x, k)
    PROVE  x + shl[k] <= TOTAL_PAGES
<1>1. /\ TOTAL_PAGES \in Nat /\ x \in Nat /\ x < TOTAL_PAGES
      /\ MAX_ORDER - 1 \in 0 .. MAX_ORDER /\ k \in 0 .. MAX_ORDER - 1 /\ k \in 0 .. MAX_ORDER
  BY PpaAssumption, ShlDef DEF Pages, Order
<1>2. Aligned(TOTAL_PAGES, MAX_ORDER - 1)
  BY PpaAssumption DEF Aligned
<1>3. Aligned(TOTAL_PAGES, k)
  BY <1>1, <1>2, AlignedBelow
<1>. QED
  BY <1>1, <1>3, AlignedApart

(* The lower and the upper half of the block of order k + 1 that page x is *)
(* in are the block of order k it is in and that one's buddy.              *)
LEMMA Halves ==
    ASSUME NEW x \in Nat, NEW k \in 0 .. MAX_ORDER - 1
    PROVE  \/ HeadAt(x, k) = HeadAt(x, k + 1) /\ Buddy(x, k) = HeadAt(x, k + 1) + shl[k]
           \/ HeadAt(x, k) = HeadAt(x, k + 1) + shl[k] /\ Buddy(x, k) = HeadAt(x, k + 1)
<1>. DEFINE s == shl[k]
            q == x \div s
            r == x % s
<1>1. s \in Nat \ {0} /\ shl[k + 1] = 2 * s
  BY ShlDef
<1>2. x = q * s + r /\ q \in Nat /\ r \in 0 .. s - 1
  BY <1>1, ModFacts
<1>. DEFINE u == q \div 2
<1>3. u \in Nat /\ q % 2 \in 0 .. 1 /\ q = 2 * u + (q % 2)
  BY <1>2
<1>4. HeadAt(x, k) = x - r /\ x - r = q * s
  BY <1>2, <1>1 DEF HeadAt
<1>5. Buddy(x, k) = IF q % 2 = 0 THEN HeadAt(x, k) + s ELSE HeadAt(x, k) - s
  BY DEF Buddy
<1>6. HeadAt(x, k + 1) = x - (x % (2 * s))
  BY <1>1 DEF HeadAt
<1>. HIDE DEF s, q, r, u
<1>7. CASE q % 2 = 0
  <2>1. q * s = u * (2 * s)
    BY <1>3, <1>7, <1>1
  <2>2. x = u * (2 * s) + r /\ r \in 0 .. (2 * s) - 1 /\ 2 * s \in Nat \ {0}
    BY <2>1, <1>1, <1>2
  <2>3. x % (2 * s) = r
    <3>1. (u * (2 * s) + r) % (2 * s) = r
      BY <2>2, <1>3, ModOf
    <3>. QED BY <2>2, <3>1
  <2>. QED BY <2>3, <1>4, <1>5, <1>6, <1>7 DEF s
<1>8. CASE q % 2 = 1
  <2>1. q * s = u * (2 * s) + s
    BY <1>3, <1>8, <1>1
  <2>2. x = u * (2 * s) + (s + r) /\ s + r \in 0 .. (2 * s) - 1 /\ 2 * s \in Nat \ {0}
    <3>1. u * (2 * s) \in Nat /\ q * s \in Nat
      BY <1>1, <1>2, <1>3
    <3>. QED BY <2>1, <1>1, <1>2, <3>1
  <2>3. x % (2 * s) = s + r
    <3>1. (u * (2 * s) + (s + r)) % (2 * s) = s + r
      BY <2>2, <1>3, ModOf
    <3>. QED BY <2>2, <3>1
  <2>4. HeadAt(x, k + 1) = x - (s + r)
    BY <2>3, <1>6
  <2>5. HeadAt(x, k) = HeadAt(x, k + 1) + s /\ Buddy(x, k) = HeadAt(x, k + 1)
    BY <2>4, <1>1, <1>2, <1>4, <1>5, <1>8
  <2>. QED BY <2>5 DEF s
<1>. QED BY <1>3, <1>7, <1>8

LEMMA HeadFacts ==
    ASSUME NEW x \in Nat, NEW k \in 0 .. MAX_ORDER
    PROVE  /\ HeadAt(x, k) \in Nat /\ Aligned(HeadAt(x, k), k)
           /\ HeadAt(x, k) <= x /\ x < HeadAt(x, k) + shl[k]
           /\ Aligned(x, k) => HeadAt(x, k) = x
<1>. DEFINE s == shl[k]
            q == x \div s
            r == x % s
<1>1. s \in Nat \ {0}
  BY ShlDef
<1>2. x = q * s + r /\ q \in Nat /\ r \in 0 .. s - 1
  BY <1>1, ModFacts
<1>3. HeadAt(x, k) = x - r /\ (Aligned(x, k) => r = 0)
  BY DEF HeadAt, Aligned
<1>. HIDE DEF s, q, r
<1>4. q * s \in Nat
  BY <1>1, <1>2
<1>5. HeadAt(x, k) = q * s /\ HeadAt(x, k) \in Nat /\ HeadAt(x, k) <= x /\ x < HeadAt(x, k) + s
  BY <1>1, <1>2, <1>3, <1>4
<1>6. HeadAt(x, k) % s = 0
  BY <1>1, <1>2, <1>5, ModFacts
<1>7. Aligned(x, k) => HeadAt(x, k) = x
  BY <1>2, <1>3
<1>. QED
  BY <1>5, <1>6, <1>7 DEF Aligned, s

-----------------------------------------------------------------------------
(* ppa_init *)
LEMMA OrderFacts ==
    /\ TOTAL_PAGES \in Nat \ {0} /\ MAX_ORDER \in Nat \ {0} /\ Pages \subseteq Nat
    /\ Order \subseteq Nat /\ Order \subseteq 0 .. MAX_ORDER
    /\ \A k \in Order : shl[k] \in Nat \ {0}
  BY PpaAssumption, ShlDef DEF Pages, Order

LEMMA PpaInitInv == PpaInit => PpaInv
<1>. SUFFICES ASSUME PpaInit PROVE PpaInv
  OBVIOUS
<1>. DEFINE K == MAX_ORDER - 1
<1>1. K \in Order /\ 0 \in Order /\ K \in 0 .. MAX_ORDER
  BY OrderFacts DEF Order
<1>2. /\ \A p \in Pages : page_meta[p] =
            [order |-> IF Aligned(p, K) THEN K ELSE 0, is_free |-> TRUE]
      /\ page_meta \in [Pages -> PageInfo]
  BY <1>1 DEF PpaInit, PageInfo, Aligned
<1>. HIDE DEF K
<1>3. TypeOK /\ \A c \in Clients : Held(block, c)
  BY <1>2 DEF PpaInit, TypeOK, Held
<1>4. \A p \in Pages : Aligned(p, page_meta[p].order)
  BY <1>2, AlignedZero, OrderFacts
<1>5. ASSUME NEW p \in Pages PROVE Reachable(page_meta, block, p)
  <2>. DEFINE h == HeadAt(p, K)
  <2>1. p \in Nat /\ h \in Nat /\ Aligned(h, K) /\ h <= p /\ p < h + shl[K] /\ shl[K] \in Nat
    BY <1>1, OrderFacts, HeadFacts
  <2>. HIDE DEF h
  <2>2. h \in Pages
    BY <2>1, OrderFacts DEF Pages
  <2>3. page_meta[h].is_free /\ page_meta[h].order = K
    BY <1>2, <2>1, <2>2
  <2>4. Covers(h, page_meta[h].order, p)
    BY <2>1, <2>3 DEF Covers
  <2>. QED BY <2>2, <2>3, <2>4 DEF Reachable
<1>. QED
  BY <1>3, <1>4, <1>5 DEF PpaInv

-----------------------------------------------------------------------------
(* phys_alloc *)

(* The part of a block of order cur above its first block of order req is   *)
(* the upper halves that were cut off.                                     *)
LEMMA UpperHalf ==
    ASSUME NEW req \in Order, NEW cur \in Order, req <= cur, NEW x \in Nat,
           NEW p \in x + shl[req] .. x + shl[cur] - 1
    PROVE  \E co \in req .. cur - 1 : Covers(x + shl[co], co, p)
<1>. DEFINE above == {n \in Nat : req <= n /\ n <= cur /\ p < x + shl[n]}
<1>1. /\ req \in Nat /\ cur \in Nat /\ shl[req] \in Nat /\ shl[cur] \in Nat /\ cur \in above
      /\ p \in Nat /\ p >= x + shl[req]
  BY OrderFacts
<1>2. PICK m \in above : \A n \in above : m <= n
  BY <1>1, LeastOf
<1>3. m \in Nat /\ req <= m /\ m <= cur /\ p < x + shl[m] /\ m # req
  BY <1>1, <1>2
<1>4. m - 1 \in req .. cur - 1 /\ m - 1 \in Nat /\ m - 1 \notin above /\ (m - 1) + 1 = m
  BY <1>1, <1>2, <1>3
<1>5. m - 1 \in Order /\ m - 1 \in 0 .. MAX_ORDER - 1
  BY <1>1, <1>3, <1>4, OrderFacts DEF Order
<1>6. shl[m] = 2 * shl[m - 1] /\ shl[m - 1] \in Nat
  BY <1>4, <1>5, OrderFacts, ShlDef
<1>7. ~(p < x + shl[m - 1])
  BY <1>1, <1>3, <1>4
<1>8. Covers(x + shl[m - 1], m - 1, p)
  BY <1>1, <1>3, <1>6, <1>7 DEF Covers
<1>. QED
  BY <1>4, <1>8

(* An upper half starts at a page that is aligned to its order and to no    *)
(* larger one, so what the array says of it is no larger.                  *)
LEMMA HalfAligned ==
    ASSUME NEW cur \in Order, NEW co \in 0 .. cur - 1, NEW x \in Nat, Aligned(x, cur)
    PROVE  /\ Aligned(x + shl[co], co) /\ x + shl[co] < x + shl[cur]
           /\ \A k \in Order : Aligned(x + shl[co], k) => k <= co
<1>1. /\ co \in Order /\ co \in 0 .. MAX_ORDER /\ co \in 0 .. MAX_ORDER - 1 /\ co \in 0 .. cur
      /\ cur \in 0 .. MAX_ORDER /\ co < cur /\ co + 1 \in 0 .. cur /\ co + 1 \in 0 .. MAX_ORDER
  BY OrderFacts DEF Order
<1>2. shl[co] \in Nat \ {0} /\ shl[cur] \in Nat /\ 2 * shl[co] <= shl[cur] /\ shl[co + 1] = 2 * shl[co]
  BY <1>1, ShlDef, ShlDoubles
<1>3. Aligned(x, co) /\ Aligned(x, co + 1)
  BY <1>1, AlignedBelow
<1>4. Aligned(x + shl[co], co)
  BY <1>1, <1>3, AlignedSum
<1>5. ASSUME NEW k \in Order, Aligned(x + shl[co], k), ~(k <= co) PROVE FALSE
  <2>1. k \in 0 .. MAX_ORDER /\ co + 1 \in 0 .. k /\ x + shl[co] \in Nat
    BY <1>1, <1>2, <1>5, OrderFacts DEF Order
  <2>2. Aligned(x + shl[co], co + 1)
    BY <1>5, <2>1, AlignedBelow
  <2>3. x + shl[co + 1] <= x + shl[co]
    BY <1>1, <1>2, <1>3, <2>1, <2>2, AlignedApart
  <2>. QED BY <1>2, <2>3
<1>. QED
  BY <1>2, <1>4, <1>5

LEMMA SplitFacts ==
    ASSUME TypeOK, NEW x \in Pages, NEW cur \in Order, NEW req \in Order, req <= cur,
           Aligned(x, cur)
    PROVE  /\ split(x, cur, req) \in [Pages -> PageInfo]
           /\ split(x, cur, req)[x] = [order |-> req, is_free |-> FALSE]
           /\ \A co \in req .. cur - 1 :
                 /\ x + shl[co] \in Pages
                 /\ split(x, cur, req)[x + shl[co]] = [order |-> co, is_free |-> TRUE]
           /\ \A p \in Pages : p # x /\ (\A co \in req .. cur - 1 : p # x + shl[co]) =>
                 split(x, cur, req)[p] = page_meta[p]
<1>. DEFINE At(p) == CHOOSE co \in req .. cur - 1 : p = x + shl[co]
            m == split(x, cur, req)
<1>1. m = [p \in Pages |->
              IF p = x THEN [order |-> req, is_free |-> FALSE]
              ELSE IF \E co \in req .. cur - 1 : p = x + shl[co]
                   THEN [order |-> At(p), is_free |-> TRUE]
                   ELSE page_meta[p]]
  BY DEF split
<1>2. req \in Nat /\ cur \in Nat /\ x \in Nat /\ \A co \in req .. cur - 1 : co \in Order /\ co \in 0 .. cur - 1
  BY OrderFacts DEF Order
<1>3. ASSUME NEW co \in req .. cur - 1, NEW a \in req .. cur - 1, x + shl[co] = x + shl[a]
      PROVE  a = co
  <2>1. co \in 0 .. MAX_ORDER /\ a \in 0 .. MAX_ORDER /\ shl[co] \in Nat \ {0} /\ shl[a] \in Nat \ {0}
    BY <1>2, OrderFacts
  <2>2. shl[co] = shl[a]
    BY <1>2, <1>3, <2>1
  <2>3. ~(a < co) /\ ~(co < a)
    BY <2>1, <2>2, ShlDoubles
  <2>. QED BY <2>1, <2>3
<1>4. ASSUME NEW co \in req .. cur - 1 PROVE At(x + shl[co]) = co
  <2>1. At(x + shl[co]) \in req .. cur - 1 /\ x + shl[co] = x + shl[At(x + shl[co])]
    OBVIOUS
  <2>. QED BY <2>1, <1>3
<1>5. ASSUME NEW co \in req .. cur - 1 PROVE x + shl[co] \in Pages /\ x + shl[co] # x
  <2>1. x + shl[co] < x + shl[cur] /\ x + shl[cur] <= TOTAL_PAGES
    BY <1>2, HalfAligned, BlockInPool
  <2>2. shl[co] \in Nat \ {0} /\ shl[cur] \in Nat
    BY <1>2, OrderFacts
  <2>. QED BY <1>2, <2>1, <2>2, OrderFacts DEF Pages
<1>6. ASSUME NEW p \in Pages, \E co \in req .. cur - 1 : p = x + shl[co] PROVE At(p) \in Order
  <2>1. At(p) \in req .. cur - 1
    BY <1>6
  <2>. QED BY <2>1, <1>2
<1>7. m \in [Pages -> PageInfo]
  BY <1>1, <1>6 DEF TypeOK, PageInfo
<1>8. m[x] = [order |-> req, is_free |-> FALSE]
  BY <1>1
<1>9. ASSUME NEW co \in req .. cur - 1 PROVE m[x + shl[co]] = [order |-> co, is_free |-> TRUE]
  BY <1>1, <1>4, <1>5
<1>10. \A p \in Pages : p # x /\ (\A co \in req .. cur - 1 : p # x + shl[co]) => m[p] = page_meta[p]
  BY <1>1
<1>. QED
  BY <1>5, <1>7, <1>8, <1>9, <1>10

LEMMA CoversMore ==
    ASSUME NEW x \in Nat, NEW j \in Order, NEW k \in Order, j <= k, NEW p, Covers(x, j, p)
    PROVE  Covers(x, k, p)
<1>1. shl[j] \in Nat /\ shl[k] \in Nat /\ j \in 0 .. MAX_ORDER /\ k \in 0 .. MAX_ORDER
  BY OrderFacts
<1>2. shl[j] <= shl[k]
  <2>1. CASE j = k
    BY <1>1, <2>1
  <2>2. CASE j < k
    BY <1>1, <2>2, ShlDoubles
  <2>. QED BY <1>1, <2>1, <2>2
<1>. QED
  BY <1>1, <1>2 DEF Covers

LEMMA FreeReaches ==
    ASSUME NEW m, NEW b, NEW p, NEW x \in Pages, m[x].is_free, Covers(x, m[x].order, p)
    PROVE  Reachable(m, b, p)
  BY DEF Reachable

LEMMA AllocChoice ==
    ASSUME TypeOK, NEW pages \in Requests, pages > 0, \E o \in Order : fits(o, pages),
           OrdersFor(pages) # {}
    PROVE  LET req == req_order(pages)
               cur == Min(OrdersFor(pages))
               x == Min(FreeAt(cur))
           IN  /\ req \in Order /\ pages <= shl[req] /\ cur \in Order /\ req <= cur
               /\ x \in Pages /\ Aligned(x, cur)
               /\ page_meta[x] = [order |-> cur, is_free |-> TRUE]
<1>. DEFINE os == {o \in Order : fits(o, pages)}
            req == req_order(pages)
            cur == Min(OrdersFor(pages))
            x == Min(FreeAt(cur))
<1>1. os \in SUBSET Nat /\ os # {} /\ req = Min(os)
  BY OrderFacts DEF req_order
<1>2. req \in os
  BY <1>1, MinIn
<1>3. OrdersFor(pages) \in SUBSET Nat
  BY OrderFacts DEF OrdersFor
<1>4. cur \in OrdersFor(pages)
  BY <1>3, MinIn
<1>5. cur \in Order /\ cur >= req /\ FreeAt(cur) # {}
  BY <1>4 DEF OrdersFor
<1>. HIDE DEF req, cur
<1>6. FreeAt(cur) \in SUBSET Nat
  BY OrderFacts DEF FreeAt
<1>7. x \in FreeAt(cur)
  BY <1>5, <1>6, MinIn
<1>8. x \in Pages /\ Aligned(x, cur) /\ page_meta[x] = [order |-> cur, is_free |-> TRUE]
  BY <1>7 DEF FreeAt, Aligned
<1>9. req \in Order /\ pages <= shl[req]
  <2>1. req \in Order /\ shl[req] >= pages
    BY <1>2 DEF fits
  <2>. QED BY <2>1, OrderFacts, PpaAssumption
<1>10. req <= cur
  BY <1>5, <1>9, OrderFacts
<1>. QED
  BY <1>5, <1>8, <1>9, <1>10 DEF req, cur

LEMMA AllocInv ==
    ASSUME PpaInv, NEW c \in Clients, NEW pages \in Requests, phys_alloc(c, pages)
    PROVE  PpaInv'
<1>1. TypeOK /\ block[c] = Null
  BY DEF PpaInv, phys_alloc
<1>2. PICK req, cur, x :
        /\ req = req_order(pages) /\ cur = Min(OrdersFor(pages)) /\ x = Min(FreeAt(cur))
  OBVIOUS
<1>3. /\ req \in Order /\ pages <= shl[req] /\ cur \in Order /\ req <= cur
      /\ x \in Pages /\ Aligned(x, cur) /\ page_meta[x] = [order |-> cur, is_free |-> TRUE]
  BY <1>1, <1>2, AllocChoice DEF phys_alloc
<1>4. PICK b : b = [start |-> x, pages |-> pages, order |-> req]
  OBVIOUS
<1>5. page_meta' = split(x, cur, req) /\ block' = [block EXCEPT ![c] = b]
  BY <1>2, <1>4 DEF phys_alloc
<1>6. PICK m, n, d : m = page_meta /\ n = split(x, cur, req) /\ d = [block EXCEPT ![c] = b]
  OBVIOUS
<1>7. page_meta' = n /\ block' = d /\ page_meta = m
  BY <1>5, <1>6
<1>8. /\ n \in [Pages -> PageInfo] /\ n[x] = [order |-> req, is_free |-> FALSE]
      /\ \A co \in req .. cur - 1 :
            x + shl[co] \in Pages /\ n[x + shl[co]] = [order |-> co, is_free |-> TRUE]
      /\ \A p \in Pages : p # x /\ (\A co \in req .. cur - 1 : p # x + shl[co]) => n[p] = m[p]
  BY <1>1, <1>3, <1>6, SplitFacts
<1>9. /\ d \in [Clients -> Block \cup {Null}] /\ d[c] = b /\ b \in Block /\ b # Null
      /\ \A e \in Clients \ {c} : d[e] = block[e]
  <2>1. b \in Block
    BY <1>3, <1>4 DEF Block
  <2>2. b # Null
    BY <1>3, <1>4, OrderFacts DEF Null
  <2>. QED BY <1>1, <1>6, <2>1, <2>2 DEF TypeOK
<1>10. /\ m \in [Pages -> PageInfo] /\ \A p \in Pages : Aligned(p, m[p].order) /\ m[p].order \in Order
       /\ \A p \in Pages : Reachable(m, block, p)
       /\ \A e \in Clients : Held(block, e)
       /\ \A e \in Clients : block[e] # Null => block[e].start \in Pages /\ block[e].order \in Order
  BY <1>1, <1>7 DEF PpaInv, TypeOK, PageInfo, Block
<1>11. req \in Nat /\ cur \in Nat /\ x \in Nat /\ \A co \in req .. cur - 1 : co \in Order /\ co \in 0 .. cur - 1
  BY <1>3, OrderFacts DEF Order
<1>12. ASSUME NEW co \in req .. cur - 1
       PROVE  /\ x + shl[co] \in Pages /\ n[x + shl[co]].is_free /\ n[x + shl[co]].order = co
              /\ co \in 0 .. cur - 1
  <2>1. x + shl[co] \in Pages /\ n[x + shl[co]] = [order |-> co, is_free |-> TRUE]
    BY <1>8, Zenon
  <2>. QED BY <2>1, <1>11
<1>13. ASSUME NEW p \in Pages PROVE Aligned(p, n[p].order)
  <2>1. CASE p = x
    <3>1. req \in 0 .. cur /\ cur \in 0 .. MAX_ORDER
      BY <1>3, OrderFacts, <1>11
    <3>2. Aligned(x, req)
      BY <3>1, <1>3, <1>11, AlignedBelow
    <3>. QED BY <2>1, <3>2, <1>8
  <2>2. CASE \E co \in req .. cur - 1 : p = x + shl[co]
    <3>1. PICK co \in req .. cur - 1 : p = x + shl[co]
      BY <2>2
    <3>2. co \in 0 .. cur - 1 /\ n[p].order = co
      BY <3>1, <1>12
    <3>3. Aligned(x + shl[co], co)
      BY <3>2, <1>3, <1>11, HalfAligned
    <3>. QED BY <3>1, <3>2, <3>3
  <2>3. CASE p # x /\ (\A co \in req .. cur - 1 : p # x + shl[co])
    BY <2>3, <1>8, <1>10
  <2>. QED BY <2>1, <2>2, <2>3
<1>14. Held(d, c)
  <2>1. req \in 0 .. cur /\ cur \in 0 .. MAX_ORDER
    BY <1>3, OrderFacts, <1>11
  <2>2. Aligned(x, req)
    BY <2>1, <1>3, <1>11, AlignedBelow
  <2>. QED BY <2>2, <1>3, <1>4, <1>9 DEF Held
<1>15. \A e \in Clients : Held(d, e)
  BY <1>9, <1>10, <1>14 DEF Held
(* What was at an upper half is swallowed by it.                           *)
<1>16. ASSUME NEW co \in req .. cur - 1, NEW k \in Order, NEW p,
              Aligned(x + shl[co], k), Covers(x + shl[co], k, p)
       PROVE  Reachable(n, d, p)
  <2>1. k <= co /\ co \in Order /\ x + shl[co] \in Pages
    BY <1>3, <1>8, <1>11, <1>16, HalfAligned
  <2>2. Covers(x + shl[co], co, p)
    BY <2>1, <1>16, CoversMore, OrderFacts
  <2>3. n[x + shl[co]].is_free /\ n[x + shl[co]].order = co
    BY <1>12
  <2>. QED BY <2>1, <2>2, <2>3, FreeReaches, Zenon
<1>17. ASSUME NEW p \in Pages PROVE Reachable(n, d, p)
  <2>1. ASSUME NEW y \in Pages, m[y].is_free, Covers(y, m[y].order, p) PROVE Reachable(n, d, p)
    <3>1. CASE y = x
      <4>1. p \in x .. x + shl[cur] - 1
        BY <2>1, <3>1, <1>3, <1>7 DEF Covers
      <4>2. CASE p \in x .. x + shl[req] - 1
        <5>1. Covers(d[c].start, d[c].order, p) /\ d[c] # Null
          BY <4>2, <1>4, <1>9 DEF Covers
        <5>2. n[d[c].start] = [order |-> d[c].order, is_free |-> FALSE]
          BY <1>4, <1>8, <1>9
        <5>. QED BY <5>1, <5>2 DEF Reachable
      <4>3. CASE p \notin x .. x + shl[req] - 1
        <5>1. p \in x + shl[req] .. x + shl[cur] - 1
          BY <4>1, <4>3, <1>3, <1>11, OrderFacts
        <5>2. PICK co \in req .. cur - 1 : Covers(x + shl[co], co, p)
          BY <5>1, <1>3, <1>11, UpperHalf
        <5>3. x + shl[co] \in Pages /\ n[x + shl[co]].is_free /\ n[x + shl[co]].order = co
          BY <1>12
        <5>. QED BY <5>2, <5>3, FreeReaches, Zenon
      <4>. QED BY <4>2, <4>3
    <3>2. CASE \E co \in req .. cur - 1 : y = x + shl[co]
      BY <2>1, <3>2, <1>10, <1>16
    <3>3. CASE y # x /\ (\A co \in req .. cur - 1 : y # x + shl[co])
      BY <2>1, <3>3, <1>8 DEF Reachable
    <3>. QED BY <3>1, <3>2, <3>3
  <2>2. ASSUME NEW e \in Clients, block[e] # Null, Covers(block[e].start, block[e].order, p),
               m[block[e].start] = [order |-> block[e].order, is_free |-> FALSE]
        PROVE  Reachable(n, d, p)
    <3>. DEFINE y == block[e].start
    <3>1. e # c /\ d[e] = block[e] /\ y \in Pages /\ block[e].order \in Order /\ Aligned(y, block[e].order)
      BY <2>2, <1>1, <1>9, <1>10 DEF Held
    <3>2. y # x
      BY <2>2, <1>3, <1>7
    <3>3. CASE \E co \in req .. cur - 1 : y = x + shl[co]
      BY <2>2, <3>1, <3>3, <1>16
    <3>4. CASE \A co \in req .. cur - 1 : y # x + shl[co]
      <4>1. n[y] = m[y]
        BY <3>1, <3>2, <3>4, <1>8
      <4>. QED BY <2>2, <3>1, <4>1 DEF Reachable
    <3>. QED BY <3>3, <3>4
  <2>. QED BY <2>1, <2>2, <1>10 DEF Reachable
<1>18. TypeOK'
  BY <1>7, <1>8, <1>9 DEF TypeOK
<1>. QED
  BY <1>7, <1>13, <1>15, <1>17, <1>18 DEF PpaInv

-----------------------------------------------------------------------------
(* phys_free *)

LEMMA GrowsToFacts ==
    ASSUME NEW x, NEW o \in Order
    PROVE  /\ GrowsTo(x, o) \in Order /\ o <= GrowsTo(x, o)
           /\ \A k \in o .. GrowsTo(x, o) - 1 : Mergeable(x, k)
<1>. DEFINE stuck == {k \in Nat : o <= k /\ k <= MAX_ORDER /\ ~Mergeable(x, k)}
            P(k) == (\A j \in o .. k - 1 : Mergeable(x, j)) /\ ~Mergeable(x, k)
            t == GrowsTo(x, o)
<1>1. o \in Nat /\ MAX_ORDER \in Nat /\ o <= MAX_ORDER - 1 /\ ~Mergeable(x, MAX_ORDER - 1)
  BY OrderFacts DEF Order, Mergeable, last_merge
<1>2. MAX_ORDER - 1 \in stuck
  BY <1>1
<1>3. PICK m \in stuck : \A k \in stuck : m <= k
  BY <1>2, LeastOf
<1>4. m \in o .. MAX_ORDER /\ ~Mergeable(x, m)
  BY <1>3, <1>1
<1>5. ASSUME NEW j \in o .. m - 1 PROVE Mergeable(x, j)
  <2>1. j \in Nat /\ o <= j /\ j <= MAX_ORDER /\ j < m
    BY <1>1, <1>4
  <2>. QED BY <2>1, <1>3
<1>6. \E k \in o .. MAX_ORDER : P(k)
  BY <1>4, <1>5
<1>7. t = CHOOSE k \in o .. MAX_ORDER : P(k)
  BY DEF GrowsTo
<1>. HIDE DEF t
<1>8. t \in o .. MAX_ORDER /\ P(t)
  BY <1>6, <1>7, Zenon
<1>9. t <= MAX_ORDER - 1
  <2>. SUFFICES ASSUME ~(t <= MAX_ORDER - 1) PROVE FALSE
    OBVIOUS
  <2>1. MAX_ORDER - 1 \in o .. t - 1
    BY <1>1, <1>8
  <2>. QED BY <2>1, <1>1, <1>8
<1>. QED
  BY <1>1, <1>8, <1>9 DEF t, Order

(* The blocks that page x is in, from order k to order t, are nested.      *)
LEMMA Nested ==
    ASSUME NEW x \in Nat, NEW t \in 0 .. MAX_ORDER, NEW k \in 0 .. t
    PROVE  HeadAt(x, t) <= HeadAt(x, k) /\ HeadAt(x, k) + shl[k] <= HeadAt(x, t) + shl[t]
<1>. DEFINE In(n) == HeadAt(x, n) <= HeadAt(x, k) /\ HeadAt(x, k) + shl[k] <= HeadAt(x, n) + shl[n]
            bad == {n \in Nat : k <= n /\ n <= t /\ ~In(n)}
<1>1. SUFFICES ASSUME bad # {} PROVE FALSE
  <2>1. t \in Nat /\ k <= t /\ t <= t
    BY ShlDef
  <2>. QED BY <2>1
<1>2. PICK n \in bad : \A l \in bad : n <= l
  BY <1>1, LeastOf
<1>3. n \in Nat /\ k <= n /\ n <= t /\ ~In(n) /\ k \in 0 .. MAX_ORDER
  BY <1>2, ShlDef
<1>4. HeadAt(x, k) \in Nat /\ shl[k] \in Nat
  BY <1>3, HeadFacts, ShlDef
<1>5. n # k
  BY <1>3, <1>4
<1>6. /\ n - 1 \in Nat /\ n - 1 \notin bad /\ k <= n - 1 /\ n - 1 <= t /\ (n - 1) + 1 = n
      /\ n - 1 \in 0 .. MAX_ORDER - 1 /\ n \in 0 .. MAX_ORDER /\ n - 1 \in 0 .. MAX_ORDER
  BY <1>2, <1>3, <1>5, ShlDef
<1>7. In(n - 1)
  BY <1>6
<1>8. /\ HeadAt(x, n) \in Nat /\ HeadAt(x, n - 1) \in Nat
      /\ shl[n] = 2 * shl[n - 1] /\ shl[n - 1] \in Nat /\ shl[n] \in Nat
  BY <1>6, HeadFacts, ShlDef
<1>9. HeadAt(x, n - 1) = HeadAt(x, n) \/ HeadAt(x, n - 1) = HeadAt(x, n) + shl[n - 1]
  BY <1>6, Halves
<1>. QED
  BY <1>3, <1>4, <1>7, <1>8, <1>9

(* A block of order k from page y on is part of the one of order t at h.    *)
Inside(y, k, h, t) == h <= y /\ y + shl[k] <= h + shl[t]

LEMMA InsideCovers ==
    ASSUME NEW y \in Nat, NEW h \in Nat, NEW k \in Order, NEW t \in Order,
           Inside(y, k, h, t), NEW p, Covers(y, k, p)
    PROVE  Covers(h, t, p)
  BY OrderFacts DEF Inside, Covers

(* What phys_free makes of the array: one free block of order t at h, into  *)
(* which the freed block and free buddies have gone; no other page changes. *)
LEMMA CoalesceFacts ==
    ASSUME TypeOK, NEW x \in Pages, NEW o \in Order, Aligned(x, o)
    PROVE  \E h \in Pages, t \in Order :
             /\ coalesce(x, o) \in [Pages -> PageInfo]
             /\ coalesce(x, o)[h] = [order |-> t, is_free |-> TRUE]
             /\ Inside(x, o, h, t)
             /\ \A p \in Pages : Aligned(p, page_meta[p].order) => Aligned(p, coalesce(x, o)[p].order)
             /\ \A p \in Pages : \/ p = x
                                 \/ coalesce(x, o)[p] = page_meta[p]
                                 \/ page_meta[p].is_free /\ Inside(p, page_meta[p].order, h, t)
<1>. DEFINE t == GrowsTo(x, o)
            H(k) == HeadAt(x, k)
            B(k) == Buddy(x, k)
            heads == {H(k) : k \in o .. t}
            buddies == {B(k) : k \in o .. t - 1}
            levels(p) == {k \in o .. t : H(k) = p}
            n == coalesce(x, o)
<1>1. t \in Order /\ o <= t /\ \A k \in o .. t - 1 : Mergeable(x, k)
  BY GrowsToFacts
<1>2. n = [p \in Pages |->
              IF p \in heads THEN [order |-> Max(levels(p)), is_free |-> TRUE]
              ELSE IF p \in buddies THEN [page_meta[p] EXCEPT !.is_free = FALSE]
                   ELSE page_meta[p]]
  BY DEF coalesce
<1>. HIDE DEF t, n
<1>3. /\ x \in Nat /\ o \in Nat /\ t \in Nat /\ t \in 0 .. MAX_ORDER
      /\ \A k \in o .. t : k \in Order /\ k \in 0 .. t /\ k \in 0 .. MAX_ORDER
      /\ \A k \in o .. t - 1 : k \in 0 .. MAX_ORDER - 1 /\ k \in o .. t /\ k + 1 \in o .. t
  BY <1>1, OrderFacts DEF Order
<1>4. \A k \in o .. t : H(k) \in Nat /\ H(k) <= x /\ Aligned(H(k), k) /\ Inside(H(k), k, H(t), t)
  BY <1>3, HeadFacts, Nested DEF Inside
<1>5. H(o) = x /\ o \in o .. t /\ t \in o .. t /\ \A k \in o .. t : shl[k] \in Nat
  BY <1>1, <1>3, HeadFacts, OrderFacts
<1>6. ASSUME NEW k \in o .. t - 1
      PROVE  /\ page_meta[B(k)] = [order |-> k, is_free |-> TRUE] /\ B(k) \in Pages
             /\ Inside(B(k), k, H(t), t)
  <2>1. Mergeable(x, k) /\ k \in 0 .. MAX_ORDER - 1 /\ k + 1 \in o .. t /\ k \in o .. t
    BY <1>1, <1>3
  <2>2. page_meta[B(k)] = [order |-> k, is_free |-> TRUE] /\ B(k) < TOTAL_PAGES
    BY <2>1 DEF Mergeable
  <2>3. /\ H(k + 1) \in Nat /\ Inside(H(k + 1), k + 1, H(t), t) /\ shl[k + 1] = 2 * shl[k]
        /\ shl[k] \in Nat /\ H(t) \in Nat /\ shl[t] \in Nat
    BY <2>1, <1>4, <1>5, ShlDef
  <2>4. B(k) = H(k + 1) + shl[k] \/ B(k) = H(k + 1)
    BY <2>1, <1>3, Halves
  <2>. HIDE DEF H, B
  <2>5. B(k) \in Pages
    <3>1. B(k) \in Nat
      BY <2>3, <2>4
    <3>. QED BY <2>2, <3>1, OrderFacts DEF Pages
  <2>6. Inside(B(k), k, H(t), t)
    BY <2>3, <2>4 DEF Inside
  <2>. QED BY <2>2, <2>5, <2>6
<1>7. ASSUME NEW p \in heads, p # x PROVE p \in buddies
  <2>. DEFINE ks == {k \in Nat : k \in o .. t /\ H(k) = p}
  <2>1. PICK k0 \in o .. t : H(k0) = p
    OBVIOUS
  <2>2. k0 \in ks
    BY <2>1, <1>3
  <2>3. PICK k \in ks : \A l \in ks : k <= l
    BY <2>2, LeastOf
  <2>4. k \in Nat /\ k \in o .. t /\ H(k) = p
    BY <2>3
  <2>5. k # o
    BY <2>4, <1>5, <1>7
  <2>6. k - 1 \in o .. t - 1 /\ k - 1 \in Nat /\ k - 1 \in o .. t /\ (k - 1) + 1 = k
    BY <2>4, <2>5, <1>3
  <2>7. k - 1 \notin ks
    <3>. HIDE DEF ks
    <3>. QED BY <2>3, <2>4, <2>6
  <2>8. H(k - 1) # p
    BY <2>6, <2>7
  <2>9. k - 1 \in 0 .. MAX_ORDER - 1
    BY <2>6, <1>3
  <2>10. H(k - 1) = H(k) \/ B(k - 1) = H(k)
    BY <2>6, <2>9, <1>3, Halves
  <2>11. B(k - 1) = p
    BY <2>4, <2>8, <2>10
  <2>. QED BY <2>6, <2>11
<1>8. ASSUME NEW p \in heads PROVE Max(levels(p)) \in levels(p) /\ \A k \in levels(p) : k <= Max(levels(p))
  <2>1. levels(p) \in SUBSET Nat /\ levels(p) # {} /\ \A k \in levels(p) : k <= t
    BY <1>3
  <2>. HIDE DEF levels
  <2>. QED BY <2>1, <1>3, GreatestOf
<1>9. ASSUME NEW p \in heads PROVE Max(levels(p)) \in Order /\ Aligned(p, Max(levels(p)))
  <2>1. PICK k : k = Max(levels(p))
    OBVIOUS
  <2>2. k \in o .. t /\ H(k) = p
    BY <1>8, <2>1
  <2>3. k \in Order /\ Aligned(p, k)
    BY <2>2, <1>3, <1>4
  <2>. QED BY <2>1, <2>3
<1>10. H(t) \in Pages /\ H(t) \in heads
  <2>1. H(t) \in Nat /\ H(t) <= x
    BY <1>4, <1>5
  <2>2. H(t) \in heads
    BY <1>5
  <2>. QED BY <2>1, <2>2, OrderFacts DEF Pages
<1>11. Max(levels(H(t))) = t
  <2>1. PICK k : k = Max(levels(H(t)))
    OBVIOUS
  <2>2. k \in o .. t /\ \A l \in levels(H(t)) : l <= k
    BY <1>8, <1>10, <2>1
  <2>3. t \in levels(H(t))
    BY <1>5
  <2>. QED BY <2>1, <2>2, <2>3, <1>3
<1>. HIDE DEF heads, buddies, levels
<1>12. n[H(t)] = [order |-> t, is_free |-> TRUE]
  BY <1>2, <1>10, <1>11
<1>13. n \in [Pages -> PageInfo]
  <2>1. \A p \in Pages : page_meta[p] \in PageInfo
    BY DEF TypeOK
  <2>2. \A p \in Pages : n[p] \in PageInfo
    BY <1>2, <1>9, <2>1 DEF PageInfo
  <2>. QED BY <1>2, <2>2
<1>14. ASSUME NEW p \in Pages, Aligned(p, page_meta[p].order) PROVE Aligned(p, n[p].order)
  <2>1. page_meta[p] \in PageInfo
    BY DEF TypeOK
  <2>2. CASE p \in heads
    BY <2>2, <1>2, <1>9
  <2>3. CASE p \notin heads
    <3>1. n[p].order = page_meta[p].order
      BY <2>1, <2>3, <1>2 DEF PageInfo
    <3>. QED BY <3>1, <1>14
  <2>. QED BY <2>2, <2>3
<1>15. ASSUME NEW p \in Pages, p # x, n[p] # page_meta[p]
       PROVE  page_meta[p].is_free /\ Inside(p, page_meta[p].order, H(t), t)
  <2>1. p \in heads \cup buddies
    BY <1>2, <1>15
  <2>2. p \in buddies
    BY <2>1, <1>7, <1>15
  <2>3. PICK k \in o .. t - 1 : p = B(k)
    BY <2>2 DEF buddies
  <2>4. page_meta[p] = [order |-> k, is_free |-> TRUE] /\ Inside(p, k, H(t), t)
    BY <2>3, <1>6
  <2>5. page_meta[p].order = k /\ page_meta[p].is_free
    BY <2>4
  <2>. QED BY <2>4, <2>5
<1>16. Inside(x, o, H(t), t)
  BY <1>4, <1>5
<1>. QED
  BY <1>1, <1>10, <1>12, <1>13, <1>14, <1>15, <1>16 DEF n

LEMMA FreeInv == ASSUME PpaInv, NEW c \in Clients, phys_free(c) PROVE PpaInv'
<1>1. TypeOK /\ block[c] # Null /\ block' = [block EXCEPT ![c] = Null]
  BY DEF PpaInv, phys_free
<1>2. PICK x, o, m : x = block[c].start /\ o = page_meta[x].order /\ m = page_meta
  OBVIOUS
<1>3. /\ x \in Pages /\ o \in Order /\ Aligned(x, o) /\ m \in [Pages -> PageInfo]
      /\ \A p \in Pages : Aligned(p, m[p].order) /\ m[p].order \in Order
      /\ \A p \in Pages : Reachable(m, block, p)
      /\ \A e \in Clients : Held(block, e)
      /\ \A e \in Clients : block[e] # Null => block[e].start \in Pages /\ block[e].order \in Order
  BY <1>1, <1>2 DEF PpaInv, TypeOK, PageInfo, Block
<1>4. PICK d : d = [block EXCEPT ![c] = Null]
  OBVIOUS
<1>5. /\ d \in [Clients -> Block \cup {Null}] /\ d[c] = Null
      /\ \A e \in Clients \ {c} : d[e] = block[e]
  BY <1>1, <1>4 DEF TypeOK
<1>6. \A e \in Clients : Held(d, e)
  BY <1>3, <1>5 DEF Held
<1>7. CASE m[x].is_free
  <2>1. page_meta' = m /\ block' = d /\ page_meta = m
    BY <1>1, <1>2, <1>4, <1>7 DEF phys_free
  <2>2. ASSUME NEW p \in Pages PROVE Reachable(m, d, p)
    <3>1. ASSUME NEW e \in Clients, block[e] # Null, Covers(block[e].start, block[e].order, p),
                 m[block[e].start] = [order |-> block[e].order, is_free |-> FALSE]
          PROVE  Reachable(m, d, p)
      <4>1. e # c
        BY <3>1, <1>2, <1>7
      <4>2. d[e] = block[e]
        BY <4>1, <1>5
      <4>. QED BY <3>1, <4>2 DEF Reachable
    <3>. QED BY <3>1, <1>3 DEF Reachable
  <2>. QED BY <2>1, <2>2, <1>3, <1>5, <1>6 DEF PpaInv, TypeOK
<1>8. CASE ~m[x].is_free
  <2>1. PICK n : n = coalesce(x, o)
    OBVIOUS
  <2>2. page_meta' = n /\ block' = d
    BY <1>1, <1>2, <1>4, <1>8, <2>1 DEF phys_free
  <2>3. PICK h \in Pages, t \in Order :
          /\ n \in [Pages -> PageInfo] /\ n[h] = [order |-> t, is_free |-> TRUE]
          /\ Inside(x, o, h, t)
          /\ \A p \in Pages : Aligned(p, m[p].order) => Aligned(p, n[p].order)
          /\ \A p \in Pages : \/ p = x \/ n[p] = m[p]
                              \/ m[p].is_free /\ Inside(p, m[p].order, h, t)
    <3>1. PICK h \in Pages, t \in Order :
            /\ coalesce(x, o) \in [Pages -> PageInfo]
            /\ coalesce(x, o)[h] = [order |-> t, is_free |-> TRUE]
            /\ Inside(x, o, h, t)
            /\ \A p \in Pages :
                  Aligned(p, page_meta[p].order) => Aligned(p, coalesce(x, o)[p].order)
            /\ \A p \in Pages : \/ p = x
                                \/ coalesce(x, o)[p] = page_meta[p]
                                \/ page_meta[p].is_free /\ Inside(p, page_meta[p].order, h, t)
      BY <1>1, <1>3, CoalesceFacts
    <3>. QED BY <3>1, <1>2, <2>1
  (* What has gone into the new block is reachable through it.             *)
  <2>4. ASSUME NEW y \in Pages, NEW k \in Order, Inside(y, k, h, t), NEW p, Covers(y, k, p)
        PROVE  Reachable(n, d, p)
    <3>1. Covers(h, n[h].order, p) /\ n[h].is_free
      BY <2>3, <2>4, InsideCovers, OrderFacts
    <3>. QED BY <3>1, FreeReaches
  <2>5. ASSUME NEW p \in Pages PROVE Reachable(n, d, p)
    <3>1. ASSUME NEW y \in Pages, m[y].is_free, Covers(y, m[y].order, p) PROVE Reachable(n, d, p)
      <4>1. y # x
        BY <3>1, <1>8
      <4>2. CASE n[y] = m[y]
        BY <3>1, <4>2, FreeReaches
      <4>3. CASE Inside(y, m[y].order, h, t)
        BY <3>1, <4>3, <2>4, <1>3
      <4>. QED BY <4>1, <4>2, <4>3, <2>3
    <3>2. ASSUME NEW e \in Clients, block[e] # Null, Covers(block[e].start, block[e].order, p),
                 m[block[e].start] = [order |-> block[e].order, is_free |-> FALSE]
          PROVE  Reachable(n, d, p)
      <4>. DEFINE y == block[e].start
      <4>1. y \in Pages /\ m[y].order = block[e].order /\ ~m[y].is_free
        BY <3>2, <1>3
      <4>2. CASE y = x
        <5>1. block[e].order = o
          BY <4>1, <4>2, <1>2
        <5>. QED BY <3>2, <4>2, <5>1, <2>3, <2>4, <1>3
      <4>3. CASE y # x
        <5>1. e # c /\ d[e] = block[e] /\ n[y] = m[y]
          BY <4>1, <4>3, <1>2, <1>5, <2>3
        <5>. QED BY <3>2, <5>1 DEF Reachable
      <4>. QED BY <4>2, <4>3
    <3>. QED BY <3>1, <3>2, <1>3 DEF Reachable
  <2>. QED BY <2>2, <2>3, <2>5, <1>3, <1>5, <1>6 DEF PpaInv, TypeOK
<1>. QED BY <1>7, <1>8

LEMMA PpaInvariance == PpaSpec => []PpaInv
<1>1. ASSUME PpaInv, [PpaNext]_ppa_vars PROVE PpaInv'
  <2>1. CASE UNCHANGED ppa_vars
    BY <1>1, <2>1 DEF ppa_vars, PpaInv, TypeOK
  <2>2. CASE \E c \in Clients, pages \in Requests : phys_alloc_null(c, pages)
    BY <1>1, <2>2 DEF phys_alloc_null, ppa_vars, PpaInv, TypeOK
  <2>. QED BY <1>1, <2>1, <2>2, AllocInv, FreeInv DEF PpaNext
<1>. QED
  BY <1>1, PpaInitInv, PTL DEF PpaSpec

(* phys_alloc and phys_free keep every block, given out or described by the *)
(* array, aligned and inside the pool, for any pool and any requests.       *)
THEOREM BuddyBlocksInPool == PpaSpec => []BlocksInPool
<1>1. ASSUME PpaInv PROVE BlocksInPool
  <2>1. ASSUME NEW p \in Pages
        PROVE  p % shl[page_meta[p].order] = 0 /\ p + shl[page_meta[p].order] <= TOTAL_PAGES
    <3>1. page_meta[p].order \in Order /\ Aligned(p, page_meta[p].order)
      BY <1>1 DEF PpaInv, TypeOK, PageInfo
    <3>. QED BY <3>1, BlockInPool DEF Aligned
  <2>2. ASSUME NEW c \in Clients, block[c] # Null
        PROVE  block[c].pages <= shl[block[c].order] /\ block[c].start + block[c].pages <= TOTAL_PAGES
    <3>1. block[c] \in Block /\ Held(block, c)
      BY <1>1, <2>2 DEF PpaInv, TypeOK
    <3>2. /\ block[c].start \in Pages /\ block[c].order \in Order /\ block[c].pages \in Nat
          /\ Aligned(block[c].start, block[c].order) /\ block[c].pages <= shl[block[c].order]
      BY <3>1, <2>2, PpaAssumption DEF Block, Held
    <3>3. block[c].start + shl[block[c].order] <= TOTAL_PAGES
      BY <3>2, BlockInPool
    <3>4. block[c].start \in Nat /\ shl[block[c].order] \in Nat /\ TOTAL_PAGES \in Nat
      BY <3>2, OrderFacts
    <3>. QED BY <3>2, <3>3, <3>4
  <2>. QED BY <2>1, <2>2 DEF BlocksInPool
<1>. QED
  BY <1>1, PpaInvariance, PTL

(* No sequence of phys_alloc and phys_free, not even one that frees into    *)
(* the middle of another block, loses a page for good.                      *)
THEOREM BuddyLosesNoPage == PpaSpec => []NoPageLost
<1>1. PpaInv => NoPageLost
  BY DEF PpaInv, Reachable, NoPageLost
<1>. QED
  BY <1>1, PpaInvariance, PTL

=============================================================================
