---------------------------- MODULE KernelProofs ----------------------------
(***************************************************************************)
(* For any number of tokens, sessions, ticks and frames: the Rust core is  *)
(* type correct, accounts for every block, leaves no mapping of a token    *)
(* that is gone, hands out each virtual address of a token once, runs a    *)
(* token twice at most and removes it on time.  The Linux calls keep all   *)
(* of it, keep the heap's limit in memory and never undo a refusal.        *)
(***************************************************************************)
EXTENDS Linux, SchedProofs, FiniteSetTheorems

(* Each VMA lies between its token's base and the end of what the token    *)
(* has used so far, and those of one token are apart.                      *)
VmaLayout ==
    \A t \in DOMAIN tokens :
        /\ \A v \in tokens[t].vmas :
              /\ Base(t) <= v.start_addr
              /\ v.start_addr + v.size <= Base(t) + tokens[t].memory_used
        /\ \A v, w \in tokens[t].vmas : v # w =>
              \/ v.start_addr + v.size <= w.start_addr
              \/ w.start_addr + w.size <= v.start_addr

IInv == TypeOK /\ BlocksAccounted /\ NoDanglingMapping /\ VmaLayout

-----------------------------------------------------------------------------
(* Layout arithmetic *)

LEMMA OffsetNat == ASSUME NEW id \in Nat PROVE get_aslr_offset(id) \in Nat
<1>1. 621 * id + 57 \in Nat
  OBVIOUS
<1>. QED
  BY <1>1, LayoutAssumption DEF get_aslr_offset

LEMMA BaseNat == ASSUME NEW id \in Nat PROVE Base(id) \in Nat
<1>1. id * TOKEN_SPAN \in Nat
  BY LayoutAssumption
<1>. QED
  BY <1>1, OffsetNat, LayoutAssumption DEF Base

(* A token that stayed in its span ends before the base of any later one.  *)
LEMMA SpanOrder ==
    ASSUME NEW t \in Nat, NEW u \in Nat, t < u, NEW used \in Nat,
           get_aslr_offset(t) + used <= TOKEN_SPAN
    PROVE  Base(t) + used <= Base(u)
<1>1. (t + 1) * TOKEN_SPAN <= u * TOKEN_SPAN
  <2>1. PICK d \in Nat : u = t + 1 + d
    <3>1. u - (t + 1) \in Nat /\ u = t + 1 + (u - (t + 1))
      OBVIOUS
    <3>. QED
      BY <3>1
  <2>2. u * TOKEN_SPAN = (t + 1) * TOKEN_SPAN + d * TOKEN_SPAN
    BY <2>1, LayoutAssumption
  <2>3. d * TOKEN_SPAN \in Nat /\ (t + 1) * TOKEN_SPAN \in Nat
    BY LayoutAssumption
  <2>. QED
    BY <2>2, <2>3
<1>2. (t + 1) * TOKEN_SPAN = t * TOKEN_SPAN + TOKEN_SPAN
  BY LayoutAssumption
<1>3. t * TOKEN_SPAN \in Nat /\ u * TOKEN_SPAN \in Nat
  BY LayoutAssumption
<1>. QED
  BY <1>1, <1>2, <1>3, OffsetNat, LayoutAssumption DEF Base

(* Disjointness as inequalities, and back.                                 *)
LEMMA Apart ==
    ASSUME NEW a \in Nat, NEW m \in Nat, NEW b \in Nat, NEW n \in Nat,
           a + m <= b \/ b + n <= a
    PROVE  (a .. a + m - 1) \cap (b .. b + n - 1) = {}
  OBVIOUS

(* VmaLayout is what VmasDisjoint needs.                                   *)
LEMMA LayoutDisjoint == TypeOK /\ VmaLayout => VmasDisjoint
<1>. SUFFICES ASSUME TypeOK, VmaLayout,
                     NEW t \in live, NEW u \in live,
                     NEW v \in tokens[t].vmas, NEW w \in tokens[u].vmas,
                     VPages(v) \cap VPages(w) # {}, v # w
              PROVE  t # u /\ (Spilled(t) \/ Spilled(u))
  BY DEF VmasDisjoint
<1>1. t \in DOMAIN tokens /\ u \in DOMAIN tokens /\ t \in Nat /\ u \in Nat
  BY DEF TypeOK
<1>2. tokens[t] \in Token /\ tokens[u] \in Token
  BY <1>1 DEF TypeOK
<1>3. /\ v.start_addr \in Nat /\ v.size \in Nat /\ w.start_addr \in Nat /\ w.size \in Nat
      /\ tokens[t].memory_used \in Nat /\ tokens[u].memory_used \in Nat
  <2>1. v \in Vma /\ w \in Vma
    BY <1>2 DEF Token
  <2>. QED
    BY <1>2, <2>1 DEF Vma, Token
<1>4. ~ (v.start_addr + v.size <= w.start_addr \/ w.start_addr + w.size <= v.start_addr)
  BY <1>3, Apart DEF VPages
<1>5. t # u
  BY <1>1, <1>4 DEF VmaLayout
<1>6. /\ Base(t) <= v.start_addr
      /\ v.start_addr + v.size <= Base(t) + tokens[t].memory_used
      /\ Base(u) <= w.start_addr
      /\ w.start_addr + w.size <= Base(u) + tokens[u].memory_used
  BY <1>1 DEF VmaLayout
<1>7. Base(t) \in Nat /\ Base(u) \in Nat /\ get_aslr_offset(t) \in Nat
        /\ get_aslr_offset(u) \in Nat
  BY <1>1, BaseNat, OffsetNat
<1>8. CASE t < u
  <2>1. SUFFICES ASSUME ~ Spilled(t) PROVE FALSE
    BY <1>5
  <2>2. Base(t) + tokens[t].memory_used <= Base(u)
    BY <1>1, <1>3, <1>7, <1>8, <2>1, SpanOrder, LayoutAssumption DEF Spilled
  <2>. QED
    BY <1>3, <1>4, <1>6, <1>7, <2>2
<1>9. CASE u < t
  <2>1. SUFFICES ASSUME ~ Spilled(u) PROVE FALSE
    BY <1>5
  <2>2. Base(u) + tokens[u].memory_used <= Base(t)
    BY <1>1, <1>3, <1>7, <1>9, <2>1, SpanOrder, LayoutAssumption DEF Spilled
  <2>. QED
    BY <1>3, <1>4, <1>6, <1>7, <2>2
<1>. QED
  BY <1>1, <1>5, <1>8, <1>9

-----------------------------------------------------------------------------
(* Reading the type invariant *)

LEMMA TokenTyped ==
    ASSUME TypeOK, NEW t \in DOMAIN tokens
    PROVE  /\ t \in Nat /\ t >= 1 /\ t <= Len(tokens)
           /\ tokens[t] \in Token
           /\ tokens[t].memory_used \in Nat
           /\ tokens[t].vmas \subseteq Vma
<1>1. t \in 1 .. Len(tokens) /\ tokens[t] \in Token
  BY DEF TypeOK
<1>. QED
  BY <1>1 DEF Token

LEMMA VmaTyped ==
    ASSUME NEW v \in Vma
    PROVE  v.start_addr \in Nat /\ v.size \in Nat /\ v.size >= 1 /\ v.phys_ptr \in Nat
  BY DEF Vma

(* A step that adds only tokens without memory and leaves the memory of    *)
(* the others alone keeps everything that is said about memory.            *)
LEMMA SameMemory ==
    ASSUME TypeOK, BlocksAccounted, NoDanglingMapping, VmaLayout,
           DOMAIN tokens \subseteq DOMAIN tokens',
           \A t \in DOMAIN tokens : /\ tokens'[t].vmas = tokens[t].vmas
                                    /\ tokens'[t].memory_used = tokens[t].memory_used,
           \A t \in DOMAIN tokens' \ DOMAIN tokens : tokens'[t].vmas = {},
           live \subseteq live', live' \subseteq DOMAIN tokens',
           \A t \in live' : t \in DOMAIN tokens => t \in live,
           UNCHANGED <<held, page_table>>
    PROVE  BlocksAccounted' /\ NoDanglingMapping' /\ VmaLayout'
<1>1. live \subseteq DOMAIN tokens
  BY DEF TypeOK
<1>2. \A t \in live' : tokens'[t].vmas # {} => t \in live
  OBVIOUS
<1>4. BlocksAccounted'
  BY <1>1, <1>2 DEF BlocksAccounted, Block
<1>5. NoDanglingMapping'
  BY <1>1 DEF NoDanglingMapping, MapsImage, Pairs, NullStack, MapsTo, VPages
<1>6. VmaLayout'
  BY DEF VmaLayout, Base, get_aslr_offset
<1>. QED
  BY <1>4, <1>5, <1>6

-----------------------------------------------------------------------------
LEMMA RootTyped == RootToken \in Token
  BY BoundAssumption DEF RootToken, Token, Privilege

LEMMA InitInv == Init => IInv
<1>. SUFFICES ASSUME Init PROVE IInv
  OBVIOUS
<1>1. tokens \in Seq(Token) /\ Len(tokens) = 1 /\ DOMAIN tokens = {1}
        /\ tokens[1] = RootToken
  BY RootTyped DEF Init
<1>2. scheduler \in Scheduler
  BY DEF Init, NewScheduler, Scheduler
<1>3. TypeOK
  BY <1>1, <1>2, BoundAssumption DEF Init, TypeOK, Root
<1>4. tokens[1].vmas = {}
  BY <1>1 DEF RootToken
<1>6. BlocksAccounted
  BY <1>1, <1>4 DEF Init, BlocksAccounted, Root
<1>. QED
  BY <1>1, <1>3, <1>4, <1>6
  DEF IInv, Init, NoDanglingMapping, VmaLayout

LEMMA CreateInv ==
    ASSUME IInv, NEW caller, NEW priv \in Nat, NEW parent, NEW limit \in Int,
           NEW flags, NEW lifetime \in Nat,
           CreateChildToken(caller, priv, parent, limit, flags, lifetime)
    PROVE  IInv'
<1>. DEFINE n == Len(tokens) + 1
            tok == [privilege |-> to_privilege(priv),
                    parent |-> parent,
                    capabilities |-> flags \cap Caps,
                    memory_limit |-> limit, memory_used |-> 0, vmas |-> {},
                    is_permanent |-> "timed",
                    expiry_tick |-> Wrap(tick_count + lifetime), run_count |-> 0,
                    born |-> tick_count]
<1>1. /\ tokens' = Append(tokens, tok) /\ live' = live \cup {n}
      /\ UNCHANGED <<sessions, scheduler, tick_count, held, page_table, status>>
  BY DEF CreateChildToken
<1>3. to_privilege(priv) \in Privilege
  BY SetAssumption DEF to_privilege, Privilege
<1>4. Wrap(tick_count + lifetime) \in Nat
  <2>1. tick_count + lifetime \in Nat
    BY SetAssumption, BoundAssumption DEF IInv, TypeOK
  <2>. QED
    BY <2>1, BoundAssumption DEF Wrap
<1>5. parent \in Nat /\ tick_count \in Nat
  <2>1. caller \in DOMAIN sessions /\ sessions[caller].token = parent
    BY DEF CreateChildToken
  <2>2. sessions[caller] \in Session /\ tick_count \in Nat
    BY <2>1, BoundAssumption DEF IInv, TypeOK
  <2>. QED
    BY <2>1, <2>2 DEF Session
<1>6. tok \in Token
  <2>1. ASSUME NEW a \in Privilege, NEW b \in Nat, NEW c \in SUBSET Caps,
               NEW d \in Int, NEW e \in Nat, NEW f \in Nat
        PROVE  [privilege |-> a, parent |-> b, capabilities |-> c,
                memory_limit |-> d, memory_used |-> 0, vmas |-> {},
                is_permanent |-> "timed", expiry_tick |-> e, run_count |-> 0, born |-> f] \in Token
    BY DEF Token
  <2>2. flags \cap Caps \in SUBSET Caps /\ limit \in Int
    BY SetAssumption
  <2>. QED
    BY <1>3, <1>4, <1>5, <2>1, <2>2
<1>7. tok.vmas = {}
  OBVIOUS
<1>. HIDE DEF tok
<1>8. Len(tokens) \in Nat /\ DOMAIN tokens = 1 .. Len(tokens) /\ live \subseteq DOMAIN tokens
  BY DEF IInv, TypeOK
<1>9. /\ tokens' \in Seq(Token) /\ Len(tokens') = n /\ DOMAIN tokens' = 1 .. n
      /\ \A i \in DOMAIN tokens : tokens'[i] = tokens[i]
      /\ tokens'[n] = tok
  BY <1>1, <1>6, <1>8 DEF IInv, TypeOK
<1>10. TypeOK'
  BY <1>1, <1>8, <1>9 DEF IInv, TypeOK
<1>12. BlocksAccounted' /\ NoDanglingMapping' /\ VmaLayout'
  BY <1>1, <1>7, <1>8, <1>9, SameMemory DEF IInv
<1>. QED
  BY <1>10, <1>12 DEF IInv

LEMMA RunInv ==
    ASSUME IInv, NEW t, NEW lifetime \in Lifetimes, RunProcess(t, lifetime)
    PROVE  IInv'
<1>. DEFINE ses == [token |-> t, expiry_tick |-> Wrap(tick_count + lifetime),
                    is_active |-> "active"]
<1>1. /\ tokens' = [tokens EXCEPT ![t].run_count = tokens[t].run_count + 1]
      /\ sessions' = Append(sessions, ses)
      /\ scheduler' = spawn(scheduler, Len(sessions) + 1)
      /\ UNCHANGED <<live, tick_count, held, page_table, status>>
      /\ t \in live /\ tokens[t].run_count < 2
  BY DEF RunProcess, may_run
<1>2. t \in DOMAIN tokens /\ live \subseteq DOMAIN tokens
  BY <1>1 DEF IInv, TypeOK
<1>3. tokens[t] \in Token /\ t \in Nat
  BY <1>2, TokenTyped DEF IInv
<1>4. [tokens[t] EXCEPT !.run_count = tokens[t].run_count + 1] \in Token
  <2>1. tokens[t].run_count \in 0..2
    BY <1>3 DEF Token
  <2>2. tokens[t].run_count + 1 \in 0..2
    BY <1>1, <2>1
  <2>. QED
    BY <1>3, <2>2 DEF Token
<1>5. /\ tokens' \in Seq(Token) /\ Len(tokens') = Len(tokens)
      /\ DOMAIN tokens' = DOMAIN tokens
      /\ \A u \in DOMAIN tokens : u # t => tokens'[u] = tokens[u]
      /\ tokens'[t] = [tokens[t] EXCEPT !.run_count = tokens[t].run_count + 1]
  BY <1>1, <1>2, <1>4, ExceptSeq DEF IInv, TypeOK
<1>6. \A u \in DOMAIN tokens : /\ tokens'[u].vmas = tokens[u].vmas
                               /\ tokens'[u].memory_used = tokens[u].memory_used
  <2>1. /\ tokens'[t].vmas = tokens[t].vmas
        /\ tokens'[t].memory_used = tokens[t].memory_used
    BY <1>3, <1>5 DEF Token
  <2>. QED
    BY <1>5, <2>1
<1>7. ses \in Session
  <2>1. tick_count + lifetime \in Nat
    BY SetAssumption, BoundAssumption DEF IInv, TypeOK
  <2>2. Wrap(tick_count + lifetime) \in Nat
    BY <2>1, BoundAssumption DEF Wrap
  <2>. QED
    BY <1>3, <2>2 DEF Session
<1>. HIDE DEF ses
<1>8. sessions' \in Seq(Session)
  BY <1>1, <1>7 DEF IInv, TypeOK
<1>9. scheduler' \in Scheduler
  <2>1. Len(sessions) + 1 \in Nat /\ scheduler \in Scheduler
    BY DEF IInv, TypeOK
  <2>. QED
    BY <1>1, <2>1, SpawnTyped
<1>10. TypeOK'
  BY <1>1, <1>5, <1>8, <1>9 DEF IInv, TypeOK
<1>12. BlocksAccounted' /\ NoDanglingMapping' /\ VmaLayout'
  BY <1>1, <1>2, <1>5, <1>6, SameMemory DEF IInv
<1>. QED
  BY <1>10, <1>12 DEF IInv

LEMMA AllocateInv ==
    ASSUME IInv, NEW t, NEW pages \in Nat, NEW access \in {"ro", "rw", "rx", "rwx"},
           AllocateMemory(t, pages, access)
    PROVE  IInv'
<1>1. t \in live /\ UNCHANGED <<live, sessions, scheduler, tick_count, status>>
  BY DEF AllocateMemory
<1>2. t \in DOMAIN tokens /\ live \subseteq DOMAIN tokens
  BY <1>1 DEF IInv, TypeOK
<1>3. /\ t \in Nat /\ tokens[t] \in Token /\ tokens[t].memory_used \in Nat
      /\ tokens[t].vmas \subseteq Vma
  BY <1>2, TokenTyped DEF IInv
<1>. DEFINE V(phys) == [start_addr |-> virtual_addr(t), size |-> pages,
                        phys_ptr |-> phys, access |-> access]
<1>4. PICK phys \in phys_alloc(pages), mapped \in SUBSET (0 .. pages - 1) :
        /\ held' = held \cup {Block(t, V(phys))}
        /\ page_table' =
             {e \in page_table : e[1] \notin {V(phys).start_addr + i : i \in mapped}}
               \cup {<<V(phys).start_addr + i, phys + i>> : i \in mapped}
        /\ tokens' = [tokens EXCEPT ![t] = [tokens[t] EXCEPT
                !.vmas = tokens[t].vmas \cup {V(phys)},
                !.memory_used = tokens[t].memory_used + pages]]
  BY DEF AllocateMemory
<1>. DEFINE v == V(phys)
<1>5. /\ pages \in Nat /\ pages >= 1 /\ phys \in Nat
      /\ phys .. phys + pages - 1 \subseteq Frames
  BY <1>4, SetAssumption DEF phys_alloc
<1>6. /\ v.start_addr = Base(t) + tokens[t].memory_used
      /\ v.size = pages /\ v.phys_ptr = phys /\ v.access = access
  BY DEF virtual_addr
<1>7. Base(t) \in Nat /\ v.start_addr \in Nat
  BY <1>3, <1>6, BaseNat
<1>8. v \in Vma
  <2>1. access \in {"ro", "rw", "rx"}
    BY DEF AllocateMemory
  <2>. QED
    BY <2>1, <1>5, <1>7 DEF Vma
<1>10. /\ held' = held \cup {Block(t, v)}
       /\ page_table' = {e \in page_table : e[1] \notin {v.start_addr + i : i \in mapped}}
                           \cup {<<v.start_addr + i, phys + i>> : i \in mapped}
  BY <1>4
<1>. DEFINE tok == [tokens[t] EXCEPT !.vmas = tokens[t].vmas \cup {v},
                                     !.memory_used = tokens[t].memory_used + pages]
<1>11. tokens' = [tokens EXCEPT ![t] = tok]
  BY <1>4
<1>. HIDE DEF v
<1>12. /\ tok \in Token
       /\ tok.vmas = tokens[t].vmas \cup {v}
       /\ tok.memory_used = tokens[t].memory_used + pages
  <2>1. tokens[t].vmas \cup {v} \in SUBSET Vma
    BY <1>3, <1>8
  <2>2. tokens[t].memory_used + pages \in Nat
    BY <1>3, <1>5
  <2>. QED
    BY <1>3, <2>1, <2>2 DEF Token
<1>. HIDE DEF tok
<1>13. /\ tokens' \in Seq(Token) /\ Len(tokens') = Len(tokens)
       /\ DOMAIN tokens' = DOMAIN tokens
       /\ \A u \in DOMAIN tokens : u # t => tokens'[u] = tokens[u]
       /\ tokens'[t] = tok
  BY <1>2, <1>11, <1>12, ExceptSeq DEF IInv, TypeOK
<1>14. \A i \in mapped : /\ i \in Nat /\ v.start_addr + i \in Nat
                          /\ v.start_addr + i \in VPages(v)
                          /\ phys + i \in Frames
  BY <1>4, <1>5, <1>6, <1>7 DEF VPages
<1>15. TypeOK'
  <2>1. held' \subseteq [owner : Nat, at : Nat, ptr : Frames, pages : Nat \ {0}]
    BY <1>3, <1>4, <1>5, <1>6, <1>7, <1>10 DEF IInv, TypeOK, Block, phys_alloc
  <2>2. page_table' \subseteq Nat \X ElfFrames
    BY <1>10, <1>14 DEF IInv, TypeOK, ElfFrames
  <2>. QED
    BY <1>1, <1>13, <2>1, <2>2 DEF IInv, TypeOK
<1>17. \A u \in DOMAIN tokens :
          tokens'[u].vmas = IF u = t THEN tokens[u].vmas \cup {v} ELSE tokens[u].vmas
  BY <1>12, <1>13
<1>19. BlocksAccounted'
  <2>1. ASSUME NEW b \in held', b.owner # 0
        PROVE  b.owner \in live' /\ \E w \in tokens'[b.owner].vmas : b = Block(b.owner, w)
    <3>1. CASE b \in held
      BY <1>1, <1>2, <1>17, <2>1, <3>1 DEF IInv, BlocksAccounted
    <3>2. CASE b = Block(t, v)
      <4>1. b.owner = t
        BY <3>2 DEF Block
      <4>. QED
        BY <1>1, <1>2, <1>17, <3>2, <4>1
    <3>. QED
      BY <1>10, <3>1, <3>2
  <2>2. ASSUME NEW u \in DOMAIN tokens', NEW w \in tokens'[u].vmas
        PROVE  u \in live' /\ Block(u, w) \in held'
    BY <1>1, <1>10, <1>13, <1>17 DEF IInv, BlocksAccounted
  <2>. QED
    BY <2>1, <2>2 DEF BlocksAccounted, Block
<1>20. NoDanglingMapping'
  <2>. SUFFICES ASSUME NEW e \in page_table'
                PROVE  MapsImage(e)'
                         \/ \E u \in live : \E w \in tokens'[u].vmas : MapsTo(w, e)
    BY <1>1 DEF NoDanglingMapping, MapsTo, VPages
  <2>0. MapsImage(e) => MapsImage(e)'
    BY <1>10 DEF MapsImage, Pairs, NullStack
  <2>1. CASE e \in page_table
    BY <2>0, <2>1, <1>2, <1>17 DEF IInv, NoDanglingMapping
  <2>2. CASE \E i \in mapped : e = <<v.start_addr + i, phys + i>>
    <3>1. PICK i \in mapped : e = <<v.start_addr + i, phys + i>>
      BY <2>2
    <3>2. MapsTo(v, e)
      BY <3>1, <1>5, <1>6, <1>7, <1>14 DEF MapsTo
    <3>3. v \in tokens'[t].vmas
      BY <1>2, <1>17
    <3>. QED
      BY <1>1, <3>2, <3>3
  <2>. QED
    BY <1>10, <2>1, <2>2
<1>21. VmaLayout'
  <2>1. \A u \in DOMAIN tokens : Base(u)' = Base(u)
    BY DEF Base, get_aslr_offset
  <2>2. \A w \in tokens[t].vmas : /\ w.start_addr \in Nat /\ w.size \in Nat
                                  /\ Base(t) <= w.start_addr
                                  /\ w.start_addr + w.size <= v.start_addr
    <3>1. \A w \in tokens[t].vmas : w.start_addr \in Nat /\ w.size \in Nat
      BY <1>3, VmaTyped
    <3>. QED
      BY <1>2, <1>6, <3>1 DEF IInv, VmaLayout
  <2>3. tokens'[t].vmas = tokens[t].vmas \cup {v}
          /\ tokens'[t].memory_used = tokens[t].memory_used + pages
    BY <1>12, <1>13
  <2>4. ASSUME NEW w \in tokens'[t].vmas
        PROVE  /\ Base(t) <= w.start_addr
               /\ w.start_addr + w.size <= Base(t) + tokens'[t].memory_used
    BY <1>3, <1>5, <1>6, <1>7, <2>2, <2>3
  <2>5. ASSUME NEW x \in tokens'[t].vmas, NEW y \in tokens'[t].vmas, x # y
        PROVE  \/ x.start_addr + x.size <= y.start_addr
               \/ y.start_addr + y.size <= x.start_addr
    <3>1. CASE x \in tokens[t].vmas /\ y \in tokens[t].vmas
      BY <1>2, <2>5, <3>1 DEF IInv, VmaLayout
    <3>2. CASE x = v \/ y = v
      BY <2>2, <2>3, <2>5, <3>2
    <3>. QED
      BY <2>3, <3>1, <3>2
  <2>6. ASSUME NEW u \in DOMAIN tokens, u # t
        PROVE  tokens'[u] = tokens[u]
    BY <1>13, <2>6
  <2>. QED
    <3>1. ASSUME NEW u \in DOMAIN tokens
          PROVE  /\ \A w \in tokens'[u].vmas :
                      /\ Base(u) <= w.start_addr
                      /\ w.start_addr + w.size <= Base(u) + tokens'[u].memory_used
                 /\ \A x, y \in tokens'[u].vmas : x # y =>
                      \/ x.start_addr + x.size <= y.start_addr
                      \/ y.start_addr + y.size <= x.start_addr
      <4>1. CASE u = t
        BY <2>4, <2>5, <4>1
      <4>2. CASE u # t
        BY <2>6, <4>2 DEF IInv, VmaLayout
      <4>. QED
        BY <4>1, <4>2
    <3>. QED
      BY <1>13, <2>1, <3>1 DEF VmaLayout
<1>. QED
  BY <1>15, <1>19, <1>20, <1>21 DEF IInv

(* The scheduled thread's session is made active: the sessions keep their  *)
(* type.                                                                   *)
LEMMA ActivateTyped ==
    ASSUME TypeOK PROVE activate(sessions) \in Seq(Session)
<1>1. CASE ReadyAt(scheduler) = {}
  BY <1>1 DEF activate, TypeOK
<1>2. CASE ReadyAt(scheduler) # {}
  <2>. DEFINE k == scheduler.threads[FirstReady(scheduler)].session_id
  <2>1. activate(sessions) = [sessions EXCEPT ![k].is_active = "active"]
    BY <1>2 DEF activate
  <2>. HIDE DEF k
  <2>2. CASE k \in 1 .. Len(sessions)
    <3>1. sessions \in Seq(Session) /\ sessions[k] \in Session
      BY <2>2 DEF TypeOK
    <3>2. [sessions[k] EXCEPT !.is_active = "active"] \in Session
      BY <3>1 DEF Session
    <3>3. activate(sessions) =
            [sessions EXCEPT ![k] = [sessions[k] EXCEPT !.is_active = "active"]]
      BY <2>1, <3>1
    <3>. QED
      BY <2>2, <3>1, <3>2, <3>3, ExceptSeq
  <2>3. CASE k \notin 1 .. Len(sessions)
    <3>1. activate(sessions) = sessions
      BY <2>1, <2>3 DEF TypeOK
    <3>. QED
      BY <3>1 DEF TypeOK
  <2>. QED
    BY <2>2, <2>3
<1>. QED
  BY <1>1, <1>2

LEMMA TickInv ==
    ASSUME IInv, KernelTick PROVE IInv'
<1>. DEFINE dead == expired_tokens(tick_count + 1)
<1>1. /\ tick_count < MaxTick /\ tick_count' = tick_count + 1
      /\ live' = live \ dead
      /\ tokens' = [u \in DOMAIN tokens |->
            IF u \in dead THEN [tokens[u] EXCEPT !.vmas = {}] ELSE tokens[u]]
      /\ held' = held \ freed(dead)
      /\ page_table' =
            {e \in page_table : e[1] \notin UNION {VPages(v) : v \in VmasOf(dead)}}
      /\ scheduler' = schedule_next(scheduler)
      /\ sessions' = activate(sessions)
      /\ UNCHANGED status
  BY DEF KernelTick, reclaim
<1>2. dead \subseteq live /\ live \subseteq DOMAIN tokens
  BY DEF expired_tokens, IInv, TypeOK
<1>. HIDE DEF dead
<1>3. /\ DOMAIN tokens' = DOMAIN tokens
      /\ \A u \in DOMAIN tokens : u \in dead => tokens'[u] = [tokens[u] EXCEPT !.vmas = {}]
      /\ \A u \in DOMAIN tokens : u \notin dead => tokens'[u] = tokens[u]
  BY <1>1
<1>4. ASSUME NEW u \in DOMAIN tokens
      PROVE  /\ tokens'[u] \in Token
             /\ tokens'[u].vmas = IF u \in dead THEN {} ELSE tokens[u].vmas
             /\ tokens'[u].memory_used = tokens[u].memory_used
  <2>1. tokens[u] \in Token
    BY TokenTyped DEF IInv
  <2>2. CASE u \in dead
    BY <1>3, <2>1, <2>2 DEF Token
  <2>3. CASE u \notin dead
    BY <1>3, <2>1, <2>3
  <2>. QED
    BY <2>2, <2>3
<1>5. tokens' \in Seq(Token) /\ Len(tokens') = Len(tokens)
  <2>1. Len(tokens) \in Nat /\ DOMAIN tokens = 1 .. Len(tokens)
    BY DEF IInv, TypeOK
  <2>2. tokens' \in [1 .. Len(tokens) -> Token]
    BY <1>1, <1>4, <2>1
  <2>. QED
    BY <2>1, <2>2
<1>6. TypeOK'
  <2>1. scheduler' \in Scheduler
    BY <1>1, ScheduleTyped DEF IInv, TypeOK
  <2>2. sessions' \in Seq(Session)
    BY <1>1, ActivateTyped DEF IInv
  <2>3. tick_count' \in 0 .. MaxTick
    BY <1>1, BoundAssumption DEF IInv, TypeOK
  <2>. QED
    BY <1>1, <1>5, <2>1, <2>2, <2>3 DEF IInv, TypeOK
<1>8. BlocksAccounted'
  <2>1. ASSUME NEW b \in held', b.owner # 0
        PROVE  b.owner \in live' /\ \E w \in tokens'[b.owner].vmas : b = Block(b.owner, w)
    <3>1. b \in held /\ b \notin freed(dead)
      BY <1>1
    <3>2. b.owner \in live /\ \E w \in tokens[b.owner].vmas : b = Block(b.owner, w)
      BY <2>1, <3>1 DEF IInv, BlocksAccounted
    <3>3. b.owner \notin dead
      BY <3>1, <3>2 DEF freed
    <3>. QED
      BY <1>1, <1>2, <1>3, <3>2, <3>3
  <2>2. ASSUME NEW u \in DOMAIN tokens', NEW w \in tokens'[u].vmas
        PROVE  u \in live' /\ Block(u, w) \in held'
    <3>1. u \in DOMAIN tokens /\ u \notin dead /\ w \in tokens[u].vmas
      BY <1>3, <1>4
    <3>2. u \in live /\ Block(u, w) \in held
      BY <3>1 DEF IInv, BlocksAccounted
    <3>3. ASSUME NEW d \in dead PROVE Block(u, w) \notin {Block(d, x) : x \in tokens[d].vmas}
      <4>1. Block(u, w).owner = u /\ \A x \in tokens[d].vmas : Block(d, x).owner = d
        BY DEF Block
      <4>. QED
        BY <3>1, <4>1
    <3>. QED
      BY <1>1, <3>1, <3>2, <3>3 DEF freed
  <2>. QED
    BY <2>1, <2>2 DEF BlocksAccounted, Block
<1>9. NoDanglingMapping'
  <2>. SUFFICES ASSUME NEW e \in page_table'
                PROVE  MapsImage(e)'
                         \/ \E u \in live' : \E w \in tokens'[u].vmas : MapsTo(w, e)
    BY DEF NoDanglingMapping, MapsTo, VPages
  <2>0. MapsImage(e) => MapsImage(e)'
    <3>1. \A b \in freed(dead) : b.owner # 0
      <4>1. 0 \notin dead
        BY <1>2 DEF IInv, TypeOK
      <4>. QED
        BY <4>1 DEF freed, Block
    <3>. QED
      BY <1>1, <3>1 DEF MapsImage, Pairs, NullStack
  <2>. SUFFICES ASSUME ~ MapsImage(e)
                PROVE  \E u \in live' : \E w \in tokens'[u].vmas : MapsTo(w, e)
    BY <2>0
  <2>1. PICK u \in live : \E w \in tokens[u].vmas : MapsTo(w, e)
    BY <1>1 DEF IInv, NoDanglingMapping
  <2>2. u \notin dead
    BY <1>1, <2>1 DEF VmasOf, MapsTo
  <2>. QED
    BY <1>1, <1>2, <1>3, <2>1, <2>2
<1>10. VmaLayout'
  <2>1. \A u \in DOMAIN tokens : Base(u)' = Base(u)
    BY DEF Base, get_aslr_offset
  <2>. QED
    BY <1>3, <1>4, <2>1 DEF IInv, VmaLayout
<1>. QED
  BY <1>6, <1>8, <1>9, <1>10 DEF IInv

(* What a load did: it added blocks of its own and mapped some of their    *)
(* pages, or pages of a null stack.                                        *)
Loads(blocks, m) ==
    /\ blocks \subseteq [owner : {0}, at : Nat, ptr : Frames, pages : Nat \ {0}]
    /\ m \subseteq Nat \X ElfFrames
    /\ \A e \in m : e \in NullStack \/ \E b \in blocks : e \in Pairs(b.at, b.ptr, b.pages)
    /\ held' = held \cup blocks
    /\ page_table' = {e \in page_table : e[1] \notin {f[1] : f \in m}} \cup m

LEMMA PairsTyped ==
    ASSUME NEW at \in Nat, NEW pages \in Nat, NEW ptr \in phys_alloc(pages)
    PROVE  /\ Pairs(at, ptr, pages) \subseteq Nat \X Frames
           /\ ptr \in Frames /\ pages \in Nat \ {0}
<1>1. ptr \in Nat /\ ptr \in Frames /\ pages > 0 /\ ptr .. ptr + pages - 1 \subseteq Frames
  BY SetAssumption DEF phys_alloc
<1>2. \A i \in 0 .. pages - 1 : at + i \in Nat /\ ptr + i \in ptr .. ptr + pages - 1
  BY <1>1
<1>. QED
  BY <1>1, <1>2 DEF Pairs

(* The segments of a file, each in a run of frames.                        *)
LEMMA SegmentsLoad ==
    ASSUME NEW image \in Images, NEW taken \in SUBSET image, NEW phys \in Placements(taken)
    PROVE  /\ SegmentBlocks(taken, phys) \subseteq [owner : {0}, at : Nat, ptr : Frames, pages : Nat \ {0}]
           /\ SegmentPairs(taken, phys) \subseteq Nat \X ElfFrames
           /\ \A e \in SegmentPairs(taken, phys) :
                 \E b \in SegmentBlocks(taken, phys) : e \in Pairs(b.at, b.ptr, b.pages)
<1>1. ASSUME NEW s \in taken
      PROVE  /\ s.at \in Nat /\ s.pages \in Nat \ {0} /\ phys[s] \in Frames
             /\ Pairs(s.at, phys[s], s.pages) \subseteq Nat \X ElfFrames
             /\ ImageBlock(s.at, phys[s], s.pages)
                   \in [owner : {0}, at : Nat, ptr : Frames, pages : Nat \ {0}]
  <2>1. s \in [at : Nat, pages : Nat] /\ phys[s] \in phys_alloc(s.pages)
    BY SetAssumption DEF Placements
  <2>2. s.at \in Nat /\ s.pages \in Nat
    BY <2>1
  <2>3. /\ Pairs(s.at, phys[s], s.pages) \subseteq Nat \X Frames
        /\ phys[s] \in Frames /\ s.pages \in Nat \ {0}
    BY <2>1, <2>2, PairsTyped
  <2>. QED
    BY <2>2, <2>3 DEF ElfFrames, ImageBlock
<1>2. ASSUME NEW e \in SegmentPairs(taken, phys)
      PROVE  \E b \in SegmentBlocks(taken, phys) : e \in Pairs(b.at, b.ptr, b.pages)
  <2>1. PICK s \in taken : e \in Pairs(s.at, phys[s], s.pages)
    BY DEF SegmentPairs
  <2>. DEFINE b == ImageBlock(s.at, phys[s], s.pages)
  <2>2. b.at = s.at /\ b.ptr = phys[s] /\ b.pages = s.pages /\ b \in SegmentBlocks(taken, phys)
    BY DEF ImageBlock, SegmentBlocks
  <2>. HIDE DEF b
  <2>. QED
    BY <2>1, <2>2
<1>. QED
  BY <1>1, <1>2 DEF SegmentBlocks, SegmentPairs

LEMMA LoadEffect ==
    ASSUME IInv, NEW image \in Images, SpawnProcess(image)
    PROVE  \E blocks, m : Loads(blocks, m)
<1>. DEFINE B == [owner : {0}, at : Nat, ptr : Frames, pages : Nat \ {0}]
<1>1. ASSUME NEW blocks, NEW pairs, LoadBlocks(blocks, pairs),
             blocks \subseteq B, pairs \subseteq Nat \X ElfFrames,
             \A e \in pairs : e \in NullStack \/ \E b \in blocks : e \in Pairs(b.at, b.ptr, b.pages)
      PROVE  \E m : Loads(blocks, m)
  <2>1. PICK m \in SUBSET pairs :
           page_table' = {e \in page_table : e[1] \notin {f[1] : f \in m}} \cup m
    BY <1>1 DEF LoadBlocks
  <2>2. held' = held \cup blocks
    BY <1>1 DEF LoadBlocks
  <2>. QED
    BY <1>1, <2>1, <2>2 DEF Loads
<1>2. CASE LoadFails(image)
  <2>1. PICK taken \in SUBSET image : \E phys \in Placements(taken) :
           LoadBlocks(SegmentBlocks(taken, phys), SegmentPairs(taken, phys))
    BY <1>2 DEF LoadFails
  <2>2. PICK phys \in Placements(taken) :
           LoadBlocks(SegmentBlocks(taken, phys), SegmentPairs(taken, phys))
    BY <2>1
  <2>. QED
    BY <2>2, <1>1, SegmentsLoad
<1>3. CASE LoadEnds(image)
  <2>1. PICK phys \in Placements(image) :
         \/ \E ptr \in phys_alloc(2) :
               LoadBlocks(SegmentBlocks(image, phys) \cup {ImageBlock(STACK_AT, ptr, 2)},
                          SegmentPairs(image, phys) \cup Pairs(STACK_AT, ptr, 2))
         \/ LoadBlocks(SegmentBlocks(image, phys), SegmentPairs(image, phys) \cup NullStack)
    BY <1>3 DEF LoadEnds
  <2>2. /\ SegmentBlocks(image, phys) \subseteq B
        /\ SegmentPairs(image, phys) \subseteq Nat \X ElfFrames
        /\ \A e \in SegmentPairs(image, phys) :
              \E b \in SegmentBlocks(image, phys) : e \in Pairs(b.at, b.ptr, b.pages)
    BY SegmentsLoad
  <2>3. CASE LoadBlocks(SegmentBlocks(image, phys), SegmentPairs(image, phys) \cup NullStack)
    <3>1. NullStack \subseteq Nat \X ElfFrames
      BY LayoutAssumption DEF NullStack, Pairs, ElfFrames
    <3>. QED
      BY <1>1, <2>2, <2>3, <3>1
  <2>4. ASSUME NEW ptr \in phys_alloc(2),
               LoadBlocks(SegmentBlocks(image, phys) \cup {ImageBlock(STACK_AT, ptr, 2)},
                          SegmentPairs(image, phys) \cup Pairs(STACK_AT, ptr, 2))
        PROVE  \E blocks, m : Loads(blocks, m)
    <3>. DEFINE b == ImageBlock(STACK_AT, ptr, 2)
    <3>1. Pairs(STACK_AT, ptr, 2) \subseteq Nat \X Frames /\ ptr \in Frames
      BY LayoutAssumption, PairsTyped
    <3>2. b \in B /\ b.at = STACK_AT /\ b.ptr = ptr /\ b.pages = 2
      BY <3>1, LayoutAssumption DEF ImageBlock
    <3>3. Pairs(STACK_AT, ptr, 2) \subseteq Nat \X ElfFrames
      BY <3>1 DEF ElfFrames
    <3>. HIDE DEF b, B
    <3>4. LoadBlocks(SegmentBlocks(image, phys) \cup {b},
                     SegmentPairs(image, phys) \cup Pairs(STACK_AT, ptr, 2))
      BY <2>4 DEF b
    <3>5. \A e \in SegmentPairs(image, phys) \cup Pairs(STACK_AT, ptr, 2) :
             \E c \in SegmentBlocks(image, phys) \cup {b} : e \in Pairs(c.at, c.ptr, c.pages)
      BY <2>2, <3>2
    <3>6. SegmentBlocks(image, phys) \cup {b} \subseteq B
      BY <2>2, <3>2
    <3>7. SegmentPairs(image, phys) \cup Pairs(STACK_AT, ptr, 2) \subseteq Nat \X ElfFrames
      BY <2>2, <3>3
    <3>. QED
      BY <1>1, <3>4, <3>5, <3>6, <3>7
  <2>. QED
    BY <2>1, <2>3, <2>4
<1>. QED
  BY <1>2, <1>3 DEF SpawnProcess

LEMMA SpawnProcessInv ==
    ASSUME IInv, NEW image \in Images, SpawnProcess(image) PROVE IInv'
<1>1. /\ 1 \in DOMAIN sessions
      /\ sessions' = [sessions EXCEPT ![1].is_active = "active"]
      /\ scheduler' \in {scheduler, spawn(scheduler, 1)}
      /\ UNCHANGED <<tokens, live, tick_count>>
      /\ status' \in {status, "up", "panicked"}
  BY DEF SpawnProcess, LoadFails, LoadEnds
<1>2. PICK blocks, m : Loads(blocks, m)
  BY LoadEffect
<1>3. /\ blocks \subseteq [owner : {0}, at : Nat, ptr : Frames, pages : Nat \ {0}]
      /\ m \subseteq Nat \X ElfFrames
      /\ \A e \in m : e \in NullStack \/ \E b \in blocks : e \in Pairs(b.at, b.ptr, b.pages)
      /\ held' = held \cup blocks
      /\ page_table' = {e \in page_table : e[1] \notin {f[1] : f \in m}} \cup m
  BY <1>2 DEF Loads
<1>4. \A b \in blocks : b.owner = 0
  BY <1>3
<1>5. held' \subseteq [owner : Nat, at : Nat, ptr : Frames, pages : Nat \ {0}]
  BY <1>3 DEF IInv, TypeOK
<1>6. page_table' \subseteq Nat \X ElfFrames
  BY <1>3 DEF IInv, TypeOK
<1>7. sessions' \in Seq(Session)
  <2>1. sessions \in Seq(Session) /\ 1 \in 1 .. Len(sessions) /\ sessions[1] \in Session
    BY <1>1 DEF IInv, TypeOK
  <2>2. [sessions[1] EXCEPT !.is_active = "active"] \in Session
    BY <2>1 DEF Session
  <2>3. sessions' = [sessions EXCEPT ![1] = [sessions[1] EXCEPT !.is_active = "active"]]
    BY <1>1
  <2>. QED
    BY <2>1, <2>2, <2>3, ExceptSeq
<1>8. scheduler' \in Scheduler
  BY <1>1, SpawnTyped DEF IInv, TypeOK
<1>9. TypeOK'
  BY <1>1, <1>5, <1>6, <1>7, <1>8 DEF IInv, TypeOK
<1>10. BlocksAccounted' /\ VmaLayout'
  <2>2. BlocksAccounted'
    BY <1>1, <1>3, <1>4 DEF IInv, BlocksAccounted, Block
  <2>3. VmaLayout'
    BY <1>1 DEF IInv, VmaLayout, Base, get_aslr_offset
  <2>. QED
    BY <2>2, <2>3
<1>11. NoDanglingMapping'
  <2>. SUFFICES ASSUME NEW e \in page_table'
                PROVE  MapsImage(e)'
                         \/ \E u \in live : \E w \in tokens[u].vmas : MapsTo(w, e)
    BY <1>1 DEF NoDanglingMapping, MapsTo, VPages
  <2>1. CASE e \in m
    BY <1>3, <1>4, <2>1 DEF MapsImage, Pairs, NullStack
  <2>2. CASE e \in page_table
    <3>1. MapsImage(e) => MapsImage(e)'
      BY <1>3 DEF MapsImage, Pairs, NullStack
    <3>. QED
      BY <2>2, <3>1 DEF IInv, NoDanglingMapping
  <2>. QED
    BY <1>3, <2>1, <2>2
<1>. QED
  BY <1>9, <1>10, <1>11 DEF IInv

LEMMA SpawnPanicInv == ASSUME IInv, SpawnPanic PROVE IInv'
<1>1. TypeOK'
  BY DEF SpawnPanic, IInv, TypeOK
<1>2. live \subseteq DOMAIN tokens
  BY DEF IInv, TypeOK
<1>3. BlocksAccounted' /\ NoDanglingMapping' /\ VmaLayout'
  BY <1>2, SameMemory DEF SpawnPanic, IInv
<1>. QED
  BY <1>1, <1>3 DEF IInv

LEMMA StutterInv == ASSUME IInv, UNCHANGED vars PROVE IInv'
<1>1. TypeOK'
  BY DEF vars, IInv, TypeOK
<1>2. live \subseteq DOMAIN tokens
  BY DEF IInv, TypeOK
<1>3. BlocksAccounted' /\ NoDanglingMapping' /\ VmaLayout'
  BY <1>2, SameMemory DEF vars, IInv
<1>. QED
  BY <1>1, <1>3 DEF IInv

LEMMA NextInv == IInv /\ [Next]_vars => IInv'
<1>1. /\ PrivilegeVals \subseteq Nat /\ Limits \subseteq Int /\ Lifetimes \subseteq Nat
      /\ Sizes \subseteq Nat /\ Accesses \subseteq {"ro", "rw", "rx", "rwx"}
  BY SetAssumption
<1>. QED
  BY <1>1, CreateInv, RunInv, AllocateInv, SpawnProcessInv, SpawnPanicInv, TickInv, StutterInv
  DEF Next

LEMMA Invariance == Spec => []IInv
  BY InitInv, NextInv, PTL DEF Spec

(* The state of the Rust core is always well formed.                       *)
THEOREM TypeCorrect == Spec => []TypeOK
  BY Invariance, PTL DEF IInv

(* No block of an area is leaked or freed twice by the expiry of tokens in *)
(* rust_kernel_tick, for any history of allocations and loads.             *)
THEOREM EveryBlockAccounted == Spec => []BlocksAccounted
  BY Invariance, PTL DEF IInv

(* Every mapped page lies in a block that load_elf still holds or in a VMA *)
(* of a token still in the map, even where the spans of two tokens have    *)
(* run into each other.                                                    *)
THEOREM NoDangling == Spec => []NoDanglingMapping
  BY Invariance, PTL DEF IInv

(* rust_allocate_memory gives out each virtual page of a token once.       *)
THEOREM AddressesDisjoint == Spec => []VmasDisjoint
<1>1. IInv => VmasDisjoint
  BY LayoutDisjoint DEF IInv
<1>. QED
  BY <1>1, Invariance, PTL

-----------------------------------------------------------------------------
(***************************************************************************)
(* Sessions and threads.  run_count is how often a token is in the list of *)
(* sessions, so the limit of two runs is a limit of two sessions; it needs *)
(* that no session names a token that does not exist yet.  Sessions are    *)
(* made active and stay so: a session is refused because it or nothing     *)
(* else has run out.                                                       *)
(***************************************************************************)
Runs(t) == {s \in DOMAIN sessions : sessions[s].token = t}

SessionsOwned ==
    \A s \in DOMAIN sessions : sessions[s].token \in DOMAIN tokens /\ sessions[s].is_active = "active"
RunsCounted == \A t \in DOMAIN tokens : Cardinality(Runs(t)) = tokens[t].run_count
HasThread(q, s) == \E i \in 1 .. Len(q.threads) : q.threads[i].session_id = s
ThreadsKept ==
    /\ ThreadIds(scheduler) /\ scheduler.next_thread_id # 0
    /\ \A s \in DOMAIN sessions : HasThread(scheduler, s)

SInv == SessionsOwned /\ RunsCounted /\ ThreadsKept

LEMMA RunsFinite == ASSUME TypeOK, NEW t PROVE IsFiniteSet(Runs(t))
<1>1. Runs(t) \subseteq 1 .. Len(sessions) /\ Len(sessions) \in Nat
  BY DEF Runs, TypeOK
<1>2. IsFiniteSet(1 .. Len(sessions))
  BY <1>1, FS_Interval
<1>. QED
  BY <1>1, <1>2, FS_Subset

(* schedule_next moves threads about, spawn adds one.                      *)
LEMMA ScheduleKeepsThreads ==
    ASSUME NEW q \in Scheduler, NEW s, HasThread(q, s)
    PROVE  HasThread(schedule_next(q), s)
<1>1. CASE ReadyAt(q) = {}
  BY <1>1 DEF schedule_next
<1>2. CASE ReadyAt(q) # {}
  <2>. DEFINE k == FirstReady(q)
              n == Len(q.threads)
              r == Rotated(q.threads, k)
  <2>1. k \in 1 .. n /\ q.threads \in Seq(Thread) /\ n \in Nat
    BY <1>2, FirstReadyIsFirst, SchedulerTyped
  <2>2. schedule_next(q).threads = r
    BY <1>2 DEF schedule_next
  <2>. HIDE DEF k
  <2>3. /\ Len(r) = n
        /\ \A i \in 1 .. n : r[i] = IF i <= n - k THEN q.threads[i + k] ELSE q.threads[i - (n - k)]
    BY <2>1, RotatedSeq
  <2>. HIDE DEF r, n
  <2>4. PICK i \in 1 .. n : q.threads[i].session_id = s
    BY DEF HasThread, n
  <2>5. CASE i > k
    <3>1. i - k \in 1 .. n /\ i - k <= n - k /\ (i - k) + k = i
      BY <2>1, <2>4, <2>5
    <3>2. r[i - k] = q.threads[i]
      BY <3>1, <2>3
    <3>. QED
      BY <3>1, <3>2, <2>2, <2>3, <2>4 DEF HasThread
  <2>6. CASE i <= k
    <3>1. i + (n - k) \in 1 .. n /\ ~ (i + (n - k) <= n - k) /\ (i + (n - k)) - (n - k) = i
      BY <2>1, <2>4, <2>6
    <3>2. r[i + (n - k)] = q.threads[i]
      BY <3>1, <2>3
    <3>. QED
      BY <3>1, <3>2, <2>2, <2>3, <2>4 DEF HasThread
  <2>. QED
    BY <2>1, <2>4, <2>5, <2>6
<1>. QED
  BY <1>1, <1>2

LEMMA SpawnAddsThread ==
    ASSUME NEW q \in Scheduler, NEW session \in Nat
    PROVE  /\ HasThread(spawn(q, session), session)
           /\ \A s : HasThread(q, s) => HasThread(spawn(q, session), s)
<1>. DEFINE th == [id |-> q.next_thread_id, session_id |-> session, state |-> "Ready"]
<1>1. q.threads \in Seq(Thread) /\ Len(q.threads) \in Nat
  BY SchedulerTyped
<1>2. spawn(q, session).threads = Append(q.threads, th) /\ th.session_id = session
  BY DEF spawn
<1>. HIDE DEF th
<1>3. /\ Len(Append(q.threads, th)) = Len(q.threads) + 1
      /\ Append(q.threads, th)[Len(q.threads) + 1] = th
      /\ \A i \in 1 .. Len(q.threads) : Append(q.threads, th)[i] = q.threads[i]
  BY <1>1
<1>4. Len(q.threads) + 1 \in 1 .. Len(q.threads) + 1 /\ 1 .. Len(q.threads) \subseteq 1 .. Len(q.threads) + 1
  BY <1>1
<1>. QED
  BY <1>2, <1>3, <1>4 DEF HasThread

(* A step that makes neither session nor thread.                           *)
LEMMA SameSessions ==
    ASSUME TypeOK, SInv, UNCHANGED <<sessions, scheduler>>,
           DOMAIN tokens \subseteq DOMAIN tokens',
           \A t \in DOMAIN tokens : tokens'[t].run_count = tokens[t].run_count,
           \A t \in DOMAIN tokens' \ DOMAIN tokens : tokens'[t].run_count = 0
    PROVE  SInv'
<1>1. SessionsOwned' /\ ThreadsKept'
  BY DEF SInv, SessionsOwned, ThreadsKept
<1>2. \A t : Runs(t)' = Runs(t)
  BY DEF Runs
<1>3. ASSUME NEW t \in DOMAIN tokens' PROVE Cardinality(Runs(t)) = tokens'[t].run_count
  <2>1. CASE t \in DOMAIN tokens
    BY <2>1 DEF SInv, RunsCounted
  <2>2. CASE t \notin DOMAIN tokens
    <3>1. Runs(t) = {}
      BY <2>2 DEF SInv, SessionsOwned, Runs
    <3>. QED
      BY <3>1, <2>2, FS_EmptySet
  <2>. QED
    BY <2>1, <2>2
<1>4. RunsCounted'
  BY <1>2, <1>3 DEF RunsCounted
<1>. QED
  BY <1>1, <1>4 DEF SInv

(* The scheduled thread's session is made active, and nothing else of it   *)
(* changes.                                                                *)
LEMMA ActivateEffect ==
    ASSUME TypeOK
    PROVE  /\ DOMAIN activate(sessions) = DOMAIN sessions
           /\ \A s \in DOMAIN sessions :
                 /\ activate(sessions)[s].token = sessions[s].token
                 /\ activate(sessions)[s].expiry_tick = sessions[s].expiry_tick
                 /\ activate(sessions)[s].is_active \in {sessions[s].is_active, "active"}
<1>1. CASE ReadyAt(scheduler) = {}
  BY <1>1 DEF activate
<1>2. CASE ReadyAt(scheduler) # {}
  <2>. DEFINE k == scheduler.threads[FirstReady(scheduler)].session_id
              e == [sessions[k] EXCEPT !.is_active = "active"]
  <2>1. activate(sessions) = [sessions EXCEPT ![k] = e]
    BY <1>2, Zenon DEF activate
  <2>. HIDE DEF k
  <2>2. k \in DOMAIN sessions =>
           /\ e.token = sessions[k].token /\ e.expiry_tick = sessions[k].expiry_tick
           /\ e.is_active = "active"
    <3>1. k \in DOMAIN sessions => sessions[k] \in Session
      BY DEF TypeOK
    <3>. QED
      BY <3>1 DEF Session
  <2>. HIDE DEF e
  <2>3. \A s \in DOMAIN sessions : activate(sessions)[s] = IF s = k THEN e ELSE sessions[s]
    BY <2>1 DEF TypeOK
  <2>4. DOMAIN activate(sessions) = DOMAIN sessions
    BY <2>1 DEF TypeOK
  <2>. QED
    BY <2>2, <2>3, <2>4
<1>. QED
  BY <1>1, <1>2

LEMMA CreateSessions ==
    ASSUME IInv, SInv, NEW caller, NEW priv, NEW parent, NEW limit, NEW flags, NEW lifetime,
           CreateChildToken(caller, priv, parent, limit, flags, lifetime)
    PROVE  SInv'
<1>1. PICK tok : tokens' = Append(tokens, tok) /\ tok.run_count = 0
  BY DEF CreateChildToken
<1>2. /\ DOMAIN tokens' = 1 .. Len(tokens) + 1 /\ DOMAIN tokens = 1 .. Len(tokens) /\ Len(tokens) \in Nat
      /\ \A t \in DOMAIN tokens : tokens'[t] = tokens[t]
      /\ tokens'[Len(tokens) + 1] = tok
  BY <1>1 DEF IInv, TypeOK
<1>3. DOMAIN tokens \subseteq DOMAIN tokens' /\ \A t \in DOMAIN tokens' \ DOMAIN tokens : t = Len(tokens) + 1
  BY <1>2
<1>. QED
  BY <1>1, <1>2, <1>3, SameSessions DEF CreateChildToken, IInv

LEMMA AllocateSessions ==
    ASSUME IInv, SInv, NEW t, NEW pages, NEW access, AllocateMemory(t, pages, access)
    PROVE  SInv'
<1>1. PICK V, used : tokens' = [tokens EXCEPT ![t] = [tokens[t] EXCEPT !.vmas = V, !.memory_used = used]]
  BY DEF AllocateMemory
<1>2. t \in DOMAIN tokens /\ tokens[t] \in Token
  BY TokenTyped DEF AllocateMemory, IInv, TypeOK
<1>. DEFINE tok == [tokens[t] EXCEPT !.vmas = V, !.memory_used = used]
<1>3. tok.run_count = tokens[t].run_count
  BY <1>2 DEF Token
<1>. HIDE DEF tok
<1>4. DOMAIN tokens' = DOMAIN tokens /\ \A u \in DOMAIN tokens : tokens'[u] = IF u = t THEN tok ELSE tokens[u]
  BY <1>1, <1>2 DEF IInv, TypeOK, tok
<1>. QED
  BY <1>3, <1>4, SameSessions DEF AllocateMemory, IInv

LEMMA RunSessions ==
    ASSUME IInv, SInv, NEW t, NEW lifetime, RunProcess(t, lifetime)
    PROVE  SInv'
<1>. DEFINE n == Len(sessions) + 1
            tok == [tokens[t] EXCEPT !.run_count = tokens[t].run_count + 1]
            ses == [token |-> t, expiry_tick |-> Wrap(tick_count + lifetime), is_active |-> "active"]
<1>1. /\ tokens' = [tokens EXCEPT ![t] = tok]
      /\ sessions' = Append(sessions, ses) /\ scheduler' = spawn(scheduler, n)
      /\ t \in live
  BY DEF RunProcess
<1>2. t \in DOMAIN tokens /\ tokens[t] \in Token /\ ses.token = t /\ ses.is_active = "active"
  BY <1>1, TokenTyped DEF IInv, TypeOK
<1>3. tok.run_count = tokens[t].run_count + 1
  BY <1>2 DEF Token
<1>. HIDE DEF tok, ses
<1>4. DOMAIN tokens' = DOMAIN tokens /\ \A u \in DOMAIN tokens : tokens'[u] = IF u = t THEN tok ELSE tokens[u]
  BY <1>1, <1>2 DEF IInv, TypeOK
<1>5. Len(sessions) \in Nat /\ DOMAIN sessions = 1 .. Len(sessions) /\ n \in Nat /\ n \notin DOMAIN sessions
  BY DEF IInv, TypeOK
<1>6. /\ DOMAIN sessions' = DOMAIN sessions \cup {n}
      /\ \A s \in DOMAIN sessions : sessions'[s] = sessions[s]
      /\ sessions'[n] = ses
  <2>1. sessions \in Seq(Session)
    BY DEF IInv, TypeOK
  <2>2. DOMAIN Append(sessions, ses) = 1 .. n
    BY <2>1
  <2>3. 1 .. n = (1 .. Len(sessions)) \cup {n}
    BY <1>5
  <2>. QED
    BY <1>1, <1>5, <2>1, <2>2, <2>3
<1>. HIDE DEF n
<1>7. SessionsOwned'
  BY <1>2, <1>4, <1>6 DEF SInv, SessionsOwned
<1>8. RunsCounted'
  <2>1. SUFFICES ASSUME NEW u \in DOMAIN tokens PROVE Cardinality(Runs(u)') = tokens'[u].run_count
    BY <1>4 DEF RunsCounted
  <2>2. Cardinality(Runs(u)) = tokens[u].run_count /\ IsFiniteSet(Runs(u))
    BY RunsFinite DEF SInv, RunsCounted, IInv
  <2>3. CASE u = t
    <3>1. Runs(u)' = Runs(u) \cup {n} /\ n \notin Runs(u)
      BY <2>3, <1>2, <1>5, <1>6 DEF Runs
    <3>2. Cardinality(Runs(u) \cup {n}) = Cardinality(Runs(u)) + 1
      BY <3>1, <2>2, FS_AddElement
    <3>. QED
      BY <3>1, <3>2, <2>2, <2>3, <1>3, <1>4
  <2>4. CASE u # t
    <3>1. Runs(u)' = Runs(u)
      BY <2>4, <1>2, <1>6 DEF Runs
    <3>. QED
      BY <3>1, <2>2, <2>4, <1>4
  <2>. QED
    BY <2>3, <2>4
<1>9. ThreadsKept'
  <2>1. scheduler \in Scheduler /\ ThreadIds(scheduler) /\ scheduler.next_thread_id # 0
    BY DEF IInv, TypeOK, SInv, ThreadsKept
  <2>2. ThreadIds(scheduler')
    BY <1>1, <1>5, <2>1, SpawnEffect
  <2>3. scheduler'.next_thread_id # 0
    BY <1>1, <2>1, SchedulerTyped DEF spawn
  <2>4. \A s \in DOMAIN sessions' : HasThread(scheduler', s)
    BY <1>1, <1>5, <1>6, <2>1, SpawnAddsThread DEF SInv, ThreadsKept
  <2>. QED
    BY <2>2, <2>3, <2>4 DEF ThreadsKept, HasThread, ThreadIds
<1>. QED
  BY <1>7, <1>8, <1>9 DEF SInv

(* Sessions keep their tokens, tokens their counts, and threads are added  *)
(* or moved.                                                               *)
LEMMA MovedSessions ==
    ASSUME IInv, SInv,
           DOMAIN tokens' = DOMAIN tokens,
           \A t \in DOMAIN tokens : tokens'[t].run_count = tokens[t].run_count,
           DOMAIN sessions' = DOMAIN sessions,
           \A s \in DOMAIN sessions : /\ sessions'[s].token = sessions[s].token
                                      /\ sessions'[s].is_active \in {sessions[s].is_active, "active"},
           scheduler' \in {scheduler, schedule_next(scheduler), spawn(scheduler, 1)}
    PROVE  SInv'
<1>1. SessionsOwned'
  BY DEF SInv, SessionsOwned
<1>2. \A t : Runs(t)' = Runs(t)
  BY DEF Runs
<1>3. RunsCounted'
  BY <1>2 DEF SInv, RunsCounted
<1>4. scheduler \in Scheduler /\ ThreadIds(scheduler) /\ scheduler.next_thread_id # 0
      /\ \A s \in DOMAIN sessions : HasThread(scheduler, s)
  BY DEF IInv, TypeOK, SInv, ThreadsKept
<1>5. ThreadIds(scheduler') /\ scheduler'.next_thread_id # 0
      /\ \A s \in DOMAIN sessions' : HasThread(scheduler', s)
  <2>1. CASE scheduler' = scheduler
    BY <2>1, <1>4
  <2>2. CASE scheduler' = schedule_next(scheduler)
    BY <2>2, <1>4, ScheduleEffect, ScheduleKeepsThreads
  <2>3. CASE scheduler' = spawn(scheduler, 1)
    <3>1. scheduler'.next_thread_id # 0
      BY <2>3, <1>4, SchedulerTyped DEF spawn
    <3>. QED
      BY <3>1, <2>3, <1>4, SpawnEffect, SpawnAddsThread
  <2>. QED
    BY <2>1, <2>2, <2>3
<1>6. ThreadsKept'
  BY <1>5 DEF ThreadsKept, HasThread, ThreadIds
<1>. QED
  BY <1>1, <1>3, <1>6 DEF SInv

LEMMA TickSessions == ASSUME IInv, SInv, KernelTick PROVE SInv'
<1>. DEFINE dead == expired_tokens(tick_count + 1)
<1>1. /\ tokens' = [u \in DOMAIN tokens |->
            IF u \in dead THEN [tokens[u] EXCEPT !.vmas = {}] ELSE tokens[u]]
      /\ scheduler' = schedule_next(scheduler) /\ sessions' = activate(sessions)
  BY DEF KernelTick
<1>. HIDE DEF dead
<1>2. \A u \in DOMAIN tokens : tokens'[u].run_count = tokens[u].run_count
  <2>1. \A u \in DOMAIN tokens : tokens[u] \in Token
    BY TokenTyped DEF IInv
  <2>2. \A tok \in Token : [tok EXCEPT !.vmas = {}].run_count = tok.run_count
    BY DEF Token
  <2>. QED
    BY <1>1, <2>1, <2>2
<1>3. DOMAIN tokens' = DOMAIN tokens
  BY <1>1
<1>. QED
  BY <1>1, <1>2, <1>3, ActivateEffect, MovedSessions DEF IInv

LEMMA SpawnSessions == ASSUME IInv, SInv, NEW image, SpawnProcess(image) PROVE SInv'
<1>. DEFINE e == [sessions[1] EXCEPT !.is_active = "active"]
<1>1. /\ 1 \in DOMAIN sessions /\ sessions' = [sessions EXCEPT ![1] = e]
      /\ scheduler' \in {scheduler, spawn(scheduler, 1)} /\ tokens' = tokens
  BY Zenon DEF SpawnProcess, LoadFails, LoadEnds
<1>2. e.token = sessions[1].token /\ e.is_active = "active"
  <2>1. sessions[1] \in Session
    BY <1>1 DEF IInv, TypeOK
  <2>. QED
    BY <2>1 DEF Session
<1>. HIDE DEF e
<1>3. DOMAIN sessions' = DOMAIN sessions /\ \A s \in DOMAIN sessions : sessions'[s] = IF s = 1 THEN e ELSE sessions[s]
  BY <1>1 DEF IInv, TypeOK
<1>. QED
  BY <1>1, <1>2, <1>3, MovedSessions

LEMMA InitSessions == Init => SInv
<1>. SUFFICES ASSUME Init PROVE SInv
  OBVIOUS
<1>1. DOMAIN sessions = {} /\ DOMAIN tokens = {1} /\ tokens[1].run_count = 0
  BY DEF Init, RootToken
<1>2. Len(scheduler.threads) = 0 /\ scheduler.next_thread_id = 1 /\ scheduler.active_thread = 0
  BY DEF Init, NewScheduler
<1>3. \A t : Runs(t) = {}
  BY <1>1 DEF Runs
<1>4. RunsCounted
  BY <1>1, <1>3, FS_EmptySet DEF RunsCounted
<1>5. SessionsOwned /\ ThreadsKept
  BY <1>1, <1>2 DEF SessionsOwned, ThreadsKept, ThreadIds
<1>. QED
  BY <1>4, <1>5 DEF SInv

LEMMA NextSessions == ASSUME IInv, SInv, [Next]_vars PROVE SInv'
<1>1. CASE UNCHANGED <<tokens, sessions, scheduler>>
  BY <1>1, SameSessions DEF IInv
<1>2. CASE SpawnPanic \/ UNCHANGED vars
  BY <1>1, <1>2 DEF SpawnPanic, vars
<1>. QED
  BY <1>2, CreateSessions, RunSessions, AllocateSessions, SpawnSessions, TickSessions DEF Next

(* What the invariant says of runs and threads.                            *)
LEMMA TwoRunsHold == ASSUME IInv, SInv PROVE TwoRunsEach
<1>1. ASSUME NEW t \in DOMAIN tokens
      PROVE  Cardinality({s \in DOMAIN sessions : sessions[s].token = t}) <= 2
  <2>1. tokens[t].run_count \in 0 .. 2
    BY TokenTyped DEF IInv, Token
  <2>2. Cardinality({s \in DOMAIN sessions : sessions[s].token = t}) = tokens[t].run_count
    BY DEF SInv, RunsCounted, Runs
  <2>. QED
    BY <2>1, <2>2
<1>2. DOMAIN scheduler.threads = 1 .. Len(scheduler.threads)
  BY SchedulerTyped DEF IInv, TypeOK
<1>3. \A s \in DOMAIN sessions : \E i \in DOMAIN scheduler.threads : scheduler.threads[i].session_id = s
  BY <1>2 DEF SInv, ThreadsKept, HasThread
<1>4. \A i, j \in DOMAIN scheduler.threads : scheduler.threads[i].id = scheduler.threads[j].id => i = j
  BY <1>2 DEF SInv, ThreadsKept, ThreadIds
<1>. QED
  BY <1>1, <1>3, <1>4 DEF TwoRunsEach

(* rust_run_process gives each token two sessions at most in its whole     *)
(* life, every session a thread, every thread an id of its own.            *)
THEOREM AtMostTwoRuns == Spec => []TwoRunsEach
<1>1. Init => IInv /\ SInv
  BY InitInv, InitSessions
<1>2. (IInv /\ SInv) /\ [Next]_vars => (IInv /\ SInv)'
  BY NextInv, NextSessions
<1>3. IInv /\ SInv => TwoRunsEach
  BY TwoRunsHold
<1>. QED
  BY <1>1, <1>2, <1>3, PTL DEF Spec

-----------------------------------------------------------------------------
(***************************************************************************)
(* No token in the map is overdue: its due tick, its expiry or, when that  *)
(* has wrapped, the tick of its creation, is not past.  So one that a tick *)
(* removes was due at exactly the tick before.                             *)
(***************************************************************************)
NotOverdue ==
    \A t \in live : /\ tokens[t].born <= tick_count
                    /\ tokens[t].is_permanent = "timed" => tick_count <= Due(t)

(* Tokens keep their kind, birth and expiry.                               *)
LEMMA OverdueStays ==
    ASSUME NotOverdue, live' \subseteq live, tick_count' = tick_count,
           \A t \in live : /\ tokens'[t].is_permanent = tokens[t].is_permanent
                           /\ tokens'[t].expiry_tick = tokens[t].expiry_tick
                           /\ tokens'[t].born = tokens[t].born
    PROVE  NotOverdue'
  BY DEF NotOverdue, Due

LEMMA CreateNotOverdue ==
    ASSUME IInv, NotOverdue,
           NEW caller, NEW priv, NEW parent, NEW limit, NEW flags, NEW lifetime \in Nat,
           CreateChildToken(caller, priv, parent, limit, flags, lifetime)
    PROVE  NotOverdue'
<1>n. PICK n : n = Len(tokens) + 1
  OBVIOUS
<1>0. live \subseteq DOMAIN tokens /\ tick_count \in Nat
  BY BoundAssumption DEF IInv, TypeOK
<1>1. PICK tok : /\ tokens' = Append(tokens, tok)
                 /\ tok.expiry_tick = Wrap(tick_count + lifetime) /\ tok.born = tick_count
  BY DEF CreateChildToken
<1>2. live' = live \cup {n} /\ tick_count' = tick_count
  BY <1>n DEF CreateChildToken
<1>3. tokens'[n] = tok /\ \A t \in live : tokens'[t] = tokens[t]
  BY <1>n, <1>0, <1>1 DEF IInv, TypeOK
<1>4. Wrap(tick_count + lifetime) \in Nat
  <2>1. tick_count + lifetime \in Nat
    BY <1>0
  <2>. QED
    BY <2>1, BoundAssumption DEF Wrap
<1>5. tokens'[n].born = tick_count /\ tick_count <= Due(n)'
  BY <1>0, <1>1, <1>3, <1>4 DEF Due
<1>6. \A t \in live : Due(t)' = Due(t)
  BY <1>3 DEF Due
<1>. QED
  BY <1>0, <1>2, <1>3, <1>5, <1>6 DEF NotOverdue

LEMMA AllocateNotOverdue ==
    ASSUME IInv, NotOverdue, NEW t, NEW pages, NEW access, AllocateMemory(t, pages, access)
    PROVE  NotOverdue'
<1>1. PICK V, used : tokens' = [tokens EXCEPT ![t] = [tokens[t] EXCEPT !.vmas = V, !.memory_used = used]]
  BY DEF AllocateMemory
<1>. DEFINE tok == [tokens[t] EXCEPT !.vmas = V, !.memory_used = used]
<1>2. t \in DOMAIN tokens /\ tokens[t] \in Token /\ UNCHANGED <<live, tick_count>>
      /\ live \subseteq DOMAIN tokens
  BY TokenTyped DEF AllocateMemory, IInv, TypeOK
<1>3. /\ tok.is_permanent = tokens[t].is_permanent /\ tok.expiry_tick = tokens[t].expiry_tick
      /\ tok.born = tokens[t].born
  BY <1>2 DEF Token
<1>. HIDE DEF tok
<1>4. \A u \in live : tokens'[u] = IF u = t THEN tok ELSE tokens[u]
  BY <1>1, <1>2 DEF IInv, TypeOK, tok
<1>. QED
  BY <1>2, <1>3, <1>4, OverdueStays

LEMMA RunNotOverdue ==
    ASSUME IInv, NotOverdue, NEW t, NEW lifetime, RunProcess(t, lifetime)
    PROVE  NotOverdue'
<1>. DEFINE tok == [tokens[t] EXCEPT !.run_count = tokens[t].run_count + 1]
<1>1. /\ tokens' = [tokens EXCEPT ![t] = tok] /\ UNCHANGED <<live, tick_count>>
      /\ t \in DOMAIN tokens /\ tokens[t] \in Token /\ live \subseteq DOMAIN tokens
  BY TokenTyped DEF RunProcess, IInv, TypeOK
<1>2. /\ tok.is_permanent = tokens[t].is_permanent /\ tok.expiry_tick = tokens[t].expiry_tick
      /\ tok.born = tokens[t].born
  BY <1>1 DEF Token
<1>. HIDE DEF tok
<1>3. \A u \in live : tokens'[u] = IF u = t THEN tok ELSE tokens[u]
  BY <1>1 DEF IInv, TypeOK
<1>. QED
  BY <1>1, <1>2, <1>3, OverdueStays

(* What a tick makes of one token of the map.                              *)
LEMMA TickRemoves ==
    ASSUME IInv, NotOverdue, KernelTick, NEW t \in live
    PROVE  /\ t \in live' <=> (tokens[t].is_permanent = "permanent" \/ tick_count' <= Due(t))
           /\ tick_count' = tick_count + 1
           /\ t \in live' => tokens'[t] = tokens[t]
<1>1. /\ live' = live \ expired_tokens(tick_count + 1) /\ tick_count' = tick_count + 1
      /\ \A u \in DOMAIN tokens : u \notin expired_tokens(tick_count + 1) => tokens'[u] = tokens[u]
  BY DEF KernelTick
<1>2. t \in DOMAIN tokens /\ tick_count \in Nat
  BY BoundAssumption DEF IInv, TypeOK
<1>3. /\ tokens[t].expiry_tick \in Nat /\ tokens[t].born \in Nat
      /\ tokens[t].is_permanent \in {"permanent", "timed"}
  <2>1. tokens[t] \in Token
    BY <1>2, TokenTyped DEF IInv
  <2>. QED
    BY <2>1 DEF Token
<1>4. t \in live' <=> ~ (tokens[t].is_permanent = "timed" /\ tick_count + 1 > tokens[t].expiry_tick)
  BY <1>1 DEF expired_tokens, is_expired
<1>5. ASSUME tokens[t].is_permanent = "timed"
      PROVE  tick_count + 1 > tokens[t].expiry_tick <=> ~ (tick_count + 1 <= Due(t))
  BY <1>2, <1>3, <1>5 DEF NotOverdue, Due
<1>. QED
  BY <1>1, <1>2, <1>3, <1>4, <1>5

LEMMA NextNotOverdue ==
    ASSUME IInv, NotOverdue, [Next]_vars
    PROVE  NotOverdue'
<1>1. ASSUME KernelTick PROVE NotOverdue'
  <2>1. live' \subseteq live
    BY <1>1 DEF KernelTick
  <2>2. tick_count \in Nat /\ \A t \in live : tokens[t].born \in Nat
    <3>1. tick_count \in Nat /\ live \subseteq DOMAIN tokens
      BY BoundAssumption DEF IInv, TypeOK
    <3>2. \A t \in live : tokens[t] \in Token
      BY <3>1, TokenTyped DEF IInv
    <3>. QED
      BY <3>1, <3>2 DEF Token
  <2>3. SUFFICES ASSUME NEW t \in live'
                 PROVE  /\ tokens'[t].born <= tick_count'
                        /\ tokens'[t].is_permanent = "timed" => tick_count' <= Due(t)'
    BY DEF NotOverdue
  <2>4. tokens'[t] = tokens[t] /\ tick_count' = tick_count + 1
        /\ (tokens[t].is_permanent = "permanent" \/ tick_count' <= Due(t))
    BY <1>1, <2>1, TickRemoves
  <2>5. tokens[t].born <= tick_count
    BY <2>1 DEF NotOverdue
  <2>. QED
    BY <2>1, <2>2, <2>4, <2>5 DEF Due
<1>2. CASE UNCHANGED <<tokens, live, tick_count>>
  BY <1>2, OverdueStays
<1>. QED
  BY <1>1, <1>2, CreateNotOverdue, RunNotOverdue, AllocateNotOverdue, SetAssumption
  DEF Next, SpawnProcess, SpawnPanic, vars

(* A step that is no tick leaves everyone in the map, and nobody is due.   *)
LEMMA NobodyLeaves ==
    ASSUME IInv, NotOverdue, live \subseteq live', tick_count' = tick_count, NEW t \in live
    PROVE  t \in live' <=> (tokens[t].is_permanent = "permanent" \/ tick_count' <= Due(t))
<1>1. tokens[t] \in Token
  BY TokenTyped DEF IInv, TypeOK
<1>2. tokens[t].is_permanent \in {"permanent", "timed"}
  BY <1>1 DEF Token
<1>. QED
  BY <1>2 DEF NotOverdue

LEMMA LeavesWhenDue ==
    ASSUME IInv, NotOverdue, [Next]_vars, NEW t \in live
    PROVE  t \in live' <=> (tokens[t].is_permanent = "permanent" \/ tick_count' <= Due(t))
<1>1. CASE KernelTick
  BY <1>1, TickRemoves
<1>2. CASE live \subseteq live' /\ tick_count' = tick_count
  BY <1>2, NobodyLeaves
<1>. QED
  BY <1>1, <1>2
  DEF Next, CreateChildToken, RunProcess, AllocateMemory, SpawnProcess, SpawnPanic, vars

LEMMA InitNotOverdue == Init => NotOverdue
  BY DEF Init, NotOverdue, Root, RootToken

(* A token leaves the map on the first tick after its expiry, on no other, *)
(* however long its life was meant to be: a lifetime that wraps the clock  *)
(* ends on the next tick.                                                  *)
THEOREM ExpiryOnTime == Spec => ReclaimedOnTime
<1>1. Init => IInv /\ NotOverdue
  BY InitInv, InitNotOverdue
<1>2. (IInv /\ NotOverdue) /\ [Next]_vars => (IInv /\ NotOverdue)'
  BY NextInv, NextNotOverdue
<1>3. (IInv /\ NotOverdue) /\ [Next]_vars =>
         [\A t \in live :
            t \in live' <=> (tokens[t].is_permanent = "permanent" \/ tick_count' <= Due(t))]_vars
  BY LeavesWhenDue
<1>. QED
  BY <1>1, <1>2, <1>3, PTL DEF Spec, ReclaimedOnTime

-----------------------------------------------------------------------------
(***************************************************************************)
(* The Linux calls over the core.  brk and mmap are rust_allocate_memory   *)
(* with sizes of their own, fork is rust_create_child_token with arguments *)
(* of its own, so whatever the core keeps for any arguments it keeps here. *)
(***************************************************************************)
HeapTyped ==
    heap_limit \in Nat /\ heap_owner \in DOMAIN tokens \cup {0}

HInv == IInv /\ SInv /\ HeapTyped /\ LimitIsMemory

(* Pages rounds up.                                                        *)
LEMMA PagesCover ==
    ASSUME NEW n \in Nat
    PROVE  Pages(n) \in Nat /\ n <= Pages(n) * PAGE_SIZE
<1>0. PAGE_SIZE \in Nat \ {0} /\ n + PAGE_SIZE - 1 \in Nat
  BY LinuxAssumption
<1>. DEFINE a == n + PAGE_SIZE - 1
            p == Pages(n)
            x == a % PAGE_SIZE
<1>1. a = PAGE_SIZE * p + x /\ x \in 0 .. PAGE_SIZE - 1 /\ p \in Nat
  BY <1>0 DEF Pages
<1>2. PAGE_SIZE * p = p * PAGE_SIZE /\ p * PAGE_SIZE \in Nat
  <2>. HIDE DEF p
  <2>. QED
    BY <1>0, <1>1
<1>. HIDE DEF p, x
<1>3. n <= p * PAGE_SIZE
  BY <1>0, <1>1, <1>2
<1>. QED
  BY <1>1, <1>3 DEF p

LEMMA ForkArguments ==
    FORK_LIMIT \in Int /\ FORK_TICKS \in Nat /\ 3 \in Nat
  BY LinuxAssumption

(* Every step of the Linux layer is one of the core's, for some arguments, *)
(* or leaves the core alone.                                               *)
LEMMA CoreStep ==
    ASSUME IInv, SInv, HeapTyped, [LinuxNext]_linux_vars
    PROVE  IInv' /\ SInv'
<1>1. CASE [Next]_vars
  BY <1>1, NextInv, NextSessions
<1>2. ASSUME NEW t, NEW n \in Nat, NEW access \in {"ro", "rw", "rx", "rwx"},
             AllocateMemory(t, Pages(n), access)
      PROVE  IInv' /\ SInv'
  <2>1. Pages(n) \in Nat
    BY PagesCover
  <2>. QED
    BY <2>1, <1>2, AllocateInv, AllocateSessions
<1>3. ASSUME NEW s \in DOMAIN sessions, Fork(s)
      PROVE  IInv' /\ SInv'
  <2>1. PICK parent : parent = sessions[s].token
    OBVIOUS
  <2>2. CreateChildToken(s, 3, parent, FORK_LIMIT, FORK_CAPS, FORK_TICKS)
    BY <1>3, <2>1 DEF Fork
  <2>. QED
    BY <2>2, ForkArguments, CreateInv, CreateSessions
<1>4. ASSUME NEW t, NEW b \in Breaks, BrkGrow(t, b)
      PROVE  IInv' /\ SInv'
  <2>1. b - heap_limit \in Nat
    BY <1>4, LinuxAssumption DEF BrkGrow, HeapTyped
  <2>2. PICK n : n = b - heap_limit
    OBVIOUS
  <2>3. AllocateMemory(t, Pages(n), "rw")
    BY <1>4, <2>2 DEF BrkGrow
  <2>. QED
    BY <2>1, <2>2, <2>3, <1>2
<1>5. ASSUME NEW t, NEW n \in Lengths, NEW access \in Accesses, Mmap(t, n, access)
      PROVE  IInv' /\ SInv'
  BY <1>5, <1>2, LinuxAssumption, SetAssumption DEF Mmap
<1>6. ASSUME NEW b \in Breaks, BrkWithin(b) PROVE IInv' /\ SInv'
  BY <1>6, <1>1 DEF BrkWithin
<1>7. CASE UNCHANGED linux_vars
  BY <1>7, <1>1 DEF linux_vars
<1>. QED
  BY <1>1, <1>3, <1>4, <1>5, <1>6, <1>7 DEF LinuxNext

(* Tokens in the map only gain memory; ids are not given out twice.        *)
MemoryKept ==
    /\ DOMAIN tokens \subseteq DOMAIN tokens'
    /\ live' \cap DOMAIN tokens \subseteq live
    /\ \A t \in live' \cap live : tokens[t].vmas \subseteq tokens'[t].vmas
    /\ \A t \in DOMAIN tokens : tokens'[t].capabilities = tokens[t].capabilities

LEMMA CreateKeeps ==
    ASSUME IInv, NEW caller, NEW priv, NEW parent, NEW limit, NEW flags, NEW lifetime,
           CreateChildToken(caller, priv, parent, limit, flags, lifetime)
    PROVE  MemoryKept
<1>1. PICK tok : tokens' = Append(tokens, tok)
  BY DEF CreateChildToken
<1>2. live' = live \cup {Len(tokens) + 1} /\ live \subseteq DOMAIN tokens
  BY DEF CreateChildToken, IInv, TypeOK
<1>3. /\ DOMAIN tokens' = 1 .. Len(tokens) + 1 /\ DOMAIN tokens = 1 .. Len(tokens) /\ Len(tokens) \in Nat
      /\ \A t \in DOMAIN tokens : tokens'[t] = tokens[t]
  BY <1>1 DEF IInv, TypeOK
<1>4. DOMAIN tokens \subseteq DOMAIN tokens' /\ Len(tokens) + 1 \notin DOMAIN tokens
  BY <1>3
<1>. QED
  BY <1>2, <1>3, <1>4 DEF MemoryKept

(* rust_allocate_memory adds an area at virtual_addr.                      *)
LEMMA AllocateKeeps ==
    ASSUME IInv, NEW t, NEW pages, NEW access, AllocateMemory(t, pages, access)
    PROVE  /\ MemoryKept /\ t \in live' /\ t \in DOMAIN tokens
           /\ \E v \in tokens'[t].vmas : /\ v.start_addr = virtual_addr(t)
                                         /\ v.size = pages /\ v.access = access
<1>0. t \in live /\ live' = live /\ live \subseteq DOMAIN tokens /\ tokens[t] \in Token
  BY TokenTyped DEF AllocateMemory, IInv, TypeOK
<1>1. PICK phys :
         tokens' = [tokens EXCEPT ![t] = [tokens[t] EXCEPT
                    !.vmas = tokens[t].vmas \cup {[start_addr |-> virtual_addr(t), size |-> pages,
                                                   phys_ptr |-> phys, access |-> access]},
                    !.memory_used = tokens[t].memory_used + pages]]
  BY DEF AllocateMemory
<1>. DEFINE v == [start_addr |-> virtual_addr(t), size |-> pages, phys_ptr |-> phys, access |-> access]
            tok == [tokens[t] EXCEPT !.vmas = tokens[t].vmas \cup {v},
                                     !.memory_used = tokens[t].memory_used + pages]
<1>2. v.start_addr = virtual_addr(t) /\ v.size = pages /\ v.access = access
  OBVIOUS
<1>3. tokens' = [tokens EXCEPT ![t] = tok]
  BY <1>1
<1>. HIDE DEF v
<1>4. tok.vmas = tokens[t].vmas \cup {v} /\ tok.capabilities = tokens[t].capabilities
  BY <1>0 DEF Token
<1>. HIDE DEF tok
<1>5. DOMAIN tokens' = DOMAIN tokens /\ \A u \in DOMAIN tokens : tokens'[u] = IF u = t THEN tok ELSE tokens[u]
  BY <1>0, <1>3 DEF IInv, TypeOK
<1>6. MemoryKept
  BY <1>0, <1>4, <1>5 DEF MemoryKept
<1>. QED
  BY <1>0, <1>2, <1>4, <1>5, <1>6

LEMMA NextKeeps == ASSUME IInv, [Next]_vars PROVE MemoryKept
<1>0. live \subseteq DOMAIN tokens /\ \A t \in DOMAIN tokens : tokens[t] \in Token
  BY TokenTyped DEF IInv, TypeOK
<1>1. ASSUME NEW t, NEW lifetime, RunProcess(t, lifetime) PROVE MemoryKept
  <2>. DEFINE tok == [tokens[t] EXCEPT !.run_count = tokens[t].run_count + 1]
  <2>1. tokens' = [tokens EXCEPT ![t] = tok] /\ live' = live /\ t \in DOMAIN tokens
    BY <1>1, <1>0 DEF RunProcess
  <2>2. tok.vmas = tokens[t].vmas /\ tok.capabilities = tokens[t].capabilities
    BY <2>1, <1>0 DEF Token
  <2>. HIDE DEF tok
  <2>3. DOMAIN tokens' = DOMAIN tokens /\ \A u \in DOMAIN tokens : tokens'[u] = IF u = t THEN tok ELSE tokens[u]
    BY <2>1 DEF IInv, TypeOK
  <2>. QED
    BY <2>1, <2>2, <2>3 DEF MemoryKept
<1>2. ASSUME KernelTick PROVE MemoryKept
  <2>. DEFINE dead == expired_tokens(tick_count + 1)
  <2>1. /\ live' = live \ dead
        /\ tokens' = [u \in DOMAIN tokens |->
              IF u \in dead THEN [tokens[u] EXCEPT !.vmas = {}] ELSE tokens[u]]
    BY <1>2 DEF KernelTick
  <2>. HIDE DEF dead
  <2>2. \A tok \in Token : [tok EXCEPT !.vmas = {}].capabilities = tok.capabilities
    BY DEF Token
  <2>3. DOMAIN tokens' = DOMAIN tokens
        /\ \A u \in DOMAIN tokens : /\ tokens'[u].capabilities = tokens[u].capabilities
                                    /\ u \notin dead => tokens'[u] = tokens[u]
    BY <2>1, <2>2, <1>0
  <2>. QED
    BY <2>1, <2>3, <1>0 DEF MemoryKept
<1>3. CASE UNCHANGED <<tokens, live>>
  BY <1>3, <1>0 DEF MemoryKept
<1>. QED
  BY <1>1, <1>2, <1>3, CreateKeeps, AllocateKeeps DEF Next, SpawnProcess, SpawnPanic, vars

(* Memory that is kept keeps the limit in it.                              *)
LEMMA LimitStays ==
    ASSUME IInv, HeapTyped, LimitIsMemory, MemoryKept, UNCHANGED <<heap_limit, heap_owner>>,
           0 \notin live'
    PROVE  HeapTyped' /\ LimitIsMemory'
<1>1. HeapTyped'
  BY DEF HeapTyped, MemoryKept
<1>2. LimitIsMemory'
  <2>1. SUFFICES ASSUME heap_owner \in live'
                 PROVE  heap_owner \in live /\ tokens[heap_owner].vmas \subseteq tokens'[heap_owner].vmas
    BY DEF LimitIsMemory
  <2>. QED
    BY <2>1 DEF HeapTyped, MemoryKept
<1>. QED
  BY <1>1, <1>2

LEMMA GrowInv ==
    ASSUME HInv, NEW t, NEW b \in Breaks, BrkGrow(t, b)
    PROVE  HeapTyped' /\ LimitIsMemory'
<1>. DEFINE needed == b - heap_limit
<1>0. /\ AllocateMemory(t, Pages(needed), "rw") /\ heap_owner' = t
      /\ heap_limit' = virtual_addr(t) * PAGE_SIZE + needed
      /\ needed \in Nat /\ needed > 0
  BY LinuxAssumption DEF BrkGrow, limit_after, HInv, HeapTyped
<1>1. PICK pages, start : pages = Pages(needed) /\ start = virtual_addr(t)
  OBVIOUS
<1>2. /\ MemoryKept /\ t \in live' /\ t \in DOMAIN tokens
      /\ \E v \in tokens'[t].vmas : /\ v.start_addr = start /\ v.size = pages /\ v.access = "rw"
  BY <1>0, <1>1, AllocateKeeps DEF HInv
<1>3. start \in Nat
  <2>1. t \in Nat /\ tokens[t].memory_used \in Nat
    BY <1>2, TokenTyped DEF HInv, IInv
  <2>. QED
    BY <2>1, <1>1, BaseNat DEF virtual_addr
<1>4. PAGE_SIZE \in Nat \ {0} /\ start * PAGE_SIZE \in Nat
  BY <1>3, LinuxAssumption
<1>5. pages \in Nat /\ needed <= pages * PAGE_SIZE
  BY <1>0, <1>1, PagesCover
<1>. HIDE DEF needed
<1>6. (start + pages) * PAGE_SIZE = start * PAGE_SIZE + pages * PAGE_SIZE /\ pages * PAGE_SIZE \in Nat
  BY <1>3, <1>4, <1>5
<1>7. heap_limit' = start * PAGE_SIZE + needed
  BY <1>0, <1>1
<1>8. heap_limit' \in Nat /\ start * PAGE_SIZE < heap_limit' /\ heap_limit' <= (start + pages) * PAGE_SIZE
  BY <1>0, <1>4, <1>5, <1>6, <1>7
<1>9. HeapTyped'
  BY <1>0, <1>2, <1>8 DEF HeapTyped, MemoryKept
<1>10. LimitIsMemory'
  BY <1>0, <1>2, <1>8 DEF LimitIsMemory
<1>. QED
  BY <1>9, <1>10

LEMMA LinuxNextInv ==
    ASSUME HInv, [LinuxNext]_linux_vars
    PROVE  HInv'
<1>1. IInv' /\ SInv'
  BY CoreStep DEF HInv
<1>2. 0 \notin live'
  BY <1>1 DEF IInv, TypeOK
<1>3. CASE MemoryKept /\ UNCHANGED <<heap_limit, heap_owner>>
  BY <1>1, <1>2, <1>3, LimitStays DEF HInv
<1>4. ASSUME NEW t, NEW b \in Breaks, BrkGrow(t, b) PROVE HInv'
  BY <1>1, <1>4, GrowInv DEF HInv
<1>5. ASSUME NEW t, NEW n \in Lengths, NEW access \in Accesses, Mmap(t, n, access) PROVE HInv'
  <2>1. PICK pages : pages = Pages(n)
    OBVIOUS
  <2>. QED
    BY <2>1, <1>3, <1>5, AllocateKeeps DEF Mmap, heap_vars, HInv
<1>6. ASSUME NEW s \in DOMAIN sessions, Fork(s) PROVE HInv'
  <2>1. PICK parent : parent = sessions[s].token
    OBVIOUS
  <2>2. CreateChildToken(s, 3, parent, FORK_LIMIT, FORK_CAPS, FORK_TICKS) /\ UNCHANGED heap_vars
    BY <1>6, <2>1 DEF Fork
  <2>. QED
    BY <2>2, <1>3, CreateKeeps DEF heap_vars, HInv
<1>7. ASSUME NEW b \in Breaks, BrkWithin(b) PROVE HInv'
  BY <1>7, <1>3, NextKeeps DEF BrkWithin, HInv
<1>8. CASE [Next]_vars /\ UNCHANGED heap_vars
  BY <1>8, <1>3, NextKeeps DEF heap_vars, HInv
<1>. QED
  BY <1>4, <1>5, <1>6, <1>7, <1>8 DEF LinuxNext, linux_vars

LEMMA LinuxInitInv == LinuxInit => HInv
<1>. SUFFICES ASSUME LinuxInit PROVE HInv
  OBVIOUS
<1>1. IInv /\ SInv
  BY InitInv, InitSessions DEF LinuxInit
<1>2. HeapTyped
  BY LinuxAssumption DEF LinuxInit, HeapTyped
<1>3. 0 \notin live
  BY <1>1 DEF IInv, TypeOK
<1>. QED
  BY <1>1, <1>2, <1>3 DEF HInv, LimitIsMemory, LinuxInit

(* What the core keeps it keeps under brk, mmap and fork too.              *)
THEOREM LinuxKeepsCore == LinuxSpec => [](BlocksAccounted /\ NoDanglingMapping /\ VmasDisjoint /\ TwoRunsEach)
<1>1. HInv => BlocksAccounted /\ NoDanglingMapping /\ VmasDisjoint /\ TwoRunsEach
  BY LayoutDisjoint, TwoRunsHold DEF HInv, IInv
<1>. QED
  BY <1>1, LinuxInitInv, LinuxNextInv, PTL DEF LinuxSpec

(* The heap's limit is in memory of whoever paid for it last, however the  *)
(* processes that share the break take turns.                              *)
THEOREM HeapLimitIsMemory == LinuxSpec => []LimitIsMemory
<1>1. HInv => LimitIsMemory
  BY DEF HInv
<1>. QED
  BY <1>1, LinuxInitInv, LinuxNextInv, PTL DEF LinuxSpec

(* A step of the Linux layer that is none of the core's allocates memory,  *)
(* creates a token or leaves the core alone; nobody leaves the map on it.  *)
LEMMA LinuxOnTime ==
    ASSUME HInv, NotOverdue, [LinuxNext]_linux_vars
    PROVE  /\ NotOverdue'
           /\ \A t \in live :
                 t \in live' <=> (tokens[t].is_permanent = "permanent" \/ tick_count' <= Due(t))
<1>. DEFINE Goal ==
              /\ NotOverdue'
              /\ \A t \in live :
                    t \in live' <=> (tokens[t].is_permanent = "permanent" \/ tick_count' <= Due(t))
<1>0. IInv
  BY DEF HInv
<1>1. ASSUME [Next]_vars PROVE Goal
  BY <1>0, <1>1, NextNotOverdue, LeavesWhenDue
<1>2. ASSUME NEW t, NEW pages, NEW access, AllocateMemory(t, pages, access) PROVE Goal
  <2>1. live' = live /\ tick_count' = tick_count
    BY <1>2 DEF AllocateMemory
  <2>. QED
    BY <1>0, <1>2, <2>1, AllocateNotOverdue, NobodyLeaves
<1>3. ASSUME NEW s \in DOMAIN sessions, Fork(s) PROVE Goal
  <2>1. PICK parent : parent = sessions[s].token
    OBVIOUS
  <2>2. CreateChildToken(s, 3, parent, FORK_LIMIT, FORK_CAPS, FORK_TICKS)
    BY <1>3, <2>1 DEF Fork
  <2>3. live \subseteq live' /\ tick_count' = tick_count
    BY <2>2 DEF CreateChildToken
  <2>. QED
    BY <1>0, <2>2, <2>3, ForkArguments, CreateNotOverdue, NobodyLeaves
<1>4. ASSUME NEW t, NEW b, BrkGrow(t, b) PROVE Goal
  <2>1. PICK pages : pages = Pages(b - heap_limit)
    OBVIOUS
  <2>2. AllocateMemory(t, pages, "rw")
    BY <1>4, <2>1 DEF BrkGrow
  <2>. QED
    BY <2>2, <1>2
<1>5. ASSUME NEW t, NEW n, NEW access, Mmap(t, n, access) PROVE Goal
  <2>1. PICK pages : pages = Pages(n)
    OBVIOUS
  <2>2. AllocateMemory(t, pages, access)
    BY <1>5, <2>1 DEF Mmap
  <2>. QED
    BY <2>2, <1>2
<1>6. ASSUME NEW b, BrkWithin(b) PROVE Goal
  BY <1>6, <1>1 DEF BrkWithin
<1>7. ASSUME UNCHANGED linux_vars PROVE Goal
  BY <1>7, <1>1 DEF linux_vars
<1>. QED
  BY <1>1, <1>3, <1>4, <1>5, <1>6, <1>7 DEF LinuxNext

(* Tokens of the Linux layer, forked ones too, leave the map on time.      *)
THEOREM LinuxExpiryOnTime == LinuxSpec => ReclaimedOnTime
<1>1. LinuxInit => HInv /\ NotOverdue
  BY LinuxInitInv, InitNotOverdue DEF LinuxInit
<1>2. (HInv /\ NotOverdue) /\ [LinuxNext]_linux_vars => (HInv /\ NotOverdue)'
  BY LinuxNextInv, LinuxOnTime
<1>3. (HInv /\ NotOverdue) /\ [LinuxNext]_linux_vars =>
         [\A t \in live :
            t \in live' <=> (tokens[t].is_permanent = "permanent" \/ tick_count' <= Due(t))]_vars
  BY LinuxOnTime
<1>. QED
  BY <1>1, <1>2, <1>3, PTL DEF LinuxSpec, ReclaimedOnTime

(* Sessions only join the list: their token and their expiry stay what     *)
(* rust_run_process made them, and the clock does not go back.             *)
SessionsKept ==
    /\ DOMAIN sessions \subseteq DOMAIN sessions'
    /\ \A s \in DOMAIN sessions : /\ sessions'[s].token = sessions[s].token
                                  /\ sessions'[s].expiry_tick = sessions[s].expiry_tick
    /\ tick_count <= tick_count'

LEMMA NextKeepsSessions == ASSUME IInv, [Next]_vars PROVE SessionsKept
<1>0. sessions \in Seq(Session) /\ tick_count \in Nat /\ \A s \in DOMAIN sessions : sessions[s] \in Session
  BY BoundAssumption DEF IInv, TypeOK
<1>1. CASE UNCHANGED <<sessions, tick_count>>
  BY <1>0, <1>1 DEF SessionsKept
<1>2. ASSUME NEW t, NEW lifetime, RunProcess(t, lifetime) PROVE SessionsKept
  <2>1. PICK ses : sessions' = Append(sessions, ses) /\ tick_count' = tick_count
    BY <1>2 DEF RunProcess
  <2>2. /\ DOMAIN sessions' = 1 .. Len(sessions) + 1 /\ DOMAIN sessions = 1 .. Len(sessions)
        /\ Len(sessions) \in Nat
        /\ \A s \in DOMAIN sessions : sessions'[s] = sessions[s]
    BY <2>1, <1>0
  <2>3. DOMAIN sessions \subseteq DOMAIN sessions'
    BY <2>2
  <2>. QED
    BY <2>1, <2>2, <2>3, <1>0 DEF SessionsKept
<1>3. ASSUME NEW image, SpawnProcess(image) PROVE SessionsKept
  <2>. DEFINE e == [sessions[1] EXCEPT !.is_active = "active"]
  <2>1. 1 \in DOMAIN sessions /\ sessions' = [sessions EXCEPT ![1] = e] /\ tick_count' = tick_count
    BY <1>3, Zenon DEF SpawnProcess
  <2>2. e.token = sessions[1].token /\ e.expiry_tick = sessions[1].expiry_tick
    BY <2>1, <1>0 DEF Session
  <2>. HIDE DEF e
  <2>3. DOMAIN sessions' = DOMAIN sessions /\ \A s \in DOMAIN sessions : sessions'[s] = IF s = 1 THEN e ELSE sessions[s]
    BY <2>1, <1>0
  <2>. QED
    BY <2>1, <2>2, <2>3, <1>0 DEF SessionsKept
<1>4. CASE KernelTick
  <2>1. sessions' = activate(sessions) /\ tick_count' = tick_count + 1
    BY <1>4 DEF KernelTick
  <2>2. tick_count <= tick_count'
    BY <2>1, <1>0
  <2>. QED
    BY <2>1, <2>2, ActivateEffect DEF SessionsKept, IInv
<1>. QED
  BY <1>1, <1>2, <1>3, <1>4 DEF Next, CreateChildToken, AllocateMemory, SpawnPanic, vars

LEMMA LinuxKeeps ==
    ASSUME HInv, [LinuxNext]_linux_vars
    PROVE  MemoryKept /\ SessionsKept
<1>0. ASSUME UNCHANGED <<sessions, tick_count>> PROVE SessionsKept
  <2>1. tick_count \in Nat
    BY BoundAssumption DEF HInv, IInv, TypeOK
  <2>. QED
    BY <2>1, <1>0 DEF SessionsKept
<1>1. CASE [Next]_vars
  BY <1>1, NextKeeps, NextKeepsSessions DEF HInv
<1>2. ASSUME NEW t, NEW pages, NEW access, AllocateMemory(t, pages, access)
      PROVE  MemoryKept /\ SessionsKept
  BY <1>0, <1>2, AllocateKeeps DEF AllocateMemory, HInv
<1>3. ASSUME NEW s \in DOMAIN sessions, Fork(s) PROVE MemoryKept /\ SessionsKept
  <2>1. PICK parent : parent = sessions[s].token
    OBVIOUS
  <2>2. CreateChildToken(s, 3, parent, FORK_LIMIT, FORK_CAPS, FORK_TICKS)
    BY <1>3, <2>1 DEF Fork
  <2>3. UNCHANGED <<sessions, tick_count>>
    BY <2>2 DEF CreateChildToken
  <2>. QED
    BY <1>0, <2>2, <2>3, CreateKeeps DEF HInv
<1>4. ASSUME NEW t, NEW b, BrkGrow(t, b) PROVE MemoryKept /\ SessionsKept
  <2>1. PICK pages : pages = Pages(b - heap_limit)
    OBVIOUS
  <2>2. AllocateMemory(t, pages, "rw")
    BY <1>4, <2>1 DEF BrkGrow
  <2>. QED
    BY <2>2, <1>2
<1>5. ASSUME NEW t, NEW n, NEW access, Mmap(t, n, access) PROVE MemoryKept /\ SessionsKept
  <2>1. PICK pages : pages = Pages(n)
    OBVIOUS
  <2>2. AllocateMemory(t, pages, access)
    BY <1>5, <2>1 DEF Mmap
  <2>. QED
    BY <2>2, <1>2
<1>6. ASSUME NEW b, BrkWithin(b) PROVE MemoryKept /\ SessionsKept
  BY <1>6, <1>1 DEF BrkWithin
<1>7. CASE UNCHANGED linux_vars
  BY <1>7, <1>1 DEF linux_vars
<1>. QED
  BY <1>1, <1>3, <1>4, <1>5, <1>6, <1>7 DEF LinuxNext

(* A session is refused because it has expired or because its token lacks  *)
(* the capability; neither is ever undone.                                 *)
LEMMA StaysRefused ==
    ASSUME HInv, HInv', MemoryKept, SessionsKept, NEW s \in DOMAIN sessions, ~sys_socket(s)
    PROVE  ~sys_socket(s)'
<1>1. sessions[s] \in Session /\ tick_count \in Nat
  BY BoundAssumption DEF HInv, IInv, TypeOK
<1>2. sessions[s].is_active = "active" /\ sessions[s].token \in DOMAIN tokens /\ sessions[s].expiry_tick \in Nat
  BY <1>1 DEF HInv, SInv, SessionsOwned, Session
<1>3. /\ sessions'[s].token = sessions[s].token
      /\ sessions'[s].expiry_tick = sessions[s].expiry_tick
      /\ tick_count <= tick_count' /\ tick_count' \in Nat
  BY BoundAssumption DEF SessionsKept, HInv, IInv, TypeOK
<1>4. CASE tick_count > sessions[s].expiry_tick
  <2>1. ~ (tick_count' <= sessions'[s].expiry_tick)
    BY <1>1, <1>2, <1>3, <1>4
  <2>. QED
    BY <2>1 DEF sys_socket, check_capability
<1>5. CASE NET_CONNECT \notin tokens[sessions[s].token].capabilities
  <2>1. NET_CONNECT \notin tokens'[sessions'[s].token].capabilities
    BY <1>2, <1>3, <1>5 DEF MemoryKept
  <2>. QED
    BY <2>1 DEF sys_socket, check_capability
<1>6. ~ (tick_count <= sessions[s].expiry_tick) => tick_count > sessions[s].expiry_tick
  BY <1>1, <1>2
<1>. QED
  BY <1>2, <1>4, <1>5, <1>6 DEF sys_socket, check_capability

(* A session that was refused a socket once is refused for ever.           *)
THEOREM RefusalsStand == LinuxSpec => RefusedForGood
<1>1. HInv /\ [LinuxNext]_linux_vars =>
         [\A s \in DOMAIN sessions : ~sys_socket(s) => ~sys_socket(s)']_linux_vars
  BY LinuxNextInv, LinuxKeeps, StaysRefused
<1>. QED
  BY <1>1, LinuxInitInv, LinuxNextInv, PTL DEF LinuxSpec, RefusedForGood

=============================================================================
