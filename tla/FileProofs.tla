----------------------------- MODULE FileProofs -----------------------------
(***************************************************************************)
(* The bytes of a file.  For every input: the run-length codec returns what *)
(* it was given, or nothing (module Rle).  For every geometry and image of  *)
(* an ext2 disk: a file is read in order up to its first hole (Ext2), a     *)
(* path resolves as its names say, and ls lists what resolves (Ext2Dir).    *)
(*                                                                         *)
(* Induction over data is by the least counterexample (LeastOf).           *)
(***************************************************************************)
EXTENDS Rle, Ext2Dir, SequenceTheorems, WellFoundedInduction, TLAPS

LEMMA LeastOf ==
    ASSUME NEW S \in SUBSET Nat, S # {}
    PROVE  \E m \in S : \A n \in S : m <= n
<1>1. PICK m \in S : \A n \in S : <<n, m>> \notin OpToRel(<, Nat)
  BY NatLessThanWellFounded, WFMin
<1>2. \A n \in Nat : n < m => <<n, m>> \in OpToRel(<, Nat)
  BY Zenon DEF OpToRel
<1>3. \A n \in S : ~(n < m)
  BY <1>1, <1>2, Zenon
<1>. QED
  BY <1>3

-----------------------------------------------------------------------------
(* The codec.                                                              *)

Stored == 0 .. BYTE - 1
RleTyped ==
    /\ input \in Seq(Stored) /\ src \in Seq(Stored) /\ dest \in Seq(Stored)
    /\ calls \in {"both", "decompress"} /\ i \in Nat /\ max_len \in Nat
    /\ stage \in {"compress", "decompress", "done", "zero"}
Compressing ==
    stage = "compress" =>
        /\ calls = "both" /\ src = input /\ i <= Len(input)
        /\ Len(dest) % 2 = 0 /\ Len(dest) <= 2 * i
        /\ Expanded(dest)[Len(dest) \div 2] = i
        /\ StandFor(dest, Len(dest) \div 2, input)
Decompressing ==
    stage \in {"decompress", "done"} =>
        /\ i % 2 = 0 /\ i \div 2 <= Len(src) \div 2
        /\ Len(dest) = Expanded(src)[i \div 2] /\ StandFor(src, i \div 2, dest)
        /\ calls = "both" => Len(src) % 2 = 0 /\ Len(src) <= 2 * Len(input) /\ Expands(src, input)
Returned ==
    /\ stage = "done" => Len(src) % 2 = 0 /\ i >= Len(src) /\ Len(dest) <= max_len
    /\ stage = "zero" /\ calls = "both" => max_len < 2 * Len(input)
RleInv == RleTyped /\ Compressing /\ Decompressing /\ Returned

LEMMA GreatestOf ==
    ASSUME NEW S \in SUBSET Nat, S # {}, NEW b \in Nat, \A n \in S : n <= b
    PROVE  Max(S) \in S /\ \A n \in S : n <= Max(S)
<1>. DEFINE upper == {m \in Nat : \A n \in S : n <= m}
<1>1. PICK m \in upper : \A n \in upper : m <= n
  <2>1. b \in upper
    OBVIOUS
  <2>. QED BY <2>1, LeastOf
<1>2. m \in Nat /\ \A n \in S : n \in Nat /\ n <= m
  BY <1>1
<1>3. m \in S
  <2>1. SUFFICES ASSUME m \notin S PROVE FALSE
    OBVIOUS
  <2>2. \A n \in S : n \in Nat /\ n <= m - 1
    BY <1>2, <2>1
  <2>3. m - 1 \in Nat
    <3>1. PICK n \in S : n \in Nat /\ n <= m - 1
      BY <2>2
    <3>. QED BY <3>1, <1>2
  <2>4. m - 1 \in upper
    BY <2>2, <2>3
  <2>. QED BY <1>1, <1>2, <2>4
<1>. QED
  BY <1>2, <1>3 DEF Max

-----------------------------------------------------------------------------
(* Expanded is the running sum it is written as.                           *)
IsSum(s, h, n) == h \in [0 .. n -> Nat] /\ h[0] = 0 /\ \A k \in 1 .. n : h[k] = h[k - 1] + s[2 * k - 1]

LEMMA SumExists ==
    ASSUME NEW s \in Seq(Nat), NEW n \in 0 .. Len(s) \div 2
    PROVE  \E h : IsSum(s, h, n)
<1>. DEFINE bad == {m \in Nat : m <= Len(s) \div 2 /\ ~ \E h : IsSum(s, h, m)}
<1>1. SUFFICES ASSUME bad # {} PROVE FALSE
  OBVIOUS
<1>2. PICK m \in bad : \A k \in bad : m <= k
  BY <1>1, LeastOf
<1>3. m \in Nat /\ m <= Len(s) \div 2
  BY <1>2
<1>4. CASE m = 0
  <2>1. IsSum(s, [k \in 0 .. 0 |-> 0], 0)
    BY DEF IsSum
  <2>. QED BY <1>2, <1>4, <2>1
<1>5. CASE m # 0
  <2>1. m - 1 \in Nat /\ m - 1 <= Len(s) \div 2 /\ m - 1 \notin bad
    BY <1>2, <1>3, <1>5
  <2>2. PICK h : IsSum(s, h, m - 1)
    BY <2>1
  <2>3. s[2 * m - 1] \in Nat
    BY <1>3, <1>5
  <2>. DEFINE g == [k \in 0 .. m |-> IF k = m THEN h[m - 1] + s[2 * m - 1] ELSE h[k]]
  <2>4. h[m - 1] \in Nat /\ \A k \in 0 .. m - 1 : h[k] \in Nat
    BY <2>2, <2>1 DEF IsSum
  <2>5. g \in [0 .. m -> Nat]
    BY <2>3, <2>4, <1>3
  <2>6. g[0] = 0
    BY <2>2, <1>3, <1>5 DEF IsSum
  <2>7. ASSUME NEW k \in 1 .. m PROVE g[k] = g[k - 1] + s[2 * k - 1]
    <3>1. k \in 0 .. m /\ k - 1 \in 0 .. m - 1 /\ k - 1 # m /\ k - 1 \in 0 .. m
      BY <1>3
    <3>2. g[k - 1] = h[k - 1]
      BY <3>1
    <3>3. CASE k = m
      BY <3>1, <3>2, <3>3
    <3>4. CASE k # m
      BY <3>1, <3>2, <3>4, <2>2 DEF IsSum
    <3>. QED BY <3>3, <3>4
  <2>8. IsSum(s, g, m)
    BY <2>5, <2>6, <2>7 DEF IsSum
  <2>. QED BY <1>2, <2>8
<1>. QED BY <1>4, <1>5

LEMMA ExpandedDef ==
    ASSUME NEW s \in Seq(Nat)
    PROVE  /\ Expanded(s) \in [0 .. Len(s) \div 2 -> Nat]
           /\ Expanded(s)[0] = 0
           /\ \A k \in 1 .. Len(s) \div 2 : Expanded(s)[k] = Expanded(s)[k - 1] + s[2 * k - 1]
<1>. DEFINE n == Len(s) \div 2
<1>1. n \in Nat
  OBVIOUS
<1>2. PICK h : IsSum(s, h, n)
  BY <1>1, SumExists
<1>3. h = [k \in 0 .. n |-> IF k = 0 THEN 0 ELSE h[k - 1] + s[2 * k - 1]]
  BY <1>2, <1>1 DEF IsSum
<1>4. Expanded(s) = [k \in 0 .. n |-> IF k = 0 THEN 0 ELSE Expanded(s)[k - 1] + s[2 * k - 1]]
  BY <1>3, Zenon DEF Expanded
<1>. DEFINE e == Expanded(s)
<1>5. e = [k \in 0 .. n |-> IF k = 0 THEN 0 ELSE e[k - 1] + s[2 * k - 1]]
  BY <1>4
<1>. HIDE DEF n, e
<1>6. e[0] = 0 /\ \A k \in 1 .. n : e[k] = e[k - 1] + s[2 * k - 1]
  BY <1>5, <1>1
<1>7. \A k \in 0 .. n : e[k] \in Nat
  <2>. DEFINE bad == {k \in Nat : k <= n /\ e[k] \notin Nat}
  <2>1. SUFFICES ASSUME bad # {} PROVE FALSE
    BY <1>1
  <2>2. PICK m \in bad : \A k \in bad : m <= k
    BY <2>1, LeastOf
  <2>3. m \in Nat /\ m <= n /\ m # 0
    BY <2>2, <1>6
  <2>4. m - 1 \in Nat /\ e[m - 1] \in Nat
    BY <2>2, <2>3, <1>1
  <2>5. s[2 * m - 1] \in Nat
    BY <2>3, <1>1 DEF n
  <2>6. e[m] = e[m - 1] + s[2 * m - 1]
    BY <2>3, <1>6, <1>1
  <2>. QED BY <2>2, <2>4, <2>5, <2>6
<1>8. e \in [0 .. n -> Nat]
  BY <1>5, <1>7
<1>. QED
  BY <1>6, <1>8 DEF e, n

(* The running sum depends on the pairs it runs over only.                  *)
LEMMA SumOfPrefix ==
    ASSUME NEW s \in Seq(Nat), NEW t \in Seq(Nat), NEW n \in Nat,
           n <= Len(s) \div 2, n <= Len(t) \div 2, \A k \in 1 .. 2 * n : s[k] = t[k]
    PROVE  \A k \in 0 .. n : Expanded(s)[k] = Expanded(t)[k]
<1>. DEFINE e == Expanded(s)
            f == Expanded(t)
            bad == {k \in Nat : k <= n /\ e[k] # f[k]}
<1>1. e[0] = 0 /\ \A k \in 1 .. n : e[k] = e[k - 1] + s[2 * k - 1]
  BY ExpandedDef
<1>2. f[0] = 0 /\ \A k \in 1 .. n : f[k] = f[k - 1] + t[2 * k - 1]
  BY ExpandedDef
<1>. HIDE DEF e, f
<1>3. SUFFICES ASSUME bad # {} PROVE FALSE
  BY DEF e, f
<1>4. PICK m \in bad : \A k \in bad : m <= k
  BY <1>3, LeastOf
<1>5. m \in Nat /\ m <= n /\ m # 0
  BY <1>4, <1>1, <1>2
<1>6. m - 1 \in Nat /\ e[m - 1] = f[m - 1]
  BY <1>4, <1>5
<1>7. 2 * m - 1 \in 1 .. 2 * n
  BY <1>5
<1>8. s[2 * m - 1] = t[2 * m - 1]
  BY <1>7
<1>. QED
  BY <1>1, <1>2, <1>4, <1>5, <1>6, <1>8

(* Every place up to the sum is one some pair stands for ...               *)
LEMMA SomePair ==
    ASSUME NEW s \in Seq(Nat), NEW n \in 0 .. Len(s) \div 2, NEW j \in 1 .. Expanded(s)[n]
    PROVE  \E k \in 1 .. n : j \in Expanded(s)[k - 1] + 1 .. Expanded(s)[k]
<1>. DEFINE e == Expanded(s)
            above == {k \in Nat : k <= n /\ j <= e[k]}
<1>0. n \in Nat /\ n <= Len(s) \div 2 /\ 0 .. n \subseteq 0 .. Len(s) \div 2
  OBVIOUS
<1>1. n \in Nat /\ e[0] = 0 /\ \A k \in 0 .. n : e[k] \in Nat
  BY <1>0, ExpandedDef
<1>. HIDE DEF e
<1>2. j \in Nat /\ j # 0 /\ j <= e[n]
  BY <1>1 DEF e
<1>3. n \in above
  BY <1>1, <1>2
<1>4. PICK m \in above : \A k \in above : m <= k
  BY <1>3, LeastOf
<1>5. m \in Nat /\ m <= n /\ m # 0 /\ j <= e[m]
  BY <1>1, <1>2, <1>4
<1>6. m - 1 \in Nat /\ m - 1 \notin above
  BY <1>4, <1>5
<1>7. ~ j <= e[m - 1] /\ e[m - 1] \in Nat /\ e[m] \in Nat
  BY <1>1, <1>5, <1>6
<1>8. m \in 1 .. n /\ j \in e[m - 1] + 1 .. e[m]
  BY <1>2, <1>5, <1>7
<1>. QED
  BY <1>8 DEF e

(* ... so the pairs determine the bytes.                                   *)
LEMMA OneExpansion ==
    ASSUME NEW s \in Seq(Nat), NEW a \in Seq(Nat), NEW b \in Seq(Nat), Expands(s, a), Expands(s, b)
    PROVE  a = b
<1>. DEFINE n == Len(s) \div 2
<1>0. n \in Nat /\ n \in 0 .. Len(s) \div 2
  OBVIOUS
<1>1. Len(a) = Len(b) /\ Len(a) = Expanded(s)[n]
  BY DEF Expands
<1>2. ASSUME NEW j \in 1 .. Len(a) PROVE a[j] = b[j]
  <2>1. PICK k \in 1 .. n : j \in Expanded(s)[k - 1] + 1 .. Expanded(s)[k]
    BY <1>0, <1>1, SomePair
  <2>2. a[j] = s[2 * k] /\ b[j] = s[2 * k]
    BY <2>1 DEF Expands, StandFor
  <2>. QED BY <2>2
<1>. QED
  BY <1>1, <1>2, SeqEqual

LEMMA SumGrows ==
    ASSUME NEW s \in Seq(Nat), NEW n \in 0 .. Len(s) \div 2, NEW k \in 1 .. n,
           NEW j \in Expanded(s)[k - 1] + 1 .. Expanded(s)[k]
    PROVE  j \in 1 .. Expanded(s)[n]
<1>. DEFINE e == Expanded(s)
            bad == {m \in Nat : k <= m /\ m <= n /\ ~(e[k] <= e[m])}
<1>1. /\ n \in Nat /\ k \in Nat /\ k <= n /\ k >= 1 /\ \A m \in 0 .. n : e[m] \in Nat
      /\ \A m \in 1 .. n : e[m] = e[m - 1] + s[2 * m - 1] /\ s[2 * m - 1] \in Nat
  <2>1. n \in Nat /\ 0 .. n \subseteq 0 .. Len(s) \div 2 /\ 1 .. n \subseteq 1 .. Len(s) \div 2
    OBVIOUS
  <2>2. \A m \in 1 .. n : 2 * m - 1 \in 1 .. Len(s)
    BY <2>1
  <2>3. \A m \in 1 .. n : s[2 * m - 1] \in Nat
    BY <2>2, ElementOfSeq
  <2>4. /\ \A m \in 0 .. n : e[m] \in Nat
        /\ \A m \in 1 .. n : e[m] = e[m - 1] + s[2 * m - 1]
    BY <2>1, ExpandedDef
  <2>. QED BY <2>1, <2>3, <2>4
<1>. HIDE DEF e
<1>2. bad = {}
  <2>1. SUFFICES ASSUME bad # {} PROVE FALSE
    OBVIOUS
  <2>2. PICK m \in bad : \A x \in bad : m <= x
    BY <2>1, LeastOf
  <2>3. m \in Nat /\ k <= m /\ m <= n /\ ~(e[k] <= e[m]) /\ k \in 0 .. n /\ e[k] \in Nat
    BY <2>2, <1>1
  <2>4. m # k
    BY <2>3, <1>1
  <2>5. m - 1 \in Nat /\ k <= m - 1 /\ m - 1 \in 0 .. n /\ m - 1 \notin bad
    BY <2>2, <2>3, <2>4, <1>1
  <2>6. e[k] <= e[m - 1] /\ e[m - 1] \in Nat
    BY <2>3, <2>5, <1>1
  <2>7. e[m] = e[m - 1] + s[2 * m - 1] /\ s[2 * m - 1] \in Nat
    BY <2>3, <1>1
  <2>. QED BY <2>3, <2>6, <2>7
<1>3. e[k - 1] \in Nat /\ e[k] \in Nat /\ e[n] \in Nat
  BY <1>1
<1>4. e[k] <= e[n]
  <2>1. n \notin bad
    BY <1>2
  <2>. QED BY <2>1, <1>1
<1>5. j \in 1 .. e[n]
  <2>1. PICK x, y, z : x = e[k - 1] /\ y = e[k] /\ z = e[n]
    OBVIOUS
  <2>2. x \in Nat /\ y \in Nat /\ z \in Nat /\ y <= z
    BY <1>3, <1>4, <2>1
  <2>3. j \in x + 1 .. y
    BY <2>1 DEF e
  <2>4. j \in 1 .. z
    BY <2>2, <2>3
  <2>. QED BY <2>1, <2>4
<1>. QED
  BY <1>5 DEF e

-----------------------------------------------------------------------------
(* The run at the next byte: at least that byte, at most what a count holds *)
LEMMA RunLen ==
    ASSUME RleTyped, i < Len(src)
    PROVE  /\ run_len \in 1 .. BYTE - 1 /\ i + run_len <= Len(src)
           /\ \A k \in 1 .. run_len : src[i + k] = src[i + 1]
<1>. DEFINE Run(n) == i + n <= Len(src) /\ \A k \in 1 .. n : src[i + k] = src[i + 1]
            runs_ == {n \in 1 .. longest_run : Run(n)}
<1>1. BYTE \in Nat /\ BYTE >= 2 /\ i \in Nat /\ Len(src) \in Nat
  BY RleAssumption DEF RleTyped
<1>2. 1 \in runs_ /\ runs_ \subseteq 1 .. BYTE - 1
  BY <1>1 DEF longest_run
<1>3. runs_ \in SUBSET Nat /\ BYTE - 1 \in Nat /\ \A n \in runs_ : n <= BYTE - 1
  <2>. HIDE DEF runs_
  <2>. QED BY <1>1, <1>2
<1>8. run_len \in runs_
  <2>1. Max(runs_) \in runs_
    <3>. HIDE DEF runs_
    <3>. QED BY <1>2, <1>3, GreatestOf
  <2>2. run_len = Max(runs_)
    BY DEF run_len
  <2>. QED BY <2>1, <2>2, Zenon
<1>. QED
  BY <1>1, <1>2, <1>8

LEMMA RleInitInv == RleInit => RleInv
<1>. SUFFICES ASSUME RleInit PROVE RleInv
  OBVIOUS
<1>1. PICK m \in 0 .. MaxLen : input \in [1 .. m -> Bytes]
  BY DEF RleInit, BoundedSeq, SeqOf
<1>2. input \in Seq(Stored)
  <2>1. input \in Seq(Bytes)
    BY <1>1
  <2>. QED BY <2>1, RleAssumption, SeqMonotonic DEF Stored
<1>3. RleTyped
  BY <1>2, RleAssumption DEF RleInit, RleTyped
<1>4. <<>> \in Seq(Nat) /\ Len(<<>>) = 0 /\ 0 \div 2 = 0
  OBVIOUS
<1>5. Expanded(<<>>)[0] = 0
  BY <1>4, ExpandedDef
<1>6. src \in Seq(Nat)
  BY <1>3, RleAssumption, SeqMonotonic DEF RleTyped, Stored
<1>7. Expanded(src)[0] = 0
  BY <1>6, ExpandedDef
<1>8. StandFor(<<>>, 0, input) /\ StandFor(src, 0, <<>>)
  BY DEF StandFor
<1>9. Compressing
  BY <1>2, <1>4, <1>5, <1>8 DEF RleInit, Compressing
<1>10. Decompressing
  BY <1>2, <1>4, <1>7, <1>8 DEF RleInit, Decompressing
<1>. QED
  BY <1>3, <1>9, <1>10 DEF RleInv, RleInit, Returned

(* When all pairs are consumed, what is written is what they stand for.    *)
LEMMA ReadWhole ==
    ASSUME RleTyped, Decompressing, stage \in {"decompress", "done"}, Len(src) % 2 = 0, i >= Len(src)
    PROVE  Expands(src, dest)
<1>1. i \div 2 = Len(src) \div 2
  BY DEF RleTyped, Decompressing
<1>. QED
  BY <1>1 DEF Decompressing, Expands

LEMMA DoneExpands == ASSUME RleInv, stage = "done" PROVE Expands(src, dest)
  BY ReadWhole DEF RleInv, Returned

(* A run becomes a pair that stands for it.                                *)
LEMMA CompressLoopInv == ASSUME RleInv, CompressLoop PROVE RleInv'
<1>. DEFINE r == run_len
            n == Len(dest) \div 2
<1>1. RleTyped /\ stage = "compress" /\ i < Len(src) /\ src = input /\ calls = "both"
  BY DEF RleInv, Compressing, CompressLoop
<1>2. /\ r \in 1 .. BYTE - 1 /\ i + r <= Len(src)
      /\ \A k \in 1 .. r : src[i + k] = src[i + 1]
  BY <1>1, RunLen
<1>. HIDE DEF r
<1>3. r % BYTE = r /\ r \in Nat /\ r >= 1 /\ i \in Nat /\ i + 1 \in 1 .. Len(src)
  BY <1>1, <1>2, RleAssumption DEF RleTyped
<1>4. src[i + 1] \in Stored /\ r \in Stored
  BY <1>1, <1>2, <1>3, RleAssumption DEF RleTyped, Stored
<1>5. PICK d : d = dest \o <<r, src[i + 1]>>
  OBVIOUS
<1>6. dest' = d /\ i' = i + r /\ UNCHANGED <<input, calls, src, max_len, stage>>
  BY <1>3, <1>5 DEF CompressLoop, r
<1>7. /\ dest \in Seq(Stored) /\ d \in Seq(Stored) /\ Len(d) = Len(dest) + 2
      /\ \A k \in 1 .. Len(dest) : d[k] = dest[k]
      /\ d[Len(dest) + 1] = r /\ d[Len(dest) + 2] = src[i + 1]
  BY <1>1, <1>4, <1>5 DEF RleTyped
<1>8. /\ Len(dest) \in Nat /\ Len(dest) % 2 = 0 /\ Len(dest) <= 2 * i
      /\ Expanded(dest)[n] = i /\ StandFor(dest, n, input)
  BY <1>1, <1>7 DEF RleInv, Compressing
<1>9. /\ n \in Nat /\ Len(dest) = 2 * n /\ Len(d) = 2 * (n + 1) /\ Len(d) \div 2 = n + 1
      /\ Len(d) % 2 = 0 /\ Len(d) <= 2 * (i + r)
  BY <1>3, <1>7, <1>8
<1>10. dest \in Seq(Nat) /\ d \in Seq(Nat)
  BY <1>7, SeqMonotonic, RleAssumption DEF Stored
<1>. HIDE DEF n
<1>11. \A k \in 0 .. n : Expanded(d)[k] = Expanded(dest)[k]
  <2>1. n <= Len(dest) \div 2 /\ n <= Len(d) \div 2 /\ \A k \in 1 .. 2 * n : d[k] = dest[k]
    BY <1>7, <1>9
  <2>. QED BY <2>1, <1>9, <1>10, SumOfPrefix
<1>12. Expanded(d)[n] = i /\ Expanded(d)[n + 1] = i + r
  <2>1. Expanded(d)[n] = i
    BY <1>8, <1>9, <1>11
  <2>2. n + 1 \in 1 .. Len(d) \div 2 /\ (n + 1) - 1 = n /\ 2 * (n + 1) - 1 = Len(dest) + 1
    BY <1>9
  <2>3. Expanded(d)[n + 1] = Expanded(d)[(n + 1) - 1] + d[2 * (n + 1) - 1]
    BY <2>2, <1>10, ExpandedDef
  <2>. QED BY <2>1, <2>2, <2>3, <1>7
<1>13. StandFor(d, n + 1, input)
  <2>. SUFFICES ASSUME NEW k \in 1 .. n + 1,
                       NEW j \in Expanded(d)[k - 1] + 1 .. Expanded(d)[k]
                PROVE  input[j] = d[2 * k]
    BY DEF StandFor
  <2>1. CASE k = n + 1
    <3>1. j \in i + 1 .. i + r
      BY <2>1, <1>9, <1>12
    <3>2. j - i \in 1 .. r /\ i + (j - i) = j
      BY <3>1, <1>3
    <3>3. input[j] = src[i + 1]
      BY <3>2, <1>2, <1>1
    <3>. QED BY <3>3, <2>1, <1>7, <1>9
  <2>2. CASE k # n + 1
    <3>1. k \in 1 .. n /\ k \in 0 .. n /\ k - 1 \in 0 .. n
      BY <2>2, <1>9
    <3>2. j \in Expanded(dest)[k - 1] + 1 .. Expanded(dest)[k]
      BY <3>1, <1>11
    <3>3. input[j] = dest[2 * k]
      BY <3>1, <3>2, <1>8 DEF StandFor
    <3>4. 2 * k \in 1 .. Len(dest)
      BY <3>1, <1>9
    <3>. QED BY <3>3, <3>4, <1>7
  <2>. QED BY <2>1, <2>2
<1>14. RleTyped'
  BY <1>1, <1>3, <1>6, <1>7 DEF RleTyped
<1>15. Compressing'
  BY <1>1, <1>2, <1>6, <1>9, <1>12, <1>13 DEF Compressing
<1>. QED
  BY <1>1, <1>6, <1>14, <1>15 DEF RleInv, Decompressing, Returned

(* A pair becomes the bytes it stands for.                                 *)
LEMMA DecompressLoopInv == ASSUME RleInv, DecompressLoop PROVE RleInv'
<1>. DEFINE n == i \div 2
            c == src[i + 1]
            b == src[i + 2]
<1>1. /\ RleTyped /\ stage = "decompress" /\ i < Len(src) /\ Len(src) % 2 = 0
      /\ i % 2 = 0 /\ Len(dest) = Expanded(src)[n] /\ StandFor(src, n, dest)
  BY DEF RleInv, Decompressing, DecompressLoop
<1>2. /\ n \in Nat /\ i = 2 * n /\ n + 1 <= Len(src) \div 2 /\ (i + 2) \div 2 = n + 1
      /\ (i + 2) % 2 = 0 /\ i + 1 \in 1 .. Len(src) /\ i + 2 \in 1 .. Len(src) /\ i \in Nat
  <2>1. i \in Nat /\ Len(src) \in Nat
    BY <1>1 DEF RleTyped
  <2>2. n \in Nat /\ i = 2 * n
    BY <1>1, <2>1
  <2>3. Len(src) = 2 * (Len(src) \div 2)
    BY <1>1, <2>1
  <2>4. i + 2 <= Len(src)
    BY <1>1, <2>1, <2>2, <2>3
  <2>. QED BY <2>1, <2>2, <2>3, <2>4
<1>3. c \in Stored /\ b \in Stored /\ c \in Nat
  <2>1. c \in Stored /\ b \in Stored
    BY <1>1, <1>2, ElementOfSeq DEF RleTyped
  <2>. QED BY <2>1, RleAssumption DEF Stored
<1>. HIDE DEF c, b
<1>4. PICK d : d = dest \o [k \in 1 .. c |-> b]
  OBVIOUS
<1>5. dest' = d /\ i' = i + 2 /\ UNCHANGED <<input, calls, src, max_len, stage>>
  BY <1>4 DEF DecompressLoop, c, b
<1>6. [k \in 1 .. c |-> b] \in Seq(Stored) /\ Len([k \in 1 .. c |-> b]) = c
  BY <1>3
<1>7. dest \in Seq(Stored) /\ Len(dest) \in Nat /\ dest \in Seq(Stored)
  BY <1>1 DEF RleTyped
<1>8. /\ d \in Seq(Stored) /\ Len(d) = Len(dest) + c
      /\ \A j \in 1 .. Len(dest) : d[j] = dest[j]
      /\ \A j \in Len(dest) + 1 .. Len(dest) + c : d[j] = b
  BY <1>3, <1>4, <1>6, <1>7
<1>9. src \in Seq(Nat)
  BY <1>1, SeqMonotonic, RleAssumption DEF RleTyped, Stored
<1>. HIDE DEF n
<1>10. Expanded(src)[n + 1] = Len(dest) + c
  <2>1. n + 1 \in 1 .. Len(src) \div 2 /\ (n + 1) - 1 = n /\ 2 * (n + 1) - 1 = i + 1
    BY <1>2
  <2>2. Expanded(src)[n + 1] = Expanded(src)[(n + 1) - 1] + src[2 * (n + 1) - 1]
    BY <2>1, <1>9, ExpandedDef
  <2>. QED BY <2>1, <2>2, <1>1 DEF c
<1>11. StandFor(src, n + 1, d)
  <2>. SUFFICES ASSUME NEW k \in 1 .. n + 1,
                       NEW j \in Expanded(src)[k - 1] + 1 .. Expanded(src)[k]
                PROVE  d[j] = src[2 * k]
    BY DEF StandFor
  <2>1. CASE k = n + 1
    <3>1. j \in Len(dest) + 1 .. Len(dest) + c /\ 2 * k = i + 2
      BY <2>1, <1>1, <1>2, <1>10
    <3>. QED BY <3>1, <1>8 DEF b
  <2>2. CASE k # n + 1
    <3>1. k \in 1 .. n /\ n \in 0 .. Len(src) \div 2
      BY <2>2, <1>2
    <3>2. dest[j] = src[2 * k]
      BY <3>1, <1>1 DEF StandFor
    <3>3. j \in 1 .. Len(dest)
      BY <3>1, <1>1, <1>2, <1>9, SumGrows
    <3>. QED BY <3>2, <3>3, <1>8
  <2>. QED BY <2>1, <2>2
<1>12. RleTyped'
  BY <1>1, <1>2, <1>5, <1>8 DEF RleTyped
<1>13. Decompressing'
  BY <1>1, <1>2, <1>5, <1>8, <1>10, <1>11 DEF Decompressing, RleInv
<1>. QED
  BY <1>1, <1>5, <1>12, <1>13 DEF RleInv, Compressing, Returned

(* The buffer is handed over: what was written stands for the data.        *)
LEMMA CompressEndInv == ASSUME RleInv, CompressFull \/ CompressDone PROVE RleInv'
<1>1. /\ RleTyped /\ stage = "compress" /\ calls = "both" /\ src = input /\ i >= Len(input)
      /\ i <= Len(input) /\ Len(dest) % 2 = 0 /\ Len(dest) <= 2 * i
      /\ Expanded(dest)[Len(dest) \div 2] = i /\ StandFor(dest, Len(dest) \div 2, input)
  BY DEF RleInv, Compressing, CompressFull, CompressDone
<1>2. i \in Nat /\ Len(input) \in Nat /\ i = Len(input) /\ Len(dest) \in Nat /\ max_len \in Nat
  BY <1>1 DEF RleTyped
<1>3. CASE CompressFull
  <2>1. RleTyped'
    BY <1>1, <1>3 DEF CompressFull, RleTyped
  <2>2. Returned'
    BY <1>1, <1>2, <1>3 DEF CompressFull, Returned
  <2>. QED BY <2>1, <2>2, <1>3 DEF CompressFull, RleInv, Compressing, Decompressing
<1>4. CASE CompressDone
  <2>1. RleTyped'
    BY <1>1, <1>4 DEF CompressDone, RleTyped
  <2>2. Expands(dest, input)
    BY <1>1, <1>2 DEF Expands
  <2>3. dest \in Seq(Nat)
    BY <1>1, SeqMonotonic, RleAssumption DEF RleTyped, Stored
  <2>4. Expanded(dest)[0] = 0 /\ StandFor(dest, 0, <<>>) /\ 0 \div 2 = 0 /\ 0 % 2 = 0
    BY <2>3, ExpandedDef DEF StandFor
  <2>5. PICK d : d = dest
    OBVIOUS
  <2>6. src' = d /\ dest' = <<>> /\ i' = 0 /\ stage' = "decompress" /\ input' = input
    BY <1>4, <2>5 DEF CompressDone
  <2>7. Len(d) \div 2 \in Nat /\ Len(d) % 2 = 0 /\ Len(d) <= 2 * Len(input)
    BY <1>1, <1>2, <2>5
  <2>8. Decompressing'
    BY <2>2, <2>4, <2>5, <2>6, <2>7 DEF Decompressing
  <2>. QED BY <2>1, <2>6, <2>8 DEF RleInv, Compressing, Returned
<1>. QED BY <1>3, <1>4

LEMMA DecompressEndInv == ASSUME RleInv, Malformed \/ DecompressEnd PROVE RleInv'
<1>1. CASE Malformed
  <2>1. calls # "both"
    BY <1>1 DEF Malformed, RleInv, Decompressing
  <2>. QED BY <1>1, <2>1 DEF Malformed, RleInv, RleTyped, Compressing, Decompressing, Returned
<1>2. CASE DecompressEnd
  <2>1. /\ RleTyped /\ Decompressing /\ stage = "decompress" /\ Len(src) % 2 = 0 /\ i >= Len(src)
        /\ UNCHANGED <<input, calls, src, i, dest, max_len>>
        /\ stage' = IF Len(dest) > max_len THEN "zero" ELSE "done"
    BY <1>2 DEF DecompressEnd, RleInv, too_long
  <2>2. /\ Len(src) \in Nat /\ i \in Nat /\ Len(dest) \in Nat /\ max_len \in Nat
        /\ Len(input) \in Nat
    BY <2>1 DEF RleTyped
  <2>3. RleTyped' /\ Decompressing' /\ Compressing'
    BY <2>1 DEF RleTyped, Decompressing, Compressing
  <2>4. calls = "both" => Len(dest) = Len(input)
    BY <2>1, <2>2, ReadWhole DEF Decompressing, Expands
  <2>5. Returned'
    BY <2>1, <2>2, <2>4 DEF Returned
  <2>. QED BY <2>3, <2>5 DEF RleInv
<1>. QED BY <1>1, <1>2

LEMMA RleStep == RleInv /\ [RleNext]_rle_vars => RleInv'
<1>. SUFFICES ASSUME RleInv, [RleNext]_rle_vars PROVE RleInv'
  OBVIOUS
<1>1. CASE UNCHANGED rle_vars
  BY <1>1 DEF rle_vars, RleInv, RleTyped, Compressing, Decompressing, Returned
<1>. QED
  BY <1>1, CompressLoopInv, DecompressLoopInv, CompressEndInv, DecompressEndInv DEF RleNext

LEMMA RleInvariance == RleSpec => []RleInv
  BY RleInitInv, RleStep, PTL DEF RleSpec

(* rust_decompress_data, whoever wrote the pairs, for every byte width,     *)
(* data length and buffer size.                                            *)
THEOREM DecompressionIsFaithful == RleSpec => []DecompressorFaithful
<1>1. RleInv => DecompressorFaithful
  BY DoneExpands DEF RleInv, Returned, DecompressorFaithful
<1>. QED
  BY <1>1, RleInvariance, PTL

(* rust_compress_data and rust_decompress_data are inverse, and 0 means a   *)
(* buffer that is too small.                                               *)
THEOREM CodecRoundTrips == RleSpec => []RoundTrip
<1>1. ASSUME RleInv PROVE RoundTrip
  <2>1. ASSUME calls = "both", stage = "done" PROVE dest = input
    <3>1. Expands(src, dest) /\ Expands(src, input)
      BY <1>1, <2>1, DoneExpands DEF RleInv, Decompressing
    <3>2. src \in Seq(Nat) /\ dest \in Seq(Nat) /\ input \in Seq(Nat)
      BY <1>1, SeqMonotonic, RleAssumption DEF RleInv, RleTyped, Stored
    <3>. QED BY <3>1, <3>2, OneExpansion
  <2>. QED BY <1>1, <2>1 DEF RleInv, Returned, RoundTrip
<1>. QED
  BY <1>1, RleInvariance, PTL

-----------------------------------------------------------------------------
(* read_inode_data.  The leaves under a list of pointers of depth d.       *)
Path == Seq(Nat) \ {<<>>}
Leaves(d, ps) ==
    IF d = 0 THEN ps ELSE IF d = 1 THEN Below(ps)
    ELSE IF d = 2 THEN Below(Below(ps)) ELSE Below(Below(Below(ps)))

(* As long as no loop ended before its last pointer, the loops on the stack *)
(* will read the file's blocks from block e[1] on, without a gap: loop k    *)
(* those from block e[k].  Otherwise the dense part has been read.          *)
OnTrack(e) ==
    /\ e \in [1 .. Len(loops) + 1 -> Nat]
    /\ remaining > 0 => Len(data) = e[1] * block_size
    /\ \A k \in 1 .. Len(loops) :
          /\ e[k + 1] = e[k] + Len(Leaves(loops[k].depth, loops[k].pointers))
          /\ \A j \in 1 .. Len(Leaves(loops[k].depth, loops[k].pointers)) :
                FileOrder[e[k] + j] = Leaves(loops[k].depth, loops[k].pointers)[j]
ReadTyped ==
    /\ i_size \in Nat /\ remaining \in Nat /\ Len(data) + remaining = i_size
    /\ data \in Seq(Path \X Nat) /\ loops \in Seq([depth : 0 .. 3, pointers : Seq(Path)])
InOrder == \A j \in 1 .. Len(data) : j <= Dense => data[j] = ByteAt(j)
ReadInv == ReadTyped /\ InOrder /\ (Dense <= Len(data) \/ \E e : OnTrack(e))

LEMMA DivFacts ==
    ASSUME NEW q \in Nat, NEW d \in Nat \ {0}, NEW r \in 0 .. d - 1
    PROVE  (q * d + r) \div d = q /\ (q * d + r) % d = r
  OBVIOUS

LEMMA DivExists ==
    ASSUME NEW x \in Nat, NEW d \in Nat \ {0}
    PROVE  x = (x \div d) * d + (x % d) /\ x \div d \in Nat /\ x % d \in 0 .. d - 1
  OBVIOUS

(* Place n of Below: pointer q + 1 of the list, slot r + 1 of its block.    *)
LEMMA BelowAt ==
    ASSUME NEW ps \in Seq(Path), NEW n \in 1 .. Len(ps) * PTRS
    PROVE  \E q \in 0 .. Len(ps) - 1, r \in 0 .. PTRS - 1 :
              n = q * PTRS + r + 1 /\ Below(ps)[n] = Append(ps[q + 1], r + 1)
<1>. DEFINE q == (n - 1) \div PTRS
            r == (n - 1) % PTRS
<1>1. PTRS \in Nat \ {0} /\ n - 1 \in Nat /\ Len(ps) \in Nat /\ n - 1 < Len(ps) * PTRS
  BY Ext2Assumption
<1>2. n - 1 = q * PTRS + r /\ q \in Nat /\ r \in 0 .. PTRS - 1
  BY <1>1, DivExists
<1>3. Below(ps)[n] = Pointers(ps[q + 1])[r + 1]
  BY DEF Below
<1>. HIDE DEF q, r
<1>4. q * PTRS < Len(ps) * PTRS
  BY <1>1, <1>2
<1>5. q < Len(ps)
  BY <1>1, <1>2, <1>4
<1>6. Pointers(ps[q + 1])[r + 1] = Append(ps[q + 1], r + 1)
  BY <1>1, <1>2 DEF Pointers
<1>. QED
  BY <1>1, <1>2, <1>3, <1>5, <1>6

LEMMA BelowIs ==
    ASSUME NEW ps \in Seq(Path), NEW q \in 0 .. Len(ps) - 1, NEW r \in 0 .. PTRS - 1
    PROVE  /\ q * PTRS + r + 1 \in 1 .. Len(ps) * PTRS
           /\ Below(ps)[q * PTRS + r + 1] = Append(ps[q + 1], r + 1)
<1>1. PTRS \in Nat \ {0} /\ q \in Nat /\ r \in Nat /\ Len(ps) \in Nat /\ q + 1 <= Len(ps)
  BY Ext2Assumption
<1>2. (q + 1) * PTRS <= Len(ps) * PTRS /\ (q + 1) * PTRS = q * PTRS + PTRS /\ q * PTRS \in Nat
  BY <1>1
<1>. DEFINE n == q * PTRS + r + 1
<1>3. n \in 1 .. Len(ps) * PTRS /\ n - 1 = q * PTRS + r
  BY <1>1, <1>2
<1>4. (n - 1) \div PTRS = q /\ (n - 1) % PTRS = r
  <2>1. (q * PTRS + r) \div PTRS = q /\ (q * PTRS + r) % PTRS = r
    BY <1>1, DivFacts
  <2>. HIDE DEF n
  <2>. QED BY <1>3, <2>1
<1>. HIDE DEF n
<1>5. Below(ps)[n] = Pointers(ps[(n - 1) \div PTRS + 1])[((n - 1) % PTRS) + 1]
  BY <1>3 DEF Below
<1>6. Pointers(ps[q + 1])[r + 1] = Append(ps[q + 1], r + 1)
  BY <1>1 DEF Pointers
<1>7. Below(ps)[n] = Append(ps[q + 1], r + 1)
  BY <1>4, <1>5, <1>6
<1>. QED
  BY <1>3, <1>7 DEF n

LEMMA AppendPath == ASSUME NEW p \in Path, NEW k \in Nat PROVE Append(p, k) \in Path
<1>1. p \in Seq(Nat)
  BY DEF Path
<1>2. Append(p, k) \in Seq(Nat) /\ Len(Append(p, k)) = Len(p) + 1
  BY <1>1
<1>. QED
  BY <1>1, <1>2 DEF Path

LEMMA BelowType ==
    ASSUME NEW ps \in Seq(Path)
    PROVE  Below(ps) \in Seq(Path) /\ Len(Below(ps)) = Len(ps) * PTRS /\ Len(ps) * PTRS \in Nat
<1>1. Len(ps) * PTRS \in Nat
  BY Ext2Assumption
<1>2. ASSUME NEW n \in 1 .. Len(ps) * PTRS PROVE Below(ps)[n] \in Path
  <2>1. PICK q \in 0 .. Len(ps) - 1, r \in 0 .. PTRS - 1 : Below(ps)[n] = Append(ps[q + 1], r + 1)
    BY BelowAt
  <2>2. ps[q + 1] \in Path /\ r + 1 \in Nat
    BY Ext2Assumption
  <2>. QED BY <2>1, <2>2, AppendPath
<1>. DEFINE N == Len(ps) * PTRS
<1>3. Below(ps) = [n \in 1 .. N |-> Below(ps)[n]]
  BY DEF Below
<1>. HIDE DEF N
<1>4. Below(ps) \in [1 .. N -> Path]
  BY <1>2, <1>3 DEF N
<1>. QED
  BY <1>1, <1>4 DEF N

LEMMA BelowConcat ==
    ASSUME NEW s \in Seq(Path), NEW t \in Seq(Path)
    PROVE  Below(s \o t) = Below(s) \o Below(t)
<1>1. /\ PTRS \in Nat \ {0} /\ Len(s) \in Nat /\ Len(t) \in Nat
      /\ s \o t \in Seq(Path) /\ Len(s \o t) = Len(s) + Len(t)
  BY Ext2Assumption
<1>2. /\ Below(s) \in Seq(Path) /\ Len(Below(s)) = Len(s) * PTRS
      /\ Below(t) \in Seq(Path) /\ Len(Below(t)) = Len(t) * PTRS
      /\ Below(s \o t) \in Seq(Path) /\ Len(Below(s \o t)) = (Len(s) + Len(t)) * PTRS
      /\ Len(s) * PTRS \in Nat /\ Len(t) * PTRS \in Nat
  BY <1>1, BelowType
<1>3. (Len(s) + Len(t)) * PTRS = Len(s) * PTRS + Len(t) * PTRS
  BY <1>1
<1>4. Len(Below(s) \o Below(t)) = Len(Below(s \o t)) /\ Below(s) \o Below(t) \in Seq(Path)
  <2>1. Len(Below(s) \o Below(t)) = Len(Below(s)) + Len(Below(t)) /\ Below(s) \o Below(t) \in Seq(Path)
    BY <1>2, ConcatProperties
  <2>. QED BY <2>1, <1>2, <1>3
<1>5. ASSUME NEW n \in 1 .. Len(Below(s \o t)) PROVE Below(s \o t)[n] = (Below(s) \o Below(t))[n]
  <2>1. PICK q \in 0 .. Len(s \o t) - 1, r \in 0 .. PTRS - 1 :
          n = q * PTRS + r + 1 /\ Below(s \o t)[n] = Append((s \o t)[q + 1], r + 1)
    <3>1. n \in 1 .. Len(s \o t) * PTRS
      BY <1>1, <1>2
    <3>. QED BY <1>1, <3>1, BelowAt
  <2>2. q \in Nat /\ r \in Nat /\ q * PTRS \in Nat /\ n \in Nat
    BY <1>1, <1>2, <1>3
  <2>3. CASE q < Len(s)
    <3>1. q \in 0 .. Len(s) - 1 /\ (s \o t)[q + 1] = s[q + 1]
      BY <1>1, <2>2, <2>3
    <3>2. n \in 1 .. Len(s) * PTRS /\ Below(s)[n] = Append(s[q + 1], r + 1)
      BY <2>1, <3>1, BelowIs
    <3>3. (Below(s) \o Below(t))[n] = Below(s)[n]
      BY <1>2, <3>2
    <3>. QED BY <2>1, <3>1, <3>2, <3>3
  <2>4. CASE ~(q < Len(s))
    <3>. DEFINE u == q - Len(s)
    <3>1. u \in 0 .. Len(t) - 1 /\ (s \o t)[q + 1] = t[u + 1] /\ u \in Nat /\ q = Len(s) + u
      BY <1>1, <2>1, <2>2, <2>4
    <3>. HIDE DEF u
    <3>2. q * PTRS = Len(s) * PTRS + u * PTRS /\ u * PTRS \in Nat
      BY <1>1, <3>1
    <3>3. u * PTRS + r + 1 \in 1 .. Len(t) * PTRS /\ Below(t)[u * PTRS + r + 1] = Append(t[u + 1], r + 1)
      BY <3>1, BelowIs
    <3>4. n = Len(s) * PTRS + (u * PTRS + r + 1)
      BY <2>1, <2>2, <3>2, <1>2
    <3>. DEFINE w == u * PTRS + r + 1
    <3>5. w \in 1 .. Len(Below(t)) /\ n = Len(Below(s)) + w
      BY <3>3, <3>4, <1>2
    <3>. HIDE DEF w
    <3>6. (Below(s) \o Below(t))[n] = Below(t)[w]
      BY <1>2, <3>5
    <3>. QED BY <2>1, <3>1, <3>3, <3>6 DEF w
  <2>. QED BY <2>3, <2>4
<1>. QED
  BY <1>2, <1>4, <1>5, SeqEqual

LEMMA BelowOne ==
    ASSUME NEW p \in Path
    PROVE  Below(<<p>>) = Pointers(p) /\ Pointers(p) \in Seq(Path) /\ Len(Pointers(p)) = PTRS
<1>1. PTRS \in Nat \ {0} /\ <<p>> \in Seq(Path) /\ Len(<<p>>) = 1 /\ 1 * PTRS = PTRS
  BY Ext2Assumption
<1>2. \A k \in 1 .. PTRS : Append(p, k) \in Path
  BY <1>1, AppendPath
<1>3. Pointers(p) \in Seq(Path) /\ Len(Pointers(p)) = PTRS
  BY <1>1, <1>2 DEF Pointers
<1>4. Below(<<p>>) \in Seq(Path) /\ Len(Below(<<p>>)) = PTRS
  BY <1>1, BelowType
<1>5. ASSUME NEW n \in 1 .. PTRS PROVE Below(<<p>>)[n] = Pointers(p)[n]
  <2>1. n - 1 \in 0 .. PTRS - 1 /\ 0 \in 0 .. Len(<<p>>) - 1 /\ 0 * PTRS + (n - 1) + 1 = n /\ (n - 1) + 1 = n
    BY <1>1
  <2>2. Below(<<p>>)[0 * PTRS + (n - 1) + 1] = Append(<<p>>[0 + 1], (n - 1) + 1)
    BY <1>1, <2>1, BelowIs
  <2>. QED BY <2>1, <2>2 DEF Pointers
<1>. QED
  BY <1>3, <1>4, <1>5, SeqEqual

LEMMA LeavesDown ==
    ASSUME NEW d \in 1 .. 3, NEW ps PROVE Leaves(d, ps) = Leaves(d - 1, Below(ps))
<1>1. d = 1 \/ d = 2 \/ d = 3
  OBVIOUS
<1>. QED
  BY <1>1 DEF Leaves

LEMMA LeavesType ==
    ASSUME NEW d \in 0 .. 3, NEW ps \in Seq(Path)
    PROVE  Leaves(d, ps) \in Seq(Path) /\ Len(Leaves(d, ps)) \in Nat
<1>1. /\ Below(ps) \in Seq(Path) /\ Below(Below(ps)) \in Seq(Path)
      /\ Below(Below(Below(ps))) \in Seq(Path)
  BY BelowType
<1>2. Leaves(d, ps) \in Seq(Path)
  BY <1>1 DEF Leaves
<1>. QED
  BY <1>2

LEMMA LeavesConcat ==
    ASSUME NEW d \in 0 .. 3, NEW s \in Seq(Path), NEW t \in Seq(Path)
    PROVE  Leaves(d, s \o t) = Leaves(d, s) \o Leaves(d, t)
<1>. DEFINE s1 == Below(s)  s2 == Below(s1)  t1 == Below(t)  t2 == Below(t1)
<1>1. s1 \in Seq(Path) /\ s2 \in Seq(Path) /\ t1 \in Seq(Path) /\ t2 \in Seq(Path)
  BY BelowType
<1>2. Below(s \o t) = s1 \o t1 /\ Below(s1 \o t1) = s2 \o t2 /\ Below(s2 \o t2) = Below(s2) \o Below(t2)
  BY <1>1, BelowConcat
<1>. QED
  BY <1>2 DEF Leaves

LEMMA LeavesEmpty == ASSUME NEW d \in 0 .. 3 PROVE Len(Leaves(d, <<>>)) = 0
<1>1. <<>> \in Seq(Path) /\ Len(<<>>) = 0 /\ 0 * PTRS = 0
  BY Ext2Assumption
<1>2. Len(Below(<<>>)) = 0 /\ Below(<<>>) \in Seq(Path)
  BY <1>1, BelowType
<1>3. Below(<<>>) = <<>>
  BY <1>2
<1>. QED
  BY <1>1, <1>3 DEF Leaves

(* The path to a block leads through the pointer p.                        *)
Through(p, q) == Len(p) <= Len(q) /\ \A j \in 1 .. Len(p) : q[j] = p[j]

LEMMA BelowFirst ==
    ASSUME NEW ps \in Seq(Path), ps # <<>>, NEW p \in Path, Through(p, ps[1])
    PROVE  /\ Below(ps) \in Seq(Path) /\ Below(ps) # <<>>
           /\ Below(ps)[1] = Append(ps[1], 1) /\ Through(p, Below(ps)[1])
<1>1. PTRS \in Nat \ {0} /\ Len(ps) \in Nat \ {0} /\ ps[1] \in Path
  BY Ext2Assumption, EmptySeq
<1>2. 0 \in 0 .. Len(ps) - 1 /\ 0 \in 0 .. PTRS - 1 /\ 0 * PTRS + 0 + 1 = 1
  BY <1>1
<1>3. 0 * PTRS + 0 + 1 \in 1 .. Len(ps) * PTRS /\ Below(ps)[0 * PTRS + 0 + 1] = Append(ps[0 + 1], 0 + 1)
  BY <1>2, BelowIs
<1>4. Below(ps)[1] = Append(ps[1], 1) /\ 1 \in 1 .. Len(Below(ps))
  BY <1>2, <1>3, BelowType
<1>5. Below(ps) \in Seq(Path) /\ Below(ps) # <<>>
  BY <1>4, BelowType
<1>6. p \in Seq(Nat) /\ ps[1] \in Seq(Nat)
  BY <1>1 DEF Path
<1>7. Through(p, Append(ps[1], 1))
  BY <1>6 DEF Through
<1>. QED
  BY <1>4, <1>5, <1>7

LEMMA LeavesFirst ==
    ASSUME NEW d \in 0 .. 3, NEW ps \in Seq(Path), ps # <<>>
    PROVE  Len(Leaves(d, ps)) >= 1 /\ Through(ps[1], Leaves(d, ps)[1])
<1>. DEFINE p == ps[1]
<1>1. p \in Path
  BY EmptySeq
<1>2. Through(p, ps[1])
  BY <1>1 DEF Through, Path
<1>. HIDE DEF p
<1>3. Below(ps) \in Seq(Path) /\ Below(ps) # <<>> /\ Through(p, Below(ps)[1])
  BY <1>1, <1>2, BelowFirst
<1>4. Below(Below(ps)) \in Seq(Path) /\ Below(Below(ps)) # <<>> /\ Through(p, Below(Below(ps))[1])
  BY <1>1, <1>3, BelowFirst
<1>5. /\ Below(Below(Below(ps))) \in Seq(Path) /\ Below(Below(Below(ps))) # <<>>
      /\ Through(p, Below(Below(Below(ps)))[1])
  BY <1>1, <1>4, BelowFirst
<1>6. Leaves(d, ps) \in Seq(Path) /\ Leaves(d, ps) # <<>> /\ Through(p, Leaves(d, ps)[1])
  BY <1>2, <1>3, <1>4, <1>5 DEF Leaves
<1>7. Len(Leaves(d, ps)) \in Nat \ {0}
  BY <1>6, EmptySeq
<1>. QED
  BY <1>6, <1>7 DEF p

(* A block behind a pointer that is 0 is a hole.                           *)
LEMMA ZeroIsHole ==
    ASSUME NEW p \in Path, NEW q \in Path, Through(p, q), p \in zero
    PROVE  ~Allocated(q)
<1>1. p \in Seq(Nat) /\ q \in Seq(Nat) /\ Len(p) \in Nat \ {0}
  BY EmptySeq DEF Path
<1>2. Len(p) \in 1 .. Len(q)
  BY <1>1 DEF Through
<1>3. SubSeq(q, 1, Len(p)) = p
  <2>1. \A k \in 1 .. Len(p) : q[k] \in Nat
    BY <1>1, <1>2
  <2>2. SubSeq(q, 1, Len(p)) \in Seq(Nat) /\ Len(SubSeq(q, 1, Len(p))) = Len(p)
    BY <1>1, <1>2
  <2>3. \A k \in 1 .. Len(p) : SubSeq(q, 1, Len(p))[k] = p[k]
    BY <1>1, <1>2 DEF Through
  <2>. QED BY <1>1, <2>2, <2>3, SeqEqual
<1>. QED
  BY <1>2, <1>3 DEF Allocated

LEMMA DenseFacts ==
    ASSUME i_size \in Nat
    PROVE  /\ Dense \in Nat /\ Dense <= i_size
           /\ \A j \in 1 .. i_size : ~Allocated(ByteAt(j)[1]) => Dense < j
<1>. DEFINE holes == {j \in 1 .. i_size : ~Allocated(ByteAt(j)[1])}
<1>1. Dense = IF holes = {} THEN i_size ELSE Min(holes) - 1
  BY DEF Dense
<1>2. CASE holes = {}
  BY <1>1, <1>2
<1>3. CASE holes # {}
  <2>0. holes \in SUBSET Nat
    OBVIOUS
  <2>1. PICK m \in holes : \A n \in holes : m <= n
    <3>. HIDE DEF holes
    <3>. QED BY <1>3, <2>0, LeastOf
  <2>2. Min(holes) \in holes /\ \A n \in holes : Min(holes) <= n
    <3>. HIDE DEF holes
    <3>. QED BY <2>1 DEF Min
  <2>3. Min(holes) \in 1 .. i_size
    BY <2>2
  <2>4. Dense = Min(holes) - 1
    BY <1>1, <1>3
  <2>5. ASSUME NEW j \in 1 .. i_size, ~Allocated(ByteAt(j)[1]) PROVE Dense < j
    <3>1. j \in holes
      BY <2>5
    <3>. HIDE DEF holes
    <3>2. Min(holes) <= j
      BY <2>2, <3>1
    <3>. QED BY <2>3, <2>4, <3>2
  <2>. HIDE DEF holes
  <2>6. Dense \in Nat /\ Dense <= i_size
    BY <2>3, <2>4
  <2>. QED BY <2>5, <2>6
<1>. QED BY <1>2, <1>3

-----------------------------------------------------------------------------
(* The steps of read_inode_data.                                           *)

LEMMA HeadLoop ==
    ASSUME ReadTyped, loops # <<>>
    PROVE  /\ Head(loops) = loops[1] /\ loops[1].depth \in 0 .. 3 /\ loops[1].pointers \in Seq(Path)
           /\ loops[1] = Loop(loops[1].depth, loops[1].pointers)
           /\ Len(loops) \in Nat /\ Len(loops) >= 1
           /\ Tail(loops) \in Seq([depth : 0 .. 3, pointers : Seq(Path)])
           /\ Len(Tail(loops)) = Len(loops) - 1
           /\ \A k \in 1 .. Len(loops) - 1 : Tail(loops)[k] = loops[k + 1]
<1>. DEFINE T == [depth : 0 .. 3, pointers : Seq(Path)]
<1>1. loops \in Seq(T) /\ Len(loops) \in Nat \ {0}
  BY EmptySeq DEF ReadTyped
<1>. HIDE DEF T
<1>2. loops[1] \in T
  BY <1>1, ElementOfSeq
<1>3. /\ Head(loops) = loops[1] /\ Tail(loops) \in Seq(T) /\ Len(Tail(loops)) = Len(loops) - 1
      /\ \A k \in 1 .. Len(loops) - 1 : Tail(loops)[k] = loops[k + 1]
  BY <1>1
<1>4. /\ loops[1].depth \in 0 .. 3 /\ loops[1].pointers \in Seq(Path)
      /\ loops[1] = Loop(loops[1].depth, loops[1].pointers)
  BY <1>2 DEF T, Loop
<1>. QED
  BY <1>1, <1>3, <1>4 DEF T

(* Head and tail of a list of pointers.                                    *)
LEMMA HeadPointer ==
    ASSUME NEW ps \in Seq(Path), ps # <<>>
    PROVE  /\ Head(ps) = ps[1] /\ ps[1] \in Path /\ Tail(ps) \in Seq(Path)
           /\ ps = <<ps[1]>> \o Tail(ps)
<1>1. Len(ps) \in Nat \ {0}
  BY EmptySeq
<1>2. Head(ps) = ps[1] /\ ps[1] \in Path /\ Tail(ps) \in Seq(Path) /\ Len(Tail(ps)) = Len(ps) - 1
      /\ \A k \in 1 .. Len(ps) - 1 : Tail(ps)[k] = ps[k + 1]
  BY <1>1
<1>3. <<ps[1]>> \o Tail(ps) \in Seq(Path) /\ Len(<<ps[1]>> \o Tail(ps)) = Len(ps)
  BY <1>1, <1>2
<1>4. ASSUME NEW k \in 1 .. Len(ps) PROVE (<<ps[1]>> \o Tail(ps))[k] = ps[k]
  <2>1. CASE k = 1
    BY <1>2, <2>1
  <2>2. CASE k # 1
    <3>1. k - 1 \in 1 .. Len(ps) - 1 /\ (k - 1) + 1 = k
      BY <1>1, <2>2
    <3>2. (<<ps[1]>> \o Tail(ps))[k] = Tail(ps)[k - 1]
      BY <1>1, <1>2, <3>1
    <3>. QED BY <1>2, <3>1, <3>2
  <2>. QED BY <2>1, <2>2
<1>5. ps = <<ps[1]>> \o Tail(ps)
  BY <1>3, <1>4, SeqEqual
<1>. QED
  BY <1>2, <1>5

LEMMA DenseUnchanged == ASSUME UNCHANGED <<i_size, zero>> PROVE Dense' = Dense
  BY DEF Dense, ByteAt, Allocated

LEMMA EndLoopInv == ASSUME ReadInv, EndLoop PROVE ReadInv'
<1>1. ReadTyped /\ loops # <<>> /\ InOrder
  BY DEF ReadInv, EndLoop
<1>2. PICK ls : ls = Tail(loops)
  OBVIOUS
<1>3. loops' = ls /\ UNCHANGED <<i_size, zero, data, remaining>> /\ ~runs(Head(loops))
  BY <1>2 DEF EndLoop
<1>4. /\ Head(loops) = loops[1] /\ loops[1].depth \in 0 .. 3 /\ loops[1].pointers \in Seq(Path)
      /\ Len(loops) \in Nat /\ Len(loops) >= 1
      /\ ls \in Seq([depth : 0 .. 3, pointers : Seq(Path)]) /\ Len(ls) = Len(loops) - 1
      /\ \A k \in 1 .. Len(loops) - 1 : ls[k] = loops[k + 1]
  BY <1>1, <1>2, HeadLoop
<1>5. ReadTyped'
  BY <1>1, <1>3, <1>4 DEF ReadTyped
<1>6. InOrder' /\ Dense' = Dense
  BY <1>1, <1>3, DenseUnchanged DEF InOrder, ByteAt
<1>7. CASE Dense <= Len(data)
  BY <1>3, <1>5, <1>6, <1>7 DEF ReadInv
<1>8. CASE \E e : OnTrack(e)
  <2>1. PICK e : OnTrack(e)
    BY <1>8
  <2>. DEFINE ps == loops[1].pointers
              d == loops[1].depth
  <2>2. /\ e \in [1 .. Len(loops) + 1 -> Nat] /\ (remaining > 0 => Len(data) = e[1] * block_size)
        /\ e[2] = e[1] + Len(Leaves(d, ps))
        /\ \A j \in 1 .. Len(Leaves(d, ps)) : FileOrder[e[1] + j] = Leaves(d, ps)[j]
    BY <2>1, <1>4 DEF OnTrack
  <2>3. i_size \in Nat /\ remaining \in Nat /\ Len(data) + remaining = i_size /\ Len(data) \in Nat
    BY <1>1 DEF ReadTyped
  <2>4. Dense \in Nat /\ Dense <= i_size
    BY <2>3, DenseFacts
  <2>5. CASE remaining = 0
    <3>1. Dense <= Len(data)
      BY <2>3, <2>4, <2>5
    <3>. QED BY <3>1, <1>3, <1>5, <1>6 DEF ReadInv
  (* The loop met a pointer that is 0: here the dense part ends.           *)
  <2>6. CASE remaining > 0 /\ ps # <<>>
    <3>1. ps[1] \in zero /\ ps[1] \in Path
      BY <2>6, <1>3, <1>4, HeadPointer DEF runs
    <3>2. Len(Leaves(d, ps)) >= 1 /\ Through(ps[1], Leaves(d, ps)[1]) /\ Leaves(d, ps) \in Seq(Path)
      BY <2>6, <1>4, LeavesFirst, LeavesType
    <3>3. FileOrder[e[1] + 1] = Leaves(d, ps)[1] /\ Leaves(d, ps)[1] \in Path
      BY <2>2, <3>2
    <3>4. ~Allocated(FileOrder[e[1] + 1])
      BY <3>1, <3>2, <3>3, ZeroIsHole
    <3>5. e[1] \in Nat /\ block_size \in Nat \ {0} /\ e[1] * block_size \in Nat
      <4>1. 1 \in 1 .. Len(loops) + 1 /\ e \in [1 .. Len(loops) + 1 -> Nat]
        BY <1>4, <2>2
      <4>2. e[1] \in Nat
        BY <4>1, Zenon
      <4>. QED BY <4>2, Ext2Assumption
    <3>. DEFINE j == Len(data) + 1
    <3>6. j \in 1 .. i_size /\ j - 1 = e[1] * block_size + 0 /\ 0 \in 0 .. block_size - 1
      BY <2>2, <2>3, <2>6, <3>5
    <3>7. (j - 1) \div block_size = e[1]
      <4>1. (e[1] * block_size + 0) \div block_size = e[1]
        BY <3>5, <3>6, DivFacts
      <4>. HIDE DEF j
      <4>. QED BY <3>6, <4>1
    <3>8. ~Allocated(ByteAt(j)[1])
      BY <3>4, <3>7 DEF ByteAt
    <3>9. Dense < j
      BY <2>3, <3>6, <3>8, DenseFacts
    <3>10. Dense <= Len(data)
      BY <2>3, <2>4, <3>9
    <3>. QED BY <3>10, <1>3, <1>5, <1>6 DEF ReadInv
  <2>7. CASE ps = <<>>
    <3>1. Len(Leaves(d, ps)) = 0
      BY <2>7, <1>4, LeavesEmpty
    <3>2. PICK f : f = [k \in 1 .. Len(ls) + 1 |-> e[k + 1]]
      OBVIOUS
    <3>3. f \in [1 .. Len(ls) + 1 -> Nat] /\ f[1] = e[1]
      <4>1. \A k \in 1 .. Len(ls) + 1 : k + 1 \in 1 .. Len(loops) + 1
        BY <1>4
      <4>2. \A k \in 1 .. Len(ls) + 1 : e[k + 1] \in Nat
        BY <4>1, <2>2
      <4>3. e[2] = e[1] /\ 1 \in 1 .. Len(ls) + 1
        BY <3>1, <2>2, <1>4
      <4>. QED BY <3>2, <4>2, <4>3
    <3>4. ASSUME NEW k \in 1 .. Len(ls)
          PROVE  /\ f[k + 1] = f[k] + Len(Leaves(ls[k].depth, ls[k].pointers))
                 /\ \A j \in 1 .. Len(Leaves(ls[k].depth, ls[k].pointers)) :
                       FileOrder[f[k] + j] = Leaves(ls[k].depth, ls[k].pointers)[j]
      <4>1. k + 1 \in 1 .. Len(loops) /\ ls[k] = loops[k + 1] /\ f[k] = e[k + 1] /\ f[k + 1] = e[(k + 1) + 1]
        BY <1>4, <3>2
      <4>. QED BY <4>1, <2>1 DEF OnTrack
    <3>5. OnTrack(f)'
      BY <2>2, <3>3, <3>4, <1>3 DEF OnTrack
    <3>. QED BY <3>5, <1>5, <1>6 DEF ReadInv
  <2>. QED BY <2>3, <2>5, <2>6, <2>7
<1>. QED BY <1>7, <1>8 DEF ReadInv

(* Every byte of the next block has its place in the file.                  *)
LEMMA ByteOfBlock ==
    ASSUME NEW v \in Nat, NEW k \in 1 .. block_size
    PROVE  ByteAt(v * block_size + k) = <<FileOrder[v + 1], k>>
<1>1. block_size \in Nat \ {0} /\ v * block_size \in Nat /\ k - 1 \in 0 .. block_size - 1
  BY Ext2Assumption
<1>. DEFINE j == v * block_size + k
<1>2. j - 1 = v * block_size + (k - 1) /\ (k - 1) + 1 = k
  BY <1>1
<1>3. (v * block_size + (k - 1)) \div block_size = v /\ (v * block_size + (k - 1)) % block_size = k - 1
  BY <1>1, DivFacts
<1>. HIDE DEF j
<1>4. (j - 1) \div block_size = v /\ ((j - 1) % block_size) + 1 = k
  BY <1>2, <1>3
<1>5. ByteAt(j) = <<FileOrder[v + 1], k>>
  BY <1>4 DEF ByteAt
<1>. QED
  BY <1>5 DEF j

LEMMA ToCopy ==
    ASSUME ReadTyped, remaining > 0
    PROVE  /\ to_copy \in 1 .. block_size /\ to_copy <= remaining
           /\ remaining - to_copy > 0 => to_copy = block_size
<1>. DEFINE S == {remaining, block_size}
<1>1. remaining \in Nat /\ block_size \in Nat \ {0} /\ S \in SUBSET Nat
  BY Ext2Assumption DEF ReadTyped
<1>2. \E m \in S : \A n \in S : m <= n
  BY <1>1, LeastOf
<1>3. to_copy \in S /\ \A n \in S : to_copy <= n
  BY <1>2 DEF to_copy, Min
<1>. QED
  BY <1>1, <1>3

LEMMA ConcatAt ==
    ASSUME NEW S, NEW a \in Seq(S), NEW b \in Seq(S)
    PROVE  /\ a \o b \in Seq(S) /\ Len(a \o b) = Len(a) + Len(b)
           /\ \A j \in 1 .. Len(a) : (a \o b)[j] = a[j]
           /\ \A k \in 1 .. Len(b) : (a \o b)[Len(a) + k] = b[k]
<1>1. /\ a \o b \in Seq(S) /\ Len(a \o b) = Len(a) + Len(b) /\ Len(a) \in Nat /\ Len(b) \in Nat
      /\ \A j \in 1 .. Len(a) + Len(b) :
            (a \o b)[j] = IF j <= Len(a) THEN a[j] ELSE b[j - Len(a)]
  BY ConcatProperties, LenProperties
<1>2. ASSUME NEW j \in 1 .. Len(a) PROVE (a \o b)[j] = a[j]
  <2>1. j \in 1 .. Len(a) + Len(b) /\ j <= Len(a)
    BY <1>1
  <2>. QED BY <1>1, <2>1
<1>3. ASSUME NEW k \in 1 .. Len(b) PROVE (a \o b)[Len(a) + k] = b[k]
  <2>1. Len(a) + k \in 1 .. Len(a) + Len(b) /\ ~(Len(a) + k <= Len(a)) /\ (Len(a) + k) - Len(a) = k
    BY <1>1
  <2>. QED BY <1>1, <2>1
<1>. QED
  BY <1>1, <1>2, <1>3

LEMMA CopyBlockInv == ASSUME ReadInv, CopyBlock PROVE ReadInv'
<1>. DEFINE ps == loops[1].pointers
            p == ps[1]
            T == [depth : 0 .. 3, pointers : Seq(Path)]
<1>1. ReadTyped /\ loops # <<>> /\ InOrder /\ runs(Head(loops)) /\ Head(loops).depth = 0
  BY DEF ReadInv, CopyBlock
<1>2. /\ Head(loops) = loops[1] /\ ps \in Seq(Path) /\ loops[1].depth = 0
      /\ loops[1] = Loop(0, ps)
      /\ Len(loops) \in Nat /\ Len(loops) >= 1
      /\ Tail(loops) \in Seq(T) /\ Len(Tail(loops)) = Len(loops) - 1
      /\ \A k \in 1 .. Len(loops) - 1 : Tail(loops)[k] = loops[k + 1]
  BY <1>1, HeadLoop
<1>3. remaining > 0 /\ ps # <<>>
  BY <1>1, <1>2 DEF runs
<1>4. Head(ps) = p /\ p \in Path /\ Tail(ps) \in Seq(Path) /\ ps = <<p>> \o Tail(ps)
  BY <1>2, <1>3, HeadPointer
<1>5. PICK c : c = to_copy
  OBVIOUS
<1>6. c \in 1 .. block_size /\ c <= remaining /\ (remaining - c > 0 => c = block_size)
  BY <1>1, <1>3, <1>5, ToCopy
<1>7. /\ i_size \in Nat /\ remaining \in Nat /\ Len(data) + remaining = i_size /\ Len(data) \in Nat
      /\ data \in Seq(Path \X Nat) /\ loops \in Seq(T) /\ c \in Nat /\ block_size \in Nat \ {0}
  BY <1>1, <1>6, Ext2Assumption DEF ReadTyped
<1>8. PICK ls, da : ls = <<Loop(0, Tail(ps))>> \o Tail(loops) /\ da = data \o [k \in 1 .. c |-> <<p, k>>]
  OBVIOUS
<1>9. loops' = ls /\ data' = da /\ remaining' = remaining - c /\ UNCHANGED <<i_size, zero>>
  <2>1. Head(loops).depth = 0 /\ Head(loops).pointers = ps
    BY <1>2
  <2>2. Advanced = ls
    BY <1>8, <2>1 DEF Advanced
  <2>3. Head(Head(loops).pointers) = p
    BY <1>2, <1>4
  <2>. QED BY <1>5, <1>8, <2>2, <2>3 DEF CopyBlock
<1>. HIDE DEF p, ps, T
<1>10. /\ da \in Seq(Path \X Nat) /\ Len(da) = Len(data) + c
       /\ \A j \in 1 .. Len(data) : da[j] = data[j]
       /\ \A k \in 1 .. c : da[Len(data) + k] = <<p, k>>
  <2>1. PICK b : b = [k \in 1 .. c |-> <<p, k>>]
    OBVIOUS
  <2>2. b \in Seq(Path \X Nat) /\ Len(b) = c /\ \A k \in 1 .. c : b[k] = <<p, k>>
    BY <1>4, <1>7, <2>1
  <2>. HIDE DEF p
  <2>3. da = data \o b
    BY <1>8, <2>1
  <2>4. /\ data \o b \in Seq(Path \X Nat) /\ Len(data \o b) = Len(data) + Len(b)
        /\ \A j \in 1 .. Len(data) : (data \o b)[j] = data[j]
        /\ \A k \in 1 .. Len(b) : (data \o b)[Len(data) + k] = b[k]
    <3>1. PICK S : S = Path \X Nat
      OBVIOUS
    <3>2. data \in Seq(S) /\ b \in Seq(S)
      BY <1>7, <2>2, <3>1
    <3>. QED BY <3>1, <3>2, ConcatAt
  <2>. QED BY <2>2, <2>3, <2>4
<1>11. /\ ls \in Seq(T) /\ Len(ls) = Len(loops) /\ ls[1] = Loop(0, Tail(ps))
       /\ \A k \in 2 .. Len(loops) : ls[k] = loops[k]
  <2>1. Loop(0, Tail(ps)) \in T
    BY <1>4 DEF T, Loop
  <2>2. <<Loop(0, Tail(ps))>> \in Seq(T) /\ Len(<<Loop(0, Tail(ps))>>) = 1
    BY <2>1
  <2>3. /\ ls \in Seq(T) /\ Len(ls) = 1 + Len(Tail(loops))
        /\ \A k \in 1 .. 1 + Len(Tail(loops)) :
              ls[k] = IF k <= 1 THEN <<Loop(0, Tail(ps))>>[k] ELSE Tail(loops)[k - 1]
    BY <1>2, <1>8, <2>2, ConcatProperties
  <2>4. ASSUME NEW k \in 2 .. Len(loops) PROVE ls[k] = loops[k]
    <3>1. k - 1 \in 1 .. Len(loops) - 1 /\ (k - 1) + 1 = k /\ k \in 1 .. 1 + Len(Tail(loops)) /\ ~(k <= 1)
      BY <1>2
    <3>2. Tail(loops)[k - 1] = loops[(k - 1) + 1]
      BY <1>2, <3>1
    <3>3. ls[k] = Tail(loops)[k - 1]
      BY <2>3, <3>1
    <3>. QED BY <3>1, <3>2, <3>3
  <2>. QED BY <1>2, <2>3, <2>4
<1>12. ReadTyped'
  <2>1. remaining - c \in Nat /\ Len(da) + (remaining - c) = i_size
    <3>1. c \in Nat /\ c <= remaining /\ remaining \in Nat /\ Len(data) \in Nat
      BY <1>6, <1>7
    <3>2. Len(da) = Len(data) + c /\ Len(data) + remaining = i_size
      BY <1>7, <1>10
    <3>. QED BY <3>1, <3>2
  <2>. QED BY <2>1, <1>7, <1>9, <1>10, <1>11 DEF ReadTyped, T
<1>13. Dense' = Dense /\ Dense \in Nat
  BY <1>7, <1>9, DenseUnchanged, DenseFacts
<1>14. CASE Dense <= Len(data)
  <2>1. Dense <= Len(da)
    BY <1>7, <1>10, <1>13, <1>14
  <2>2. ASSUME NEW j \in 1 .. Len(da), j <= Dense PROVE da[j] = ByteAt(j)
    <3>1. j \in 1 .. Len(data)
      BY <1>7, <1>13, <1>14, <2>2
    <3>. QED BY <3>1, <1>1, <1>10, <2>2 DEF InOrder
  <2>3. InOrder'
    BY <2>2, <1>9, <1>13 DEF InOrder, ByteAt
  <2>. QED BY <2>1, <2>3, <1>9, <1>12, <1>13 DEF ReadInv
<1>15. CASE \E e : OnTrack(e)
  <2>1. PICK e : OnTrack(e)
    BY <1>15
  <2>2. e \in [1 .. Len(loops) + 1 -> Nat] /\ Len(data) = e[1] * block_size
    BY <2>1, <1>3 DEF OnTrack
  <2>3. 1 \in 1 .. Len(loops) /\ 1 \in 1 .. Len(loops) + 1 /\ 2 \in 1 .. Len(loops) + 1
    BY <1>2
  <2>4. /\ e[2] = e[1] + Len(ps)
        /\ \A j \in 1 .. Len(ps) : FileOrder[e[1] + j] = ps[j]
    BY <2>1, <2>3, <1>2 DEF OnTrack, Leaves, ps
  <2>5. e[1] \in Nat /\ e[2] \in Nat
    BY <2>2, <2>3, Zenon
  <2>6. Len(ps) \in Nat \ {0} /\ Len(Tail(ps)) = Len(ps) - 1
        /\ \A j \in 1 .. Len(ps) - 1 : Tail(ps)[j] = ps[j + 1]
    BY <1>2, <1>3, EmptySeq
  <2>7. FileOrder[e[1] + 1] = p
    BY <2>4, <2>6 DEF p
  (* The new bytes are those of block e[1] + 1 of the file.                *)
  <2>8. ASSUME NEW j \in 1 .. Len(da), j <= Dense PROVE da[j] = ByteAt(j)
    <3>1. CASE j \in 1 .. Len(data)
      BY <2>8, <3>1, <1>1, <1>10 DEF InOrder
    <3>2. CASE j \notin 1 .. Len(data)
      <4>. DEFINE k == j - Len(data)
      <4>1. k \in 1 .. c /\ k \in 1 .. block_size /\ j = Len(data) + k
        BY <1>6, <1>7, <1>10, <3>2
      <4>. HIDE DEF k
      <4>2. ByteAt(e[1] * block_size + k) = <<p, k>>
        BY <2>5, <2>7, <4>1, ByteOfBlock
      <4>. QED BY <4>1, <4>2, <2>2, <1>10
    <3>. QED BY <3>1, <3>2
  <2>9. InOrder'
    BY <2>8, <1>9, <1>13 DEF InOrder, ByteAt
  <2>10. PICK f : f = [k \in 1 .. Len(loops) + 1 |-> IF k = 1 THEN e[1] + 1 ELSE e[k]]
    OBVIOUS
  <2>11. /\ f \in [1 .. Len(loops) + 1 -> Nat] /\ f[1] = e[1] + 1 /\ f[2] = e[2]
         /\ \A k \in 2 .. Len(loops) + 1 : f[k] = e[k]
    BY <2>2, <2>3, <2>5, <2>10
  <2>12. remaining - c > 0 => Len(da) = f[1] * block_size
    <3>1. (e[1] + 1) * block_size = e[1] * block_size + block_size
      BY <2>5, <1>7
    <3>. QED BY <3>1, <2>2, <2>11, <1>6, <1>7, <1>10
  <2>13. ASSUME NEW k \in 1 .. Len(ls)
         PROVE  /\ f[k + 1] = f[k] + Len(Leaves(ls[k].depth, ls[k].pointers))
                /\ \A j \in 1 .. Len(Leaves(ls[k].depth, ls[k].pointers)) :
                      FileOrder[f[k] + j] = Leaves(ls[k].depth, ls[k].pointers)[j]
    <3>1. CASE k = 1
      <4>1. Leaves(ls[k].depth, ls[k].pointers) = Tail(ps)
        BY <3>1, <1>11 DEF Leaves, Loop
      <4>2. f[k + 1] = f[k] + Len(Tail(ps))
        BY <3>1, <2>4, <2>5, <2>6, <2>11
      <4>3. ASSUME NEW j \in 1 .. Len(Tail(ps)) PROVE FileOrder[f[k] + j] = Tail(ps)[j]
        <5>0. j \in Nat /\ j \in 1 .. Len(ps) - 1 /\ j + 1 \in 1 .. Len(ps)
          BY <2>6
        <5>1. f[k] + j = e[1] + (j + 1)
          <6>1. f[k] = e[1] + 1
            BY <3>1, <2>11
          <6>. QED BY <6>1, <5>0, <2>5
        <5>2. FileOrder[e[1] + (j + 1)] = ps[j + 1] /\ Tail(ps)[j] = ps[j + 1]
          BY <5>0, <2>4, <2>6
        <5>. QED BY <5>1, <5>2
      <4>. QED BY <4>1, <4>2, <4>3
    <3>2. CASE k # 1
      <4>1. k \in 2 .. Len(loops) /\ k \in 1 .. Len(loops)
        BY <3>2, <1>2, <1>11
      <4>2. ls[k] = loops[k] /\ f[k] = e[k] /\ f[k + 1] = e[k + 1]
        BY <4>1, <2>11, <1>2, <1>11
      <4>. QED BY <4>1, <4>2, <2>1 DEF OnTrack
    <3>. QED BY <3>1, <3>2
  <2>14. OnTrack(f)'
    BY <2>11, <2>12, <2>13, <1>9, <1>11 DEF OnTrack
  <2>. QED BY <2>9, <2>14, <1>12 DEF ReadInv
<1>. QED BY <1>14, <1>15 DEF ReadInv

(* The leaves under a pointer come before those under the ones after it.   *)
LEMMA LeavesSplit ==
    ASSUME NEW d \in 1 .. 3, NEW ps \in Seq(Path), ps # <<>>
    PROVE  /\ Pointers(ps[1]) \in Seq(Path)
           /\ Leaves(d - 1, Pointers(ps[1])) \in Seq(Path) /\ Leaves(d, Tail(ps)) \in Seq(Path)
           /\ Leaves(d, ps) = Leaves(d - 1, Pointers(ps[1])) \o Leaves(d, Tail(ps))
<1>1. PICK p, t : p = ps[1] /\ t = Tail(ps)
  OBVIOUS
<1>2. p \in Path /\ t \in Seq(Path) /\ ps = <<p>> \o t /\ <<p>> \in Seq(Path)
  BY <1>1, HeadPointer
<1>3. d \in 0 .. 3 /\ d - 1 \in 0 .. 3
  OBVIOUS
<1>4. Leaves(d, <<p>> \o t) = Leaves(d, <<p>>) \o Leaves(d, t)
  BY <1>2, <1>3, LeavesConcat
<1>5. Leaves(d, <<p>>) = Leaves(d - 1, Pointers(p)) /\ Pointers(p) \in Seq(Path)
  BY <1>2, LeavesDown, BelowOne
<1>. QED
  BY <1>1, <1>2, <1>3, <1>4, <1>5, LeavesType

LEMMA ReadPointersInv == ASSUME ReadInv, ReadPointers PROVE ReadInv'
<1>. DEFINE T == [depth : 0 .. 3, pointers : Seq(Path)]
<1>1. ReadTyped /\ loops # <<>> /\ InOrder /\ runs(Head(loops)) /\ Head(loops).depth > 0
  BY DEF ReadInv, ReadPointers
<1>2. PICK d, ps, n : d = loops[1].depth /\ ps = loops[1].pointers /\ n = Len(loops)
  OBVIOUS
<1>3. /\ Head(loops) = loops[1] /\ ps \in Seq(Path) /\ d \in 0 .. 3 /\ loops[1] = Loop(d, ps)
      /\ n \in Nat /\ n >= 1
      /\ Tail(loops) \in Seq(T) /\ Len(Tail(loops)) = n - 1
      /\ \A k \in 1 .. n - 1 : Tail(loops)[k] = loops[k + 1]
  BY <1>1, <1>2, HeadLoop
<1>4. ps # <<>> /\ d \in 1 .. 3
  BY <1>1, <1>2, <1>3 DEF runs
<1>5. PICK L1, L2, in : L1 = Leaves(d - 1, Pointers(ps[1])) /\ L2 = Leaves(d, Tail(ps)) /\ in = Pointers(ps[1])
  OBVIOUS
<1>6. /\ in \in Seq(Path) /\ L1 \in Seq(Path) /\ L2 \in Seq(Path) /\ Leaves(d, ps) = L1 \o L2
      /\ Head(ps) = ps[1] /\ Tail(ps) \in Seq(Path)
  BY <1>3, <1>4, <1>5, LeavesSplit, HeadPointer
<1>7. PICK two, ls : two = <<Loop(d - 1, in), Loop(d, Tail(ps))>> /\ ls = two \o Tail(loops)
  OBVIOUS
<1>. HIDE DEF T
<1>8. two \in Seq(T) /\ Len(two) = 2 /\ two[1] = Loop(d - 1, in) /\ two[2] = Loop(d, Tail(ps))
  <2>1. Loop(d - 1, in) \in T /\ Loop(d, Tail(ps)) \in T
    BY <1>4, <1>6 DEF T, Loop
  <2>. QED BY <1>7, <2>1
<1>9. loops' = ls /\ UNCHANGED <<i_size, zero, data, remaining>>
  <2>1. Head(loops).depth = d /\ Head(loops).pointers = ps /\ Head(Head(loops).pointers) = ps[1]
    BY <1>2, <1>3, <1>6
  <2>2. loops' = <<Loop(d - 1, in)>> \o (<<Loop(d, Tail(ps))>> \o Tail(loops))
    BY <1>5, <2>1 DEF ReadPointers, Advanced
  <2>3. PICK a, b, c : a = Loop(d - 1, in) /\ b = Loop(d, Tail(ps)) /\ c = Tail(loops)
    OBVIOUS
  <2>4. a \in T /\ b \in T /\ c \in Seq(T)
    BY <1>3, <1>8, <2>3, <1>4, <1>6 DEF T, Loop
  <2>5. <<a>> \o (<<b>> \o c) = <<a, b>> \o c
    <3>1. <<a>> \in Seq(T) /\ <<b>> \in Seq(T) /\ <<a, b>> \in Seq(T)
      BY <2>4
    <3>2. (<<a>> \o <<b>>) \o c = <<a>> \o (<<b>> \o c)
      BY <2>4, <3>1, ConcatAssociative
    <3>3. PICK x, y, z : x = <<a>> /\ y = <<b>> /\ z = <<a, b>>
      OBVIOUS
    <3>4. /\ x \in Seq(T) /\ y \in Seq(T) /\ z \in Seq(T) /\ Len(x) = 1 /\ Len(y) = 1 /\ Len(z) = 2
          /\ x[1] = a /\ y[1] = b /\ z[1] = a /\ z[2] = b
      BY <3>1, <3>3
    <3>5. /\ x \o y \in Seq(T) /\ Len(x \o y) = 1 + 1
          /\ \A j \in 1 .. 1 : (x \o y)[j] = x[j]
          /\ \A k \in 1 .. 1 : (x \o y)[1 + k] = y[k]
      <4>1. /\ x \o y \in Seq(T) /\ Len(x \o y) = Len(x) + Len(y)
            /\ \A j \in 1 .. Len(x) : (x \o y)[j] = x[j]
            /\ \A k \in 1 .. Len(y) : (x \o y)[Len(x) + k] = y[k]
        <5>1. x \in Seq(T) /\ y \in Seq(T)
          BY <3>4
        <5>. QED BY <5>1, ConcatAt
      <4>. QED BY <4>1, <3>4
    <3>6. ASSUME NEW k \in 1 .. 2 PROVE (x \o y)[k] = z[k]
      <4>1. k = 1 \/ k = 1 + 1
        OBVIOUS
      <4>. QED BY <4>1, <3>4, <3>5
    <3>7. x \o y = z
      BY <3>4, <3>5, <3>6, SeqEqual
    <3>. QED BY <3>2, <3>3, <3>7
  <2>. QED BY <2>2, <2>3, <2>5, <1>7 DEF ReadPointers
<1>10. /\ ls \in Seq(T) /\ Len(ls) = n + 1 /\ ls[1] = Loop(d - 1, in) /\ ls[2] = Loop(d, Tail(ps))
       /\ \A k \in 3 .. n + 1 : ls[k] = loops[k - 1]
  <2>1. /\ ls \in Seq(T) /\ Len(ls) = Len(two) + Len(Tail(loops))
        /\ \A j \in 1 .. Len(two) : ls[j] = two[j]
        /\ \A k \in 1 .. Len(Tail(loops)) : ls[Len(two) + k] = Tail(loops)[k]
    BY <1>3, <1>7, <1>8, ConcatAt
  <2>2. ASSUME NEW k \in 3 .. n + 1 PROVE ls[k] = loops[k - 1]
    <3>1. k - 2 \in 1 .. n - 1 /\ 2 + (k - 2) = k /\ (k - 2) + 1 = k - 1
      BY <1>3
    <3>2. ls[2 + (k - 2)] = Tail(loops)[k - 2] /\ Tail(loops)[k - 2] = loops[(k - 2) + 1]
      BY <3>1, <2>1, <1>3, <1>8
    <3>. QED BY <3>1, <3>2
  <2>3. ls[1] = two[1] /\ ls[2] = two[2] /\ Len(ls) = n + 1
    BY <2>1, <1>3, <1>8
  <2>. QED BY <2>1, <2>2, <2>3, <1>8
<1>11. ReadTyped' /\ InOrder' /\ Dense' = Dense
  BY <1>1, <1>9, <1>10, DenseUnchanged DEF ReadTyped, InOrder, ByteAt, T
<1>12. CASE Dense <= Len(data)
  BY <1>9, <1>11, <1>12 DEF ReadInv
<1>13. CASE \E e : OnTrack(e)
  <2>1. PICK e : OnTrack(e)
    BY <1>13
  <2>2. e \in [1 .. n + 1 -> Nat] /\ 1 \in 1 .. n + 1 /\ 2 \in 1 .. n + 1 /\ 1 \in 1 .. n
    BY <2>1, <1>2, <1>3 DEF OnTrack
  <2>3. e[1] \in Nat /\ e[2] \in Nat
    BY <2>2, Zenon
  <2>4. /\ e[2] = e[1] + Len(L1 \o L2)
        /\ \A j \in 1 .. Len(L1 \o L2) : FileOrder[e[1] + j] = (L1 \o L2)[j]
    <3>1. /\ e[1 + 1] = e[1] + Len(Leaves(d, ps))
          /\ \A j \in 1 .. Len(Leaves(d, ps)) : FileOrder[e[1] + j] = Leaves(d, ps)[j]
      BY <2>1, <2>2, <1>2 DEF OnTrack
    <3>. QED BY <3>1, <1>6
  <2>5. /\ Len(L1 \o L2) = Len(L1) + Len(L2) /\ Len(L1) \in Nat /\ Len(L2) \in Nat
        /\ \A j \in 1 .. Len(L1) : (L1 \o L2)[j] = L1[j]
        /\ \A k \in 1 .. Len(L2) : (L1 \o L2)[Len(L1) + k] = L2[k]
    BY <1>6, ConcatAt, LenProperties
  <2>6. PICK f : f = [k \in 1 .. n + 2 |-> IF k = 1 THEN e[1] ELSE IF k = 2 THEN e[1] + Len(L1) ELSE e[k - 1]]
    OBVIOUS
  <2>7. /\ f \in [1 .. n + 2 -> Nat] /\ f[1] = e[1] /\ f[2] = e[1] + Len(L1) /\ f[3] = e[2]
        /\ \A k \in 3 .. n + 2 : f[k] = e[k - 1]
    <3>1. ASSUME NEW k \in 3 .. n + 2 PROVE e[k - 1] \in Nat
      <4>1. k - 1 \in 1 .. n + 1
        BY <1>3
      <4>. QED BY <4>1, <2>2
    <3>2. ASSUME NEW k \in 1 .. n + 2 PROVE f[k] \in Nat
      <4>1. k = 1 \/ k = 2 \/ k \in 3 .. n + 2
        BY <1>3
      <4>2. e[1] + Len(L1) \in Nat
        BY <2>3, <2>5
      <4>. QED BY <4>1, <4>2, <2>3, <2>6, <3>1
    <3>3. f \in [1 .. n + 2 -> Nat]
      BY <2>6, <3>2
    <3>4. f[1] = e[1] /\ f[2] = e[1] + Len(L1) /\ f[3] = e[2] /\ \A k \in 3 .. n + 2 : f[k] = e[k - 1]
      BY <1>3, <2>6
    <3>. QED BY <3>3, <3>4
  <2>8. ASSUME NEW k \in 1 .. n + 1
        PROVE  /\ f[k + 1] = f[k] + Len(Leaves(ls[k].depth, ls[k].pointers))
               /\ \A j \in 1 .. Len(Leaves(ls[k].depth, ls[k].pointers)) :
                     FileOrder[f[k] + j] = Leaves(ls[k].depth, ls[k].pointers)[j]
    <3>1. CASE k = 1
      <4>1. Leaves(ls[k].depth, ls[k].pointers) = L1
        BY <3>1, <1>5, <1>10 DEF Loop
      <4>2. \A j \in 1 .. Len(L1) : FileOrder[e[1] + j] = L1[j]
        BY <2>4, <2>5
      <4>. QED BY <3>1, <4>1, <4>2, <2>7
    <3>2. CASE k = 2
      <4>1. Leaves(ls[k].depth, ls[k].pointers) = L2
        BY <3>2, <1>5, <1>10 DEF Loop
      <4>2. ASSUME NEW j \in 1 .. Len(L2) PROVE FileOrder[e[1] + Len(L1) + j] = L2[j]
        <5>1. Len(L1) + j \in 1 .. Len(L1) + Len(L2) /\ e[1] + Len(L1) + j = e[1] + (Len(L1) + j)
          BY <2>3, <2>5
        <5>. QED BY <5>1, <2>4, <2>5
      <4>3. f[k + 1] = f[k] + Len(L2)
        BY <3>2, <2>3, <2>4, <2>5, <2>7
      <4>. QED BY <3>2, <4>1, <4>2, <4>3, <2>7
    <3>3. CASE k # 1 /\ k # 2
      <4>1. k \in 3 .. n + 1 /\ k - 1 \in 1 .. n /\ k + 1 \in 3 .. n + 2 /\ (k + 1) - 1 = (k - 1) + 1 /\ k \in 3 .. n + 2
        BY <3>3, <1>3
      <4>2. ls[k] = loops[k - 1] /\ f[k] = e[k - 1] /\ f[k + 1] = e[(k - 1) + 1]
        BY <4>1, <2>7, <1>10
      <4>3. k - 1 \in 1 .. Len(loops)
        BY <4>1, <1>2
      <4>. QED BY <4>2, <4>3, <2>1 DEF OnTrack
    <3>. QED BY <3>1, <3>2, <3>3
  <2>9. OnTrack(f)'
    <3>1. f \in [1 .. Len(ls) + 1 -> Nat] /\ Len(ls) = n + 1
      <4>1. (n + 1) + 1 = n + 2
        BY <1>3
      <4>. QED BY <4>1, <2>7, <1>10
    <3>2. remaining > 0 => Len(data) = f[1] * block_size
      BY <2>1, <2>7 DEF OnTrack
    <3>. QED BY <3>1, <3>2, <2>8, <1>9 DEF OnTrack
  <2>. QED BY <2>9, <1>11 DEF ReadInv
<1>. QED BY <1>12, <1>13 DEF ReadInv

(* The first loops read the file from its first block to its last.          *)
LEMMA FirstLoops ==
    ASSUME Init
    PROVE  ReadTyped /\ \E e : OnTrack(e)
<1>. DEFINE T == [depth : 0 .. 3, pointers : Seq(Path)]
<1>1. PICK A0 : A0 = [k \in 1 .. DIRECT |-> <<k>>]
  OBVIOUS
<1>2. A0 \in Seq(Path) /\ \A d \in 1 .. 3 : Indirect(d) \in Seq(Path)
  <2>1. DIRECT \in Nat /\ \A k \in Nat : <<k>> \in Path
    <3>1. \A k \in Nat : <<k>> \in Seq(Nat) /\ <<k>> # <<>>
      OBVIOUS
    <3>. QED BY <3>1, Ext2Assumption DEF Path
  <2>2. A0 \in [1 .. DIRECT -> Path]
    BY <1>1, <2>1
  <2>3. ASSUME NEW d \in 1 .. 3 PROVE Indirect(d) \in Seq(Path)
    <3>1. <<DIRECT + d>> \in Path
      BY <2>1
    <3>. QED BY <3>1 DEF Indirect
  <2>. QED BY <2>1, <2>2, <2>3
<1>3. PICK A1, A2, A3 : A1 = Leaves(1, Indirect(1)) /\ A2 = Leaves(2, Indirect(2)) /\ A3 = Leaves(3, Indirect(3))
  OBVIOUS
<1>4. A1 \in Seq(Path) /\ A2 \in Seq(Path) /\ A3 \in Seq(Path)
  BY <1>2, <1>3, LeavesType
<1>5. FileOrder = ((A0 \o A1) \o A2) \o A3
  BY <1>1, <1>3 DEF FileOrder, Leaves
<1>6. PICK l0, l1, l2, l3 : l0 = Len(A0) /\ l1 = Len(A1) /\ l2 = Len(A2) /\ l3 = Len(A3)
  OBVIOUS
<1>7. l0 \in Nat /\ l1 \in Nat /\ l2 \in Nat /\ l3 \in Nat
  BY <1>2, <1>4, <1>6, LenProperties
(* Each part of the file's blocks has its place.                            *)
<1>8. PICK B : B = A0 \o A1
  OBVIOUS
<1>9. PICK C : C = B \o A2
  OBVIOUS
<1>10. /\ B \in Seq(Path) /\ Len(B) = l0 + l1
       /\ \A j \in 1 .. l0 : B[j] = A0[j]
       /\ \A k \in 1 .. l1 : B[l0 + k] = A1[k]
  BY <1>2, <1>4, <1>6, <1>8, ConcatAt
<1>11. /\ C \in Seq(Path) /\ Len(C) = l0 + l1 + l2
       /\ \A j \in 1 .. l0 + l1 : C[j] = B[j]
       /\ \A k \in 1 .. l2 : C[l0 + l1 + k] = A2[k]
  <2>1. A2 \in Seq(Path) /\ B \in Seq(Path)
    BY <1>4, <1>10
  <2>2. /\ B \o A2 \in Seq(Path) /\ Len(B \o A2) = Len(B) + Len(A2)
        /\ \A j \in 1 .. Len(B) : (B \o A2)[j] = B[j]
        /\ \A k \in 1 .. Len(A2) : (B \o A2)[Len(B) + k] = A2[k]
    BY <2>1, ConcatAt
  <2>. QED BY <2>2, <1>6, <1>9, <1>10
<1>12. /\ \A j \in 1 .. l0 + l1 + l2 : FileOrder[j] = C[j]
       /\ \A k \in 1 .. l3 : FileOrder[l0 + l1 + l2 + k] = A3[k]
  BY <1>4, <1>5, <1>6, <1>8, <1>9, <1>11, ConcatAt
<1>13. ASSUME NEW j \in 1 .. l0 PROVE FileOrder[0 + j] = A0[j]
  <2>1. 0 + j = j /\ j \in 1 .. l0 + l1 /\ j \in 1 .. l0 + l1 + l2
    BY <1>7
  <2>. QED BY <2>1, <1>10, <1>11, <1>12
<1>14. ASSUME NEW j \in 1 .. l1 PROVE FileOrder[l0 + j] = A1[j]
  <2>1. l0 + j \in 1 .. l0 + l1 /\ l0 + j \in 1 .. l0 + l1 + l2
    BY <1>7
  <2>. QED BY <2>1, <1>10, <1>11, <1>12
<1>15. ASSUME NEW j \in 1 .. l2 PROVE FileOrder[l0 + l1 + j] = A2[j]
  <2>1. l0 + l1 + j \in 1 .. l0 + l1 + l2
    BY <1>7
  <2>. QED BY <2>1, <1>11, <1>12
(* The loops.                                                               *)
<1>16. PICK one, three : one = <<Loop(0, A0)>> /\ three = [d \in 1 .. 3 |-> Loop(d, Indirect(d))]
  OBVIOUS
<1>17. loops = one \o three
  BY <1>1, <1>16 DEF Init
<1>18. \A d \in 1 .. 3 : Loop(d, Indirect(d)) \in T
  BY <1>2 DEF Loop
<1>19. Loop(0, A0) \in T
  BY <1>2 DEF Loop
<1>. HIDE DEF T
<1>20. one \in Seq(T) /\ Len(one) = 1 /\ one[1] = Loop(0, A0)
  BY <1>16, <1>19
<1>21. three \in Seq(T) /\ Len(three) = 3 /\ \A d \in 1 .. 3 : three[d] = Loop(d, Indirect(d))
  <2>1. three \in [1 .. 3 -> T]
    BY <1>16, <1>18
  <2>. QED BY <2>1, <1>16
<1>22. /\ loops \in Seq(T) /\ Len(loops) = 4
       /\ loops[1] = Loop(0, A0) /\ \A d \in 1 .. 3 : loops[1 + d] = Loop(d, Indirect(d))
  <2>1. /\ one \o three \in Seq(T) /\ Len(one \o three) = Len(one) + Len(three)
        /\ \A j \in 1 .. Len(one) : (one \o three)[j] = one[j]
        /\ \A k \in 1 .. Len(three) : (one \o three)[Len(one) + k] = three[k]
    <3>1. one \in Seq(T) /\ three \in Seq(T)
      BY <1>20, <1>21
    <3>. QED BY <3>1, ConcatAt
  <2>. QED BY <2>1, <1>17, <1>20, <1>21
<1>23. loops[2] = Loop(1, Indirect(1)) /\ loops[3] = Loop(2, Indirect(2)) /\ loops[4] = Loop(3, Indirect(3))
  <2>1. loops[1 + 1] = Loop(1, Indirect(1)) /\ loops[1 + 2] = Loop(2, Indirect(2)) /\ loops[1 + 3] = Loop(3, Indirect(3))
    BY <1>22
  <2>. QED BY <2>1
<1>24. ReadTyped
  <2>1. i_size \in Nat /\ remaining = i_size /\ data = <<>>
    BY Ext2Assumption DEF Init
  <2>2. Len(data) = 0 /\ data \in Seq(Path \X Nat)
    BY <2>1
  <2>. QED BY <2>1, <2>2, <1>22 DEF ReadTyped, T
<1>25. PICK e : e = [k \in 1 .. 5 |-> IF k = 1 THEN 0 ELSE IF k = 2 THEN l0 ELSE IF k = 3 THEN l0 + l1
                                      ELSE IF k = 4 THEN l0 + l1 + l2 ELSE l0 + l1 + l2 + l3]
  OBVIOUS
<1>26. /\ e \in [1 .. 5 -> Nat] /\ e[1] = 0 /\ e[2] = l0 /\ e[3] = l0 + l1
       /\ e[4] = l0 + l1 + l2 /\ e[5] = l0 + l1 + l2 + l3
  BY <1>7, <1>25
<1>27. ASSUME NEW k \in 1 .. Len(loops)
       PROVE  /\ e[k + 1] = e[k] + Len(Leaves(loops[k].depth, loops[k].pointers))
              /\ \A j \in 1 .. Len(Leaves(loops[k].depth, loops[k].pointers)) :
                    FileOrder[e[k] + j] = Leaves(loops[k].depth, loops[k].pointers)[j]
  <2>1. k = 1 \/ k = 2 \/ k = 3 \/ k = 4
    BY <1>22
  <2>2. CASE k = 1
    <3>1. Leaves(loops[k].depth, loops[k].pointers) = A0
      BY <2>2, <1>22 DEF Loop, Leaves
    <3>2. e[k] = 0 /\ e[k + 1] = l0 /\ l0 = 0 + l0 /\ Len(A0) = l0
      BY <2>2, <1>6, <1>7, <1>26
    <3>3. \A j \in 1 .. l0 : FileOrder[e[k] + j] = A0[j]
      BY <3>2, <1>13
    <3>. QED BY <3>1, <3>2, <3>3
  <2>3. CASE k = 2
    <3>1. Leaves(loops[k].depth, loops[k].pointers) = A1
      BY <2>3, <1>3, <1>23 DEF Loop
    <3>2. e[k] = l0 /\ e[k + 1] = l0 + l1 /\ l0 + l1 = l0 + l1 /\ Len(A1) = l1
      BY <2>3, <1>6, <1>7, <1>26
    <3>3. \A j \in 1 .. l1 : FileOrder[e[k] + j] = A1[j]
      BY <3>2, <1>14
    <3>. QED BY <3>1, <3>2, <3>3
  <2>4. CASE k = 3
    <3>1. Leaves(loops[k].depth, loops[k].pointers) = A2
      BY <2>4, <1>3, <1>23 DEF Loop
    <3>. QED BY <3>1, <2>4, <1>6, <1>7, <1>15, <1>26
  <2>5. CASE k = 4
    <3>1. Leaves(loops[k].depth, loops[k].pointers) = A3
      BY <2>5, <1>3, <1>23 DEF Loop
    <3>. QED BY <3>1, <2>5, <1>6, <1>7, <1>12, <1>26
  <2>. QED BY <2>1, <2>2, <2>3, <2>4, <2>5
<1>28. e \in [1 .. Len(loops) + 1 -> Nat] /\ Len(data) = e[1] * block_size
  BY <1>22, <1>26, Ext2Assumption DEF Init
<1>. QED
  BY <1>24, <1>27, <1>28 DEF OnTrack

LEMMA ReadInit == ASSUME DirInit PROVE ReadInv
<1>1. CASE Init
  <2>1. data = <<>>
    BY <1>1 DEF Init
  <2>. QED BY <1>1, <2>1, FirstLoops DEF ReadInv, InOrder
<1>2. CASE i_size = 0 /\ loops = <<>> /\ data = <<>> /\ remaining = 0
  <2>1. ReadTyped /\ InOrder /\ Len(data) = 0
    BY <1>2 DEF ReadTyped, InOrder
  <2>2. Dense <= Len(data)
    BY <1>2, <2>1, DenseFacts
  <2>. QED BY <2>1, <2>2 DEF ReadInv
<1>. QED
  BY <1>1, <1>2 DEF DirInit

LEMMA ReadStep == ASSUME ReadInv, [DirNext]_all_vars PROVE ReadInv'
<1>1. CASE Next
  BY <1>1, EndLoopInv, CopyBlockInv, ReadPointersInv DEF Next
<1>2. CASE UNCHANGED vars
  <2>1. ReadTyped' /\ InOrder' /\ Dense' = Dense
    BY <1>2, DenseUnchanged DEF vars, ReadInv, ReadTyped, InOrder, ByteAt
  <2>2. ASSUME NEW e, OnTrack(e) PROVE OnTrack(e)'
    BY <1>2, <2>2 DEF vars, OnTrack
  <2>3. UNCHANGED data
    BY <1>2 DEF vars
  <2>. QED BY <2>1, <2>2, <2>3 DEF ReadInv
<1>. QED
  BY <1>1, <1>2
  DEF DirNext, all_vars, mount, IndexPanic, EnterDirectory, ScanRecord, NotFound, Resolved, ListRecord, ListEnd

\* Ext2Fs::read_inode_data: for every block size, every number of pointers and
\* every file size, and whatever pointers are 0, the bytes gathered before the
\* first hole are the file's bytes in order.
THEOREM FilesReadInOrder == DirSpec => []ReadInOrder
<1>1. DirInit => ReadInv
  BY ReadInit
<1>2. ReadInv /\ [DirNext]_all_vars => ReadInv'
  BY ReadStep
<1>3. ReadInv => ReadInOrder
  BY DEF ReadInv, ReadTyped, InOrder, ReadInOrder
<1>. QED
  BY <1>1, <1>2, <1>3, PTL DEF DirSpec

-----------------------------------------------------------------------------
(* Recursive functions and flattened sequences.                            *)

(* A recursion on 0 .. n has a solution, for every step function g.         *)
Iterates(f, g, n) == \A k \in 1 .. n : f[k] = g[<<f[k - 1], k>>]

LEMMA RecursionExists ==
    ASSUME NEW S, NEW b \in S, NEW n \in Nat, NEW g \in [S \X (1 .. n) -> S]
    PROVE  \E f \in [0 .. n -> S] : f[0] = b /\ Iterates(f, g, n)
<1>. DEFINE Good(m) == \E f \in [0 .. m -> S] : f[0] = b /\ Iterates(f, g, m)
            bad == {m \in Nat : m <= n /\ ~Good(m)}
<1>1. SUFFICES ASSUME bad # {} PROVE FALSE
  OBVIOUS
<1>2. PICK m \in bad : \A k \in bad : m <= k
  BY <1>1, LeastOf
<1>3. m \in Nat /\ m <= n /\ ~Good(m)
  BY <1>2
<1>4. CASE m = 0
  <2>1. [k \in 0 .. 0 |-> b] \in [0 .. 0 -> S] /\ [k \in 0 .. 0 |-> b][0] = b
    OBVIOUS
  <2>2. Iterates([k \in 0 .. 0 |-> b], g, 0)
    BY DEF Iterates
  <2>. QED BY <1>3, <1>4, <2>1, <2>2
<1>5. CASE m # 0
  <2>1. m - 1 \in Nat /\ m - 1 <= n
    BY <1>3, <1>5
  <2>2. m - 1 \notin bad
    BY <1>2, <1>3, <1>5
  <2>3. Good(m - 1)
    BY <2>1, <2>2
  <2>4. PICK h \in [0 .. m - 1 -> S] : h[0] = b /\ Iterates(h, g, m - 1)
    BY <2>3
  <2>5. m - 1 \in 0 .. m - 1 /\ h[m - 1] \in S
    BY <2>1
  <2>6. <<h[m - 1], m>> \in S \X (1 .. n)
    BY <1>3, <1>5, <2>5
  <2>7. g[<<h[m - 1], m>>] \in S
    BY <2>6
  <2>8. PICK f : f = [k \in 0 .. m |-> IF k = m THEN g[<<h[m - 1], m>>] ELSE h[k]]
    OBVIOUS
  <2>9. ASSUME NEW k \in 0 .. m - 1 PROVE k \in 0 .. m /\ k # m /\ f[k] = h[k] /\ h[k] \in S
    BY <1>3, <2>8
  <2>10. f \in [0 .. m -> S] /\ f[m] = g[<<h[m - 1], m>>]
    <3>1. ASSUME NEW k \in 0 .. m PROVE k = m \/ k \in 0 .. m - 1
      BY <1>3
    <3>. QED BY <3>1, <2>7, <2>8, <2>9, <1>3
  <2>11. ASSUME NEW k \in 1 .. m PROVE f[k] = g[<<f[k - 1], k>>]
    <3>1. k - 1 \in 0 .. m - 1 /\ f[k - 1] = h[k - 1]
      BY <1>3, <2>9
    <3>2. CASE k = m
      BY <3>1, <3>2, <2>10
    <3>3. CASE k # m
      <4>1. k \in 1 .. m - 1 /\ k \in 0 .. m - 1
        BY <1>3, <3>3
      <4>2. f[k] = h[k] /\ h[k] = g[<<h[k - 1], k>>]
        BY <4>1, <2>4, <2>9 DEF Iterates
      <4>. QED BY <3>1, <4>2
    <3>. QED BY <3>2, <3>3
  <2>12. f[0] = b
    BY <1>3, <1>5, <2>1, <2>4, <2>9
  <2>13. Iterates(f, g, m)
    BY <2>11 DEF Iterates
  <2>. QED BY <1>3, <2>10, <2>12, <2>13
<1>. QED
  BY <1>4, <1>5

(* FlattenSeq is the running concatenation it is written as.                *)
Grown(f, seqs) == f[0] = <<>> /\ \A k \in 1 .. Len(seqs) : f[k] = f[k - 1] \o seqs[k]

LEMMA FlattenGrows ==
    ASSUME NEW S, NEW seqs \in Seq(Seq(S))
    PROVE  \E f \in [0 .. Len(seqs) -> Seq(S)] : Grown(f, seqs) /\ FlattenSeq(seqs) = f[Len(seqs)]
<1>. DEFINE n == Len(seqs)
            T == Seq(S)
            g == [x \in T \X (1 .. n) |-> x[1] \o seqs[x[2]]]
<1>1. n \in Nat /\ <<>> \in T
  OBVIOUS
<1>2. \A k \in 1 .. n : seqs[k] \in T
  BY ElementOfSeq
<1>3. ASSUME NEW x \in T, NEW k \in 1 .. n PROVE x \o seqs[k] \in T /\ g[<<x, k>>] = x \o seqs[k]
  <2>1. x \o seqs[k] \in T
    BY <1>2, ConcatProperties
  <2>2. <<x, k>> \in T \X (1 .. n) /\ <<x, k>>[1] = x /\ <<x, k>>[2] = k
    OBVIOUS
  <2>. QED BY <2>1, <2>2
<1>4. g \in [T \X (1 .. n) -> T]
  <2>1. ASSUME NEW x \in T \X (1 .. n) PROVE x[1] \o seqs[x[2]] \in T
    BY <1>3
  <2>. QED BY <2>1
<1>. HIDE DEF g, n, T
<1>5. PICK h \in [0 .. n -> T] : h[0] = <<>> /\ Iterates(h, g, n)
  BY <1>1, <1>4, RecursionExists
<1>6. ASSUME NEW k \in 1 .. n PROVE h[k - 1] \in T /\ h[k] = h[k - 1] \o seqs[k]
  <2>1. k - 1 \in 0 .. n
    BY <1>1
  <2>2. h[k - 1] \in T /\ h[k] = g[<<h[k - 1], k>>]
    BY <2>1, <1>5 DEF Iterates
  <2>. QED BY <2>2, <1>3
<1>7. CASE n = 0
  <2>1. FlattenSeq(seqs) = seqs /\ seqs = <<>>
    BY <1>7, EmptySeq DEF FlattenSeq, n
  <2>. QED BY <1>5, <1>6, <1>7, <2>1 DEF Grown, n, T
<1>8. CASE n # 0
  <2>1. h[1] = seqs[1]
    <3>1. 1 \in 1 .. n /\ 1 - 1 = 0
      BY <1>1, <1>8
    <3>2. h[1] = <<>> \o seqs[1] /\ seqs[1] \in T
      BY <3>1, <1>2, <1>5, <1>6
    <3>. QED BY <3>2, ConcatEmptySeq DEF T
  <2>2. PICK u : u = [k \in 1 .. n |-> h[k]]
    OBVIOUS
  <2>3. u = [k \in 1 .. n |-> IF k = 1 THEN seqs[k] ELSE u[k - 1] \o seqs[k]]
    <3>1. ASSUME NEW k \in 1 .. n PROVE u[k] = IF k = 1 THEN seqs[k] ELSE u[k - 1] \o seqs[k]
      <4>1. CASE k = 1
        BY <4>1, <2>1, <2>2
      <4>2. CASE k # 1
        <5>1. k - 1 \in 1 .. n
          BY <1>1, <4>2
        <5>. QED BY <5>1, <4>2, <2>2, <1>6
      <4>. QED BY <4>1, <4>2
    <3>. QED BY <3>1, <2>2
  <2>. DEFINE v == CHOOSE f : f = [k \in 1 .. n |-> IF k = 1 THEN seqs[k] ELSE f[k - 1] \o seqs[k]]
  <2>4. v = [k \in 1 .. n |-> IF k = 1 THEN seqs[k] ELSE v[k - 1] \o seqs[k]]
    BY <2>3, Zenon
  <2>5. FlattenSeq(seqs) = v[n]
    BY <1>8 DEF FlattenSeq, n
  <2>. HIDE DEF v
  (* The solution is unique.                                                *)
  <2>6. \A k \in 1 .. n : v[k] = h[k]
    <3>. DEFINE wrong == {k \in Nat : k \in 1 .. n /\ v[k] # h[k]}
    <3>1. SUFFICES ASSUME wrong # {} PROVE FALSE
      BY <1>1
    <3>2. PICK m \in wrong : \A k \in wrong : m <= k
      BY <3>1, LeastOf
    <3>3. m \in 1 .. n /\ m \in Nat /\ v[m] # h[m]
      BY <3>2
    <3>4. m # 1
      BY <3>3, <2>1, <2>4
    <3>5. m - 1 \in 1 .. n /\ m - 1 \in Nat
      BY <3>3, <3>4, <1>1
    <3>6. m - 1 \notin wrong
      BY <3>2, <3>3, <3>5
    <3>7. v[m - 1] = h[m - 1]
      BY <3>5, <3>6
    <3>8. v[m] = v[m - 1] \o seqs[m]
      BY <2>4, <3>3, <3>4
    <3>. QED BY <3>3, <3>7, <3>8, <1>6
  <2>7. n \in 1 .. n
    BY <1>1, <1>8
  <2>8. FlattenSeq(seqs) = h[n]
    BY <2>5, <2>6, <2>7
  <2>9. Grown(h, seqs)
    BY <1>5, <1>6 DEF Grown, n
  <2>. QED BY <2>8, <2>9, <1>5 DEF n, T
<1>. QED BY <1>7, <1>8

(* Sequence k of a flattened sequence starts after place st[k].             *)
Placed(seqs, flat, st) ==
    /\ st \in [1 .. Len(seqs) + 1 -> Nat] /\ st[1] = 0 /\ Len(flat) = st[Len(seqs) + 1]
    /\ \A k \in 1 .. Len(seqs) :
          /\ st[k + 1] = st[k] + Len(seqs[k])
          /\ \A j \in 1 .. Len(seqs[k]) : flat[st[k] + j] = seqs[k][j]

LEMMA FlattenPlaces ==
    ASSUME NEW S, NEW seqs \in Seq(Seq(S))
    PROVE  \E st : Placed(seqs, FlattenSeq(seqs), st)
<1>. DEFINE n == Len(seqs)
            T == Seq(S)
<1>1. n \in Nat /\ \A k \in 1 .. n : seqs[k] \in T
  BY ElementOfSeq
<1>2. PICK f \in [0 .. n -> T] : Grown(f, seqs) /\ FlattenSeq(seqs) = f[n]
  BY FlattenGrows
<1>3. \A k \in 1 .. n : f[k] = f[k - 1] \o seqs[k]
  BY <1>2 DEF Grown
<1>4. \A k \in 0 .. n : f[k] \in T
  BY <1>2
<1>. HIDE DEF n
<1>5. ASSUME NEW k \in 1 .. n
      PROVE  /\ Len(f[k - 1]) \in Nat /\ Len(seqs[k]) \in Nat /\ Len(f[k]) = Len(f[k - 1]) + Len(seqs[k])
             /\ \A j \in 1 .. Len(f[k - 1]) : f[k][j] = f[k - 1][j]
             /\ \A j \in 1 .. Len(seqs[k]) : f[k][Len(f[k - 1]) + j] = seqs[k][j]
  <2>1. k - 1 \in 0 .. n
    BY <1>1
  <2>2. f[k - 1] \in Seq(S) /\ seqs[k] \in Seq(S) /\ f[k] = f[k - 1] \o seqs[k]
    BY <1>1, <1>3, <1>4, <2>1
  <2>3. PICK x, y : x = f[k - 1] /\ y = seqs[k]
    OBVIOUS
  <2>4. x \in Seq(S) /\ y \in Seq(S) /\ f[k] = x \o y
    BY <2>2, <2>3
  <2>5. /\ Len(x \o y) = Len(x) + Len(y)
        /\ \A j \in 1 .. Len(x) : (x \o y)[j] = x[j]
        /\ \A j \in 1 .. Len(y) : (x \o y)[Len(x) + j] = y[j]
    BY <2>4, ConcatAt
  <2>6. Len(x) \in Nat /\ Len(y) \in Nat
    BY <2>4, LenProperties
  <2>. QED BY <2>3, <2>4, <2>5, <2>6
(* What is placed stays.                                                    *)
<1>6. ASSUME NEW k \in 0 .. n
      PROVE  \A m \in k .. n : Len(f[k]) <= Len(f[m]) /\ \A j \in 1 .. Len(f[k]) : f[m][j] = f[k][j]
  <2>. DEFINE Same(m) == Len(f[k]) <= Len(f[m]) /\ \A j \in 1 .. Len(f[k]) : f[m][j] = f[k][j]
              wrong == {m \in Nat : m \in k .. n /\ ~Same(m)}
  <2>0. Len(f[k]) \in Nat /\ k \in Nat
    BY <1>4, LenProperties
  <2>1. SUFFICES ASSUME wrong # {} PROVE FALSE
    <3>1. ASSUME wrong = {}, NEW m \in k .. n PROVE Same(m)
      <4>1. m \in Nat
        BY <1>1, <2>0
      <4>. HIDE DEF Same
      <4>. QED BY <3>1, <4>1
    <3>. HIDE DEF wrong
    <3>2. CASE wrong = {}
      BY <3>1, <3>2
    <3>. QED BY <3>2
  <2>2. PICK m \in wrong : \A x \in wrong : m <= x
    BY <2>1, LeastOf
  <2>3. m \in Nat /\ m \in k .. n /\ ~Same(m)
    BY <2>2
  <2>4. m # k
    BY <2>0, <2>3
  <2>5. m - 1 \in Nat /\ m - 1 \in k .. n /\ m \in 1 .. n
    BY <2>0, <2>3, <2>4, <1>1
  <2>6. m - 1 \notin wrong
    BY <2>2, <2>3
  <2>7. Same(m - 1)
    BY <2>5, <2>6
  <2>8. Len(f[m]) = Len(f[m - 1]) + Len(seqs[m]) /\ Len(f[m - 1]) \in Nat /\ Len(seqs[m]) \in Nat
    BY <2>5, <1>5
  <2>9. ASSUME NEW j \in 1 .. Len(f[k]) PROVE f[m][j] = f[k][j]
    <3>1. j \in 1 .. Len(f[m - 1])
      BY <2>0, <2>7, <2>8
    <3>. QED BY <3>1, <2>5, <2>7, <1>5
  <2>10. Len(f[k]) <= Len(f[m])
    <3>1. Len(f[k]) <= Len(f[m - 1])
      BY <2>7
    <3>2. PICK a, b, c, d : a = Len(f[k]) /\ b = Len(f[m - 1]) /\ c = Len(seqs[m]) /\ d = Len(f[m])
      OBVIOUS
    <3>3. a \in Nat /\ b \in Nat /\ c \in Nat /\ d = b + c /\ a <= b
      BY <2>0, <2>8, <3>1, <3>2, Zenon
    <3>4. a <= d
      BY <3>3
    <3>. QED BY <3>2, <3>4, Zenon
  <2>. QED BY <2>3, <2>9, <2>10
<1>7. PICK st : st = [k \in 1 .. n + 1 |-> Len(f[k - 1])]
  OBVIOUS
<1>8. ASSUME NEW k \in 1 .. n + 1 PROVE st[k] = Len(f[k - 1]) /\ st[k] \in Nat
  <2>1. k - 1 \in 0 .. n
    BY <1>1
  <2>2. Len(f[k - 1]) \in Nat
    BY <2>1, <1>4, LenProperties
  <2>. QED BY <1>7, <2>2
<1>9. st \in [1 .. n + 1 -> Nat]
  BY <1>7, <1>8
<1>10. st[1] = 0 /\ st[n + 1] = Len(FlattenSeq(seqs))
  <2>1. 1 \in 1 .. n + 1 /\ n + 1 \in 1 .. n + 1 /\ 1 - 1 = 0 /\ (n + 1) - 1 = n
    BY <1>1
  <2>2. f[0] = <<>> /\ Len(<<>>) = 0
    BY <1>2 DEF Grown
  <2>3. st[1] = Len(f[1 - 1]) /\ st[n + 1] = Len(f[(n + 1) - 1])
    BY <2>1, <1>8
  <2>. QED BY <2>1, <2>2, <2>3, <1>2
<1>11. ASSUME NEW k \in 1 .. n
       PROVE  /\ st[k + 1] = st[k] + Len(seqs[k])
              /\ \A j \in 1 .. Len(seqs[k]) : FlattenSeq(seqs)[st[k] + j] = seqs[k][j]
  <2>1. k \in 1 .. n + 1 /\ k + 1 \in 1 .. n + 1 /\ (k + 1) - 1 = k /\ k \in 0 .. n /\ n \in k .. n
    BY <1>1
  <2>2. st[k] = Len(f[k - 1]) /\ st[k + 1] = Len(f[k])
    BY <2>1, <1>8
  <2>3. ASSUME NEW j \in 1 .. Len(seqs[k]) PROVE FlattenSeq(seqs)[st[k] + j] = seqs[k][j]
    <3>1. Len(f[k - 1]) + j \in 1 .. Len(f[k])
      <4>1. Len(f[k]) = Len(f[k - 1]) + Len(seqs[k]) /\ Len(f[k - 1]) \in Nat /\ Len(seqs[k]) \in Nat
        BY <1>5
      <4>2. PICK b, c, d : b = Len(f[k - 1]) /\ c = Len(seqs[k]) /\ d = Len(f[k])
        OBVIOUS
      <4>3. b \in Nat /\ c \in Nat /\ d = b + c /\ j \in 1 .. c
        BY <4>1, <4>2, Zenon
      <4>4. b + j \in 1 .. d
        BY <4>3
      <4>. QED BY <4>2, <4>4, Zenon
    <3>2. f[n][Len(f[k - 1]) + j] = f[k][Len(f[k - 1]) + j]
      BY <3>1, <2>1, <1>6
    <3>. QED BY <3>2, <2>2, <1>2, <1>5
  <2>. QED BY <2>2, <2>3, <1>5
<1>. QED
  BY <1>9, <1>10, <1>11 DEF Placed, n

-----------------------------------------------------------------------------
(* get_inode and the records of a directory.                                *)
LEMMA InodeIs ==
    ASSUME disk \in Disks, NEW n \in 1 .. inodes_count
    PROVE  Inode(n) = get_inode(n) /\ get_inode(n) \in Inodes
<1>1. PICK t, L : t = disk.tables /\ L = inodes_per_group
  OBVIOUS
<1>2. L \in Nat \ {0} /\ t \in Seq(Seq(Inodes)) /\ \A g \in DOMAIN t : Len(t[g]) = L
  BY <1>1, Ext2DirAssumption
<1>3. Len(t) \in Nat /\ DOMAIN t = 1 .. Len(t) /\ \A g \in 1 .. Len(t) : t[g] \in Seq(Inodes) /\ Len(t[g]) = L
  BY <1>2, LenProperties, ElementOfSeq
<1>4. PICK st : Placed(t, FlattenSeq(t), st)
  BY <1>2, FlattenPlaces
<1>5. st[1] = 0 /\ \A k \in 1 .. Len(t) : st[k + 1] = st[k] + L
  BY <1>3, <1>4 DEF Placed
<1>6. \A k \in 1 .. Len(t) : st[k] = (k - 1) * L
  <2>. DEFINE bad == {k \in Nat : k \in 1 .. Len(t) /\ st[k] # (k - 1) * L}
  <2>1. SUFFICES ASSUME bad # {} PROVE FALSE
    BY <1>3
  <2>2. PICK m \in bad : \A k \in bad : m <= k
    BY <2>1, LeastOf
  <2>3. m \in Nat /\ m \in 1 .. Len(t) /\ st[m] # (m - 1) * L
    BY <2>2
  <2>4. m # 1
    BY <2>3, <1>2, <1>5
  <2>5. m - 1 \in Nat /\ m - 1 \in 1 .. Len(t) /\ (m - 1) + 1 = m
    BY <2>3, <2>4, <1>3
  <2>6. m - 1 \notin bad
    BY <2>2, <2>3
  <2>7. st[m - 1] = (m - 2) * L
    BY <2>5, <2>6
  <2>8. st[m] = st[m - 1] + L
    BY <2>5, <1>5
  <2>9. (m - 2) * L + L = (m - 1) * L
    BY <2>3, <1>2
  <2>. QED BY <2>3, <2>7, <2>8, <2>9
<1>. DEFINE q == (n - 1) \div L
            r == (n - 1) % L
<1>7. n \in Nat \ {0} /\ n - 1 \in Nat /\ n - 1 < L * Len(t)
  BY <1>1, <1>2, <1>3 DEF inodes_count
<1>8. n - 1 = q * L + r /\ q \in Nat /\ r \in 0 .. L - 1
  BY <1>2, <1>7, DivExists
<1>9. get_inode(n) = t[q + 1][r + 1]
  BY <1>1 DEF get_inode, bg_idx
<1>. HIDE DEF q, r
<1>10. q * L < Len(t) * L
  BY <1>2, <1>3, <1>7, <1>8
<1>11. q + 1 \in 1 .. Len(t) /\ r + 1 \in 1 .. L
  <2>1. PICK c : c = Len(t)
    OBVIOUS
  <2>2. c \in Nat /\ L \in Nat \ {0} /\ q \in Nat /\ q * L < c * L
    BY <1>2, <1>3, <1>8, <1>10, <2>1
  <2>3. q < c
    BY <2>2
  <2>. QED BY <1>2, <1>8, <2>1, <2>2, <2>3
<1>12. st[q + 1] = q * L
  <2>1. st[q + 1] = ((q + 1) - 1) * L /\ (q + 1) - 1 = q
    BY <1>6, <1>8, <1>11
  <2>. QED BY <2>1
<1>13. FlattenSeq(t)[st[q + 1] + (r + 1)] = t[q + 1][r + 1]
  <2>1. Len(t[q + 1]) = L
    BY <1>3, <1>11
  <2>. QED BY <2>1, <1>4, <1>11 DEF Placed
<1>14. st[q + 1] + (r + 1) = n
  <2>1. q * L \in Nat
    BY <1>2, <1>8
  <2>. QED BY <2>1, <1>2, <1>7, <1>8, <1>12
<1>15. t[q + 1][r + 1] \in Inodes
  <2>1. t[q + 1] \in Seq(Inodes) /\ r + 1 \in 1 .. Len(t[q + 1])
    BY <1>3, <1>11
  <2>. QED BY <2>1, ElementOfSeq
<1>. QED
  BY <1>1, <1>9, <1>13, <1>14, <1>15 DEF Inode

LEMMA RecordsOf ==
    ASSUME NEW x \in Inodes PROVE x.records \in Seq(Records) /\ x.kind \in {"file", "dir"}
  BY DEF Inodes

(* Record k of a directory is in the slot after st[k], and its rec_len leads *)
(* to the slot of the next.                                                  *)
Walked(records, slots, st) ==
    /\ st \in [1 .. Len(records) + 1 -> Nat] /\ st[1] = 0 /\ Len(slots) = st[Len(records) + 1]
    /\ \A k \in 1 .. Len(records) :
          /\ slots[st[k] + 1] = records[k] /\ st[k] < Len(slots)
          /\ st[k + 1] = st[k] + (IF records[k].rec_len = 0 THEN 1 ELSE records[k].rec_len)

LEMMA DirWalk ==
    ASSUME NEW records \in Seq(Records)
    PROVE  \E st : Walked(records, dir_data(records), st)
<1>. DEFINE n == Len(records)
            Seg(k) == <<records[k]>> \o [j \in 1 .. Max({records[k].rec_len - 1, 0}) |-> Stale]
            segs == [k \in DOMAIN records |-> Seg(k)]
            len(k) == IF records[k].rec_len = 0 THEN 1 ELSE records[k].rec_len
<1>1. n \in Nat /\ DOMAIN records = 1 .. n /\ \A k \in 1 .. n : records[k] \in Records
  BY LenProperties, ElementOfSeq
<1>2. ASSUME NEW k \in 1 .. n
      PROVE  Seg(k) \in Seq(Records) /\ Len(Seg(k)) = len(k) /\ len(k) \in Nat \ {0} /\ Seg(k)[1] = records[k]
  <2>1. PICK r, l : r = records[k] /\ l = records[k].rec_len
    OBVIOUS
  <2>2. r \in Records /\ l \in Nat /\ Stale \in Records
    BY <2>1, <1>1, Ext2DirAssumption DEF Records
  <2>3. PICK x : x = Max({l - 1, 0})
    OBVIOUS
  <2>4. x \in Nat /\ 1 + x = len(k)
    <3>1. CASE l = 0
      <4>1. x = 0
        <5>1. {l - 1, 0} = {-1, 0}
          BY <3>1
        <5>2. Max({-1, 0}) = 0
          BY DEF Max
        <5>. QED BY <2>3, <5>1, <5>2
      <4>. QED BY <4>1, <3>1, <2>1
    <3>2. CASE l # 0
      <4>1. x = l - 1
        <5>1. l - 1 \in Nat
          BY <2>2, <3>2
        <5>2. Max({l - 1, 0}) = l - 1
          BY <5>1 DEF Max
        <5>. QED BY <2>3, <5>2
      <4>. QED BY <4>1, <3>2, <2>1, <2>2
    <3>. QED BY <3>1, <3>2
  <2>5. PICK a, b : a = <<r>> /\ b = [j \in 1 .. x |-> Stale]
    OBVIOUS
  <2>6. Seg(k) = a \o b
    BY <2>1, <2>3, <2>5
  <2>7. a \in Seq(Records) /\ Len(a) = 1 /\ a[1] = r /\ b \in Seq(Records) /\ Len(b) = x
    BY <2>2, <2>4, <2>5
  <2>8. /\ a \o b \in Seq(Records) /\ Len(a \o b) = Len(a) + Len(b)
        /\ \A j \in 1 .. Len(a) : (a \o b)[j] = a[j]
    <3>1. a \in Seq(Records) /\ b \in Seq(Records)
      BY <2>7
    <3>. QED BY <3>1, ConcatAt
  <2>9. (a \o b)[1] = r /\ Len(a \o b) = 1 + x /\ a \o b \in Seq(Records)
    BY <2>7, <2>8
  <2>10. len(k) \in Nat \ {0}
    BY <2>4
  <2>. QED BY <2>1, <2>4, <2>6, <2>9, <2>10
<1>. HIDE DEF Seg, len, n
<1>3. segs = [k \in 1 .. n |-> Seg(k)]
  BY <1>1
<1>4. segs \in [1 .. n -> Seq(Records)] /\ \A k \in 1 .. n : segs[k] = Seg(k)
  BY <1>2, <1>3
<1>5. dir_data(records) = FlattenSeq(segs)
  BY DEF dir_data, Seg
<1>. HIDE DEF segs
<1>6. segs \in Seq(Seq(Records)) /\ Len(segs) = n
  BY <1>1, <1>4
<1>7. PICK st : Placed(segs, dir_data(records), st)
  BY <1>5, <1>6, FlattenPlaces
<1>8. /\ st \in [1 .. n + 1 -> Nat] /\ st[1] = 0 /\ Len(dir_data(records)) = st[n + 1]
      /\ \A k \in 1 .. n : st[k + 1] = st[k] + len(k) /\ dir_data(records)[st[k] + 1] = records[k]
  <2>1. /\ st \in [1 .. n + 1 -> Nat] /\ st[1] = 0 /\ Len(dir_data(records)) = st[n + 1]
        /\ \A k \in 1 .. n : /\ st[k + 1] = st[k] + Len(segs[k])
                             /\ \A j \in 1 .. Len(segs[k]) : dir_data(records)[st[k] + j] = segs[k][j]
    BY <1>6, <1>7 DEF Placed
  <2>2. ASSUME NEW k \in 1 .. n
        PROVE  st[k + 1] = st[k] + len(k) /\ dir_data(records)[st[k] + 1] = records[k]
    <3>1. segs[k] = Seg(k) /\ Len(segs[k]) = len(k) /\ 1 \in 1 .. Len(segs[k]) /\ segs[k][1] = records[k]
      BY <1>2, <1>4
    <3>. QED BY <2>1, <3>1
  <2>. QED BY <2>1, <2>2
<1>9. \A k \in 1 .. n + 1 : st[k] \in Nat
  BY <1>8
(* The slots of later records come later.                                   *)
<1>10. ASSUME NEW k \in 1 .. n PROVE st[k] < st[n + 1]
  <2>. DEFINE bad == {m \in Nat : m \in k + 1 .. n + 1 /\ ~(st[k] < st[m])}
  <2>1. SUFFICES ASSUME bad # {} PROVE FALSE
    <3>1. n + 1 \in Nat /\ n + 1 \in k + 1 .. n + 1
      BY <1>1
    <3>. QED BY <3>1
  <2>2. PICK m \in bad : \A x \in bad : m <= x
    BY <2>1, LeastOf
  <2>3. m \in Nat /\ m \in k + 1 .. n + 1 /\ ~(st[k] < st[m])
    BY <2>2
  <2>4. m - 1 \in Nat /\ m - 1 \in 1 .. n /\ (m - 1) + 1 = m /\ k \in 1 .. n + 1 /\ m - 1 \in 1 .. n + 1
    BY <2>3, <1>1
  <2>5. st[m] = st[m - 1] + len(m - 1) /\ len(m - 1) \in Nat \ {0} /\ st[m - 1] \in Nat /\ st[k] \in Nat
    BY <2>4, <1>2, <1>8, <1>9
  <2>6. m - 1 # k
    BY <2>3, <2>5
  <2>7. m - 1 \in k + 1 .. n + 1
    BY <2>3, <2>4, <2>6, <1>1
  <2>8. m - 1 \notin bad
    BY <2>2, <2>3
  <2>9. st[k] < st[m - 1]
    BY <2>4, <2>7, <2>8
  <2>. QED BY <2>3, <2>5, <2>9
<1>. QED
  BY <1>8, <1>10 DEF Walked, len, n

-----------------------------------------------------------------------------
(* What a name leads to.                                                    *)
LEMMA LeastIn ==
    ASSUME NEW S \in SUBSET Nat, S # {} PROVE Min(S) \in S /\ \A n \in S : Min(S) <= n
  BY LeastOf DEF Min

Named(r, name) == r.inode # 0 /\ text(r.name) = name

Texts == STRING \cup {Empty}

LEMMA TextTyped == ASSUME NEW r \in Records PROVE text(r.name) \in Texts
  BY DEF Records, text, Texts

LEMMA LookupCases ==
    ASSUME disk \in Disks, NEW n \in 1 .. inodes_count, Inode(n).kind = "dir", NEW name
    PROVE  LET records == Inode(n).records
           IN  \/ Lookup(n, name) = 0 /\ \A k \in 1 .. Len(records) : ~Named(records[k], name)
               \/ \E k \in 1 .. Len(records) :
                     /\ Named(records[k], name) /\ \A j \in 1 .. Len(records) : Named(records[j], name) => k <= j
                     /\ Lookup(n, name) = records[k].inode /\ records[k].inode \in Nat \ {0}
<1>1. PICK records : records = Inode(n).records
  OBVIOUS
<1>2. records \in Seq(Records)
  BY <1>1, InodeIs, RecordsOf
<1>3. DOMAIN records = 1 .. Len(records) /\ Len(records) \in Nat /\ \A k \in 1 .. Len(records) : records[k] \in Records
  BY <1>2, LenProperties, ElementOfSeq
<1>. DEFINE hits == {k \in DOMAIN records : records[k].inode # 0 /\ text(records[k].name) = name}
<1>4. hits \in SUBSET Nat /\ \A k : k \in hits <=> k \in 1 .. Len(records) /\ Named(records[k], name)
  BY <1>3 DEF Named
<1>5. Lookup(n, name) = IF hits # {} THEN records[Min(hits)].inode ELSE 0
  BY <1>1 DEF Lookup
<1>. HIDE DEF hits
<1>6. CASE hits = {}
  BY <1>1, <1>4, <1>5, <1>6
<1>7. CASE hits # {}
  <2>1. PICK k : k = Min(hits)
    OBVIOUS
  <2>2. k \in hits /\ \A j \in hits : k <= j
    BY <1>4, <1>7, <2>1, LeastIn
  <2>3. records[k].inode \in Nat \ {0}
    BY <1>3, <1>4, <2>2 DEF Named, Records
  <2>. QED BY <1>1, <1>4, <1>5, <1>7, <2>1, <2>2, <2>3
<1>. QED BY <1>6, <1>7

LEMMA LookupNone ==
    ASSUME NEW n, ~(n \in 1 .. inodes_count /\ Inode(n).kind = "dir"), NEW name PROVE Lookup(n, name) = 0
  BY DEF Lookup

LEMMA LookupType ==
    ASSUME disk \in Disks, NEW n, NEW name PROVE Lookup(n, name) \in Nat
<1>1. CASE ~(n \in 1 .. inodes_count /\ Inode(n).kind = "dir")
  BY <1>1, LookupNone
<1>2. CASE n \in 1 .. inodes_count /\ Inode(n).kind = "dir"
  BY <1>2, LookupCases
<1>. QED BY <1>1, <1>2

(* Trail is the recursion it is written as, and ends in 0 once it reaches 0. *)
LEMMA TrailIs ==
    ASSUME disk \in Disks, path \in Seq(STRING)
    PROVE  Trail[0] = EXT2_ROOT_INODE /\ \A k \in 1 .. Len(path) : Trail[k] = Lookup(Trail[k - 1], path[k])
<1>. DEFINE n == Len(path)
            g == [x \in Nat \X (1 .. n) |-> Lookup(x[1], path[x[2]])]
<1>1. n \in Nat /\ EXT2_ROOT_INODE \in Nat
  BY DEF EXT2_ROOT_INODE
<1>2. ASSUME NEW x \in Nat, NEW k \in 1 .. n PROVE g[<<x, k>>] = Lookup(x, path[k])
  <2>1. <<x, k>> \in Nat \X (1 .. n) /\ <<x, k>>[1] = x /\ <<x, k>>[2] = k
    OBVIOUS
  <2>. QED BY <2>1
<1>3. g \in [Nat \X (1 .. n) -> Nat]
  BY LookupType
<1>. HIDE DEF g, n
<1>4. PICK h \in [0 .. n -> Nat] : h[0] = EXT2_ROOT_INODE /\ Iterates(h, g, n)
  BY <1>1, <1>3, RecursionExists
<1>5. ASSUME NEW k \in 1 .. n PROVE h[k] = Lookup(h[k - 1], path[k])
  <2>1. k - 1 \in 0 .. n
    BY <1>1
  <2>2. h[k - 1] \in Nat /\ h[k] = g[<<h[k - 1], k>>]
    BY <2>1, <1>4 DEF Iterates
  <2>. QED BY <2>2, <1>2
<1>6. h = [k \in 0 .. n |-> IF k = 0 THEN EXT2_ROOT_INODE ELSE Lookup(h[k - 1], path[k])]
  <2>1. ASSUME NEW k \in 0 .. n PROVE h[k] = IF k = 0 THEN EXT2_ROOT_INODE ELSE Lookup(h[k - 1], path[k])
    <3>1. k = 0 \/ k \in 1 .. n
      BY <1>1
    <3>. QED BY <3>1, <1>4, <1>5
  <2>. QED BY <2>1
<1>7. Trail = [k \in 0 .. n |-> IF k = 0 THEN EXT2_ROOT_INODE ELSE Lookup(Trail[k - 1], path[k])]
  BY <1>6, Zenon DEF Trail, n
<1>. DEFINE t == Trail
<1>8. t = [k \in 0 .. n |-> IF k = 0 THEN EXT2_ROOT_INODE ELSE Lookup(t[k - 1], path[k])]
  BY <1>7
<1>. HIDE DEF t
<1>9. ASSUME NEW k \in 1 .. n PROVE k \in 0 .. n /\ k # 0
  BY <1>1
<1>10. 0 \in 0 .. n
  BY <1>1
<1>. QED
  BY <1>8, <1>9, <1>10 DEF t, n

LEMMA TrailEnds ==
    ASSUME disk \in Disks, path \in Seq(STRING), NEW k \in 0 .. Len(path), Trail[k] = 0
    PROVE  Trail[Len(path)] = 0
<1>. DEFINE n == Len(path)
            bad == {m \in Nat : m \in k .. n /\ Trail[m] # 0}
<1>1. n \in Nat /\ k \in Nat
  OBVIOUS
<1>2. SUFFICES ASSUME bad # {} PROVE FALSE
  <2>1. n \in k .. n
    BY <1>1
  <2>. QED BY <1>1, <2>1
<1>3. PICK m \in bad : \A x \in bad : m <= x
  BY <1>2, LeastOf
<1>4. m \in Nat /\ m \in k .. n /\ Trail[m] # 0
  BY <1>3
<1>5. m # k
  BY <1>4
<1>6. m - 1 \in Nat /\ m - 1 \in k .. n /\ m \in 1 .. n
  BY <1>1, <1>4, <1>5
<1>7. m - 1 \notin bad
  BY <1>3, <1>4
<1>8. Trail[m - 1] = 0
  BY <1>6, <1>7
<1>9. Trail[m] = Lookup(0, path[m])
  BY <1>6, <1>8, TrailIs
<1>10. Lookup(0, path[m]) = 0
  <2>1. ~(0 \in 1 .. inodes_count)
    OBVIOUS
  <2>. QED BY <2>1, LookupNone
<1>. QED
  BY <1>4, <1>9, <1>10

LEMMA NamesAre ==
    ASSUME NEW records \in Seq(Records)
    PROVE  /\ Names(records)[0] = <<>>
           /\ \A k \in 1 .. Len(records) :
                 Names(records)[k] = IF records[k].inode # 0 /\ text(records[k].name) \notin {".", ".."}
                                     THEN Append(Names(records)[k - 1], text(records[k].name))
                                     ELSE Names(records)[k - 1]
<1>. DEFINE n == Len(records)
            T == Seq(Texts)
            Kept(k) == records[k].inode # 0 /\ text(records[k].name) \notin {".", ".."}
            g == [x \in T \X (1 .. n) |-> IF Kept(x[2]) THEN Append(x[1], text(records[x[2]].name)) ELSE x[1]]
<1>1. n \in Nat /\ <<>> \in T /\ \A k \in 1 .. n : text(records[k].name) \in Texts
  <2>1. \A k \in 1 .. n : records[k] \in Records
    BY ElementOfSeq
  <2>. QED BY <2>1, TextTyped
<1>2. ASSUME NEW x \in T, NEW k \in 1 .. n
      PROVE  /\ g[<<x, k>>] = IF Kept(k) THEN Append(x, text(records[k].name)) ELSE x
             /\ Append(x, text(records[k].name)) \in T
  <2>1. <<x, k>> \in T \X (1 .. n) /\ <<x, k>>[1] = x /\ <<x, k>>[2] = k
    OBVIOUS
  <2>2. Append(x, text(records[k].name)) \in T
    BY <1>1
  <2>. QED BY <2>1, <2>2
<1>3. g \in [T \X (1 .. n) -> T]
  <2>1. ASSUME NEW x \in T \X (1 .. n)
        PROVE  (IF Kept(x[2]) THEN Append(x[1], text(records[x[2]].name)) ELSE x[1]) \in T
    <3>1. x[1] \in T /\ x[2] \in 1 .. n
      OBVIOUS
    <3>. QED BY <3>1, <1>2
  <2>. QED BY <2>1
<1>. HIDE DEF g, n, T, Kept
<1>4. PICK h \in [0 .. n -> T] : h[0] = <<>> /\ Iterates(h, g, n)
  BY <1>1, <1>3, RecursionExists
<1>5. ASSUME NEW k \in 1 .. n PROVE h[k] = IF Kept(k) THEN Append(h[k - 1], text(records[k].name)) ELSE h[k - 1]
  <2>1. k - 1 \in 0 .. n
    BY <1>1
  <2>2. h[k - 1] \in T /\ h[k] = g[<<h[k - 1], k>>]
    BY <2>1, <1>4 DEF Iterates
  <2>. QED BY <2>2, <1>2
<1>6. h = [k \in 0 .. n |-> IF k = 0 THEN <<>>
                            ELSE IF Kept(k) THEN Append(h[k - 1], text(records[k].name)) ELSE h[k - 1]]
  <2>1. ASSUME NEW k \in 0 .. n
        PROVE  h[k] = IF k = 0 THEN <<>> ELSE IF Kept(k) THEN Append(h[k - 1], text(records[k].name)) ELSE h[k - 1]
    <3>1. k = 0 \/ k \in 1 .. n
      BY <1>1
    <3>. QED BY <3>1, <1>4, <1>5
  <2>. QED BY <2>1
<1>7. Names(records) = [k \in 0 .. n |-> IF k = 0 THEN <<>>
                            ELSE IF Kept(k) THEN Append(Names(records)[k - 1], text(records[k].name)) ELSE Names(records)[k - 1]]
  BY <1>6, Zenon DEF Names, n, Kept
<1>. DEFINE t == Names(records)
<1>8. t = [k \in 0 .. n |-> IF k = 0 THEN <<>>
                            ELSE IF Kept(k) THEN Append(t[k - 1], text(records[k].name)) ELSE t[k - 1]]
  BY <1>7
<1>. HIDE DEF t
<1>9. ASSUME NEW k \in 1 .. n PROVE k \in 0 .. n /\ k # 0
  BY <1>1
<1>10. 0 \in 0 .. n
  BY <1>1
<1>11. t[0] = <<>> /\ \A k \in 1 .. n : t[k] = IF Kept(k) THEN Append(t[k - 1], text(records[k].name)) ELSE t[k - 1]
  BY <1>8, <1>9, <1>10
<1>. QED
  BY <1>11 DEF t, n, Kept

LEMMA Unchanging ==
    ASSUME UNCHANGED <<disk, path>>
    PROVE  /\ UNCHANGED <<Trail, inodes_count, Damaged>>
           /\ \A n : UNCHANGED <<Inode(n), get_inode(n), IsDir(n)>> /\ \A name : UNCHANGED Lookup(n, name)
<1>1. UNCHANGED inodes_count /\ \A n : UNCHANGED <<Inode(n), get_inode(n)>>
  BY DEF inodes_count, Inode, get_inode, bg_idx
<1>2. UNCHANGED Damaged /\ \A n : UNCHANGED IsDir(n)
  BY <1>1 DEF Damaged, IsDir, Exists
<1>3. \A n, name : UNCHANGED Lookup(n, name)
  BY <1>1 DEF Lookup
<1>4. UNCHANGED Trail
  BY <1>3 DEF Trail
<1>. QED
  BY <1>1, <1>2, <1>3, <1>4

-----------------------------------------------------------------------------
(* The invariant of resolve_path and list_dir.  The inode at hand is the one *)
(* that the parts so far lead to; a scan stands at a record, never at a      *)
(* stepped-over slot, and no record before it has the name; list_dir has the *)
(* names before its record.                                                  *)
Recs == get_inode(current_inode_num).records
Position(records, st, k, o) ==
    Walked(records, dir_data(records), st) /\ k \in 1 .. Len(records) + 1 /\ o = st[k] + 1

DirTyped ==
    /\ disk \in Disks /\ path \in Seq(STRING) /\ call \in {"read", "resolve", "list"}
    /\ part \in 1 .. Len(path) + 1 /\ current_inode_num \in Nat /\ entries \in Seq(Texts)
OnTheTrail ==
    phase \in {"mount", "search", "scan"} =>
        call # "read" /\ current_inode_num = Trail[part - 1] /\ entries = <<>>
Scanning ==
    phase = "scan" =>
        /\ part <= Len(path) /\ IsDir(current_inode_num)
        /\ \E st, k : Position(Recs, st, k, offset) /\ \A j \in 1 .. k - 1 : ~Named(Recs[j], path[part])
Listing ==
    phase = "list" =>
        /\ call = "list" /\ IsDir(current_inode_num)
        /\ \E st, k : Position(Recs, st, k, offset) /\ (~Damaged => entries = Names(Recs)[k - 1])
EntriesResolve == \A k \in 1 .. Len(entries) : Lookup(current_inode_num, entries[k]) # 0
Answered ==
    phase = "done" =>
        /\ call = "resolve" /\ disk.magic = "ext2" => current_inode_num = Trail[Len(path)]
        /\ call = "list" /\ IsDir(current_inode_num) /\ ~Damaged => entries = Names(Recs)[Len(Recs)]
DirInv == DirTyped /\ OnTheTrail /\ Scanning /\ Listing /\ EntriesResolve /\ Answered

LEMMA IsDirFacts ==
    ASSUME disk \in Disks, NEW n \in Nat, IsDir(n)
    PROVE  /\ n \in 1 .. inodes_count /\ Inode(n).kind = "dir" /\ Inode(n) = get_inode(n)
           /\ get_inode(n).records \in Seq(Records)
<1>1. n \in 1 .. inodes_count
  <2>1. n # 0 /\ n <= inodes_count
    BY DEF IsDir, Exists
  <2>2. inodes_count \in Nat
    <3>1. inodes_per_group \in Nat /\ disk.tables \in Seq(Seq(Inodes))
      BY Ext2DirAssumption
    <3>2. Len(disk.tables) \in Nat
      BY <3>1, LenProperties
    <3>. QED BY <3>1, <3>2 DEF inodes_count
  <2>. QED BY <2>1, <2>2
<1>. QED
  BY <1>1, InodeIs, RecordsOf DEF IsDir

LEMMA NotDirLeadsNowhere ==
    ASSUME disk \in Disks, NEW n \in Nat, ~IsDir(n), NEW name PROVE Lookup(n, name) = 0
<1>1. SUFFICES ASSUME n \in 1 .. inodes_count /\ Inode(n).kind = "dir" PROVE FALSE
  BY LookupNone
<1>2. IsDir(n)
  BY <1>1, InodeIs DEF IsDir, Exists
<1>. QED
  BY <1>2

(* A scan is at record k, or past the last.                                 *)
LEMMA AtRecord ==
    ASSUME NEW records \in Seq(Records), NEW st, NEW k, NEW o, Position(records, st, k, o)
    PROVE  /\ k \in Nat /\ k - 1 \in Nat /\ st[k] \in Nat
           /\ o <= Len(dir_data(records)) => k \in 1 .. Len(records) /\ dir_data(records)[o] = records[k]
           /\ ~(o <= Len(dir_data(records))) => k = Len(records) + 1
           /\ k \in 1 .. Len(records) =>
                 /\ records[k].rec_len = 0 => Position(records, st, k, o + records[k].rec_len)
                 /\ records[k].rec_len # 0 => Position(records, st, k + 1, o + records[k].rec_len)
<1>1. PICK n, l : n = Len(records) /\ l = Len(dir_data(records))
  OBVIOUS
<1>2. n \in Nat
  BY <1>1, LenProperties
<1>3. /\ st \in [1 .. n + 1 -> Nat] /\ l = st[n + 1] /\ k \in 1 .. n + 1 /\ o = st[k] + 1
      /\ \A j \in 1 .. n :
            /\ dir_data(records)[st[j] + 1] = records[j] /\ st[j] < l
            /\ st[j + 1] = st[j] + (IF records[j].rec_len = 0 THEN 1 ELSE records[j].rec_len)
  BY <1>1 DEF Position, Walked
<1>4. \A j \in 1 .. n + 1 : st[j] \in Nat
  BY <1>3
<1>5. k \in Nat /\ k - 1 \in Nat /\ st[k] \in Nat /\ l \in Nat /\ (k \in 1 .. n \/ k = n + 1)
  <2>1. n + 1 \in 1 .. n + 1
    BY <1>2
  <2>. QED BY <1>2, <1>3, <1>4, <2>1
<1>6. CASE k = n + 1
  <2>1. ~(o <= l) /\ k \notin 1 .. n
    BY <1>2, <1>3, <1>5, <1>6
  <2>. QED BY <1>1, <1>5, <1>6, <2>1
<1>7. CASE k \in 1 .. n
  <2>1. o <= l /\ dir_data(records)[o] = records[k]
    BY <1>3, <1>5, <1>7
  <2>2. records[k].rec_len \in Nat
    <3>1. records[k] \in Records
      BY <1>1, <1>7, ElementOfSeq
    <3>. QED BY <3>1 DEF Records
  <2>3. ASSUME records[k].rec_len = 0 PROVE Position(records, st, k, o + records[k].rec_len)
    <3>1. o + records[k].rec_len = o
      BY <2>3, <1>3, <1>5
    <3>. QED BY <3>1
  <2>4. ASSUME records[k].rec_len # 0 PROVE Position(records, st, k + 1, o + records[k].rec_len)
    <3>1. k + 1 \in 1 .. n + 1 /\ st[k + 1] = st[k] + records[k].rec_len
      BY <2>4, <1>2, <1>3, <1>7
    <3>2. o + records[k].rec_len = st[k + 1] + 1
      <4>1. PICK x, y, z : x = st[k] /\ y = records[k].rec_len /\ z = st[k + 1]
        OBVIOUS
      <4>2. x \in Nat /\ y \in Nat /\ z = x + y /\ o = x + 1
        BY <3>1, <4>1, <1>3, <1>5, <2>2, Zenon
      <4>3. o + y = z + 1
        BY <4>2
      <4>. QED BY <4>1, <4>3, Zenon
    <3>. QED BY <1>1, <3>1, <3>2 DEF Position
  <2>. QED BY <1>1, <1>5, <1>7, <2>1, <2>3, <2>4
<1>. QED
  BY <1>5, <1>6, <1>7

(* A scan starts at the first record.                                       *)
LEMMA AtFirst ==
    ASSUME NEW records \in Seq(Records) PROVE \E st : Position(records, st, 1, 1)
<1>1. PICK st : Walked(records, dir_data(records), st)
  BY DirWalk
<1>2. 1 \in 1 .. Len(records) + 1 /\ 1 = st[1] + 1
  <2>1. Len(records) \in Nat
    BY LenProperties
  <2>. QED BY <1>1, <2>1 DEF Walked
<1>. QED
  BY <1>1, <1>2 DEF Position

LEMMA DirInitInv == ASSUME DirInit PROVE DirInv
<1>1. disk \in Disks /\ part = 1 /\ current_inode_num = EXT2_ROOT_INODE /\ entries = <<>>
  BY DEF DirInit
<1>2. /\ path \in Seq(STRING) /\ call \in {"read", "resolve", "list"}
      /\ (call = "read" /\ phase = "done") \/ (call # "read" /\ phase = "mount")
  <2>1. <<>> \in Seq(STRING) /\ Paths \subseteq Seq(STRING)
    BY Ext2DirAssumption
  <2>. QED BY <2>1 DEF DirInit
<1>3. part - 1 = 0 /\ Trail[0] = EXT2_ROOT_INODE
  BY <1>1, <1>2, TrailIs
<1>4. DirTyped
  <2>1. Len(path) \in Nat /\ EXT2_ROOT_INODE \in Nat /\ <<>> \in Seq(STRING)
    BY <1>2 DEF EXT2_ROOT_INODE
  <2>. QED BY <1>1, <1>2, <2>1 DEF DirTyped
<1>5. EntriesResolve
  BY <1>1 DEF EntriesResolve
<1>. QED
  BY <1>1, <1>2, <1>3, <1>4, <1>5 DEF DirInv, OnTheTrail, Scanning, Listing, Answered

LEMMA MountInv == ASSUME DirInv, mount PROVE DirInv'
<1>1. UNCHANGED <<disk, call, path, part, offset, entries>> /\ phase = "mount"
  BY DEF mount
<1>2. UNCHANGED <<Trail, Damaged>> /\ \A n, name : UNCHANGED Lookup(n, name)
  BY <1>1, Unchanging
<1>3. entries = <<>> /\ call # "read" /\ current_inode_num = Trail[part - 1] /\ EntriesResolve'
  BY <1>1 DEF DirInv, OnTheTrail, EntriesResolve
<1>4. CASE phase' = "search" /\ UNCHANGED current_inode_num
  BY <1>1, <1>2, <1>3, <1>4 DEF DirInv, DirTyped, OnTheTrail, Scanning, Listing, Answered
<1>5. CASE phase' = "done" /\ current_inode_num' = 0 /\ disk.magic # "ext2"
  <2>1. ~IsDir(0)'
    BY DEF IsDir, Exists
  <2>. QED BY <1>1, <1>2, <1>3, <1>5, <2>1 DEF DirInv, DirTyped, OnTheTrail, Scanning, Listing, Answered
<1>. QED
  BY <1>4, <1>5 DEF mount

LEMMA PanicInv == ASSUME DirInv, IndexPanic PROVE DirInv'
<1>1. UNCHANGED <<disk, call, path, part, current_inode_num, offset, entries>> /\ phase' = "panic"
  BY DEF IndexPanic
<1>2. \A n, name : UNCHANGED Lookup(n, name)
  BY <1>1, Unchanging
<1>3. EntriesResolve'
  BY <1>1, <1>2 DEF DirInv, EntriesResolve
<1>. QED
  BY <1>1, <1>3 DEF DirInv, DirTyped, OnTheTrail, Scanning, Listing, Answered

(* A part that leads nowhere ends the trail in 0.                           *)
LEMMA NoneInv ==
    ASSUME DirTyped, OnTheTrail, phase \in {"search", "scan"}, part <= Len(path),
           Lookup(current_inode_num, path[part]) = 0,
           UNCHANGED <<disk, call, path, part, entries>>, phase' = "done", current_inode_num' = 0
    PROVE  DirInv'
<1>1. /\ disk \in Disks /\ path \in Seq(STRING) /\ Len(path) \in Nat /\ part \in 1 .. Len(path)
      /\ current_inode_num = Trail[part - 1] /\ entries = <<>> /\ part \in 0 .. Len(path)
  BY LenProperties DEF DirTyped, OnTheTrail
<1>2. Trail[part] = 0
  BY <1>1, TrailIs
<1>3. Trail[Len(path)] = 0
  BY <1>1, <1>2, TrailEnds
<1>4. UNCHANGED Trail
  BY Unchanging
<1>5. ~IsDir(0)' /\ EntriesResolve'
  BY <1>1 DEF IsDir, Exists, EntriesResolve
<1>. QED
  BY <1>1, <1>3, <1>4, <1>5 DEF DirInv, DirTyped, OnTheTrail, Scanning, Listing, Answered

LEMMA EnterDirectoryInv == ASSUME DirInv, EnterDirectory PROVE DirInv'
<1>1. DirTyped /\ OnTheTrail /\ phase = "search" /\ part <= Len(path)
  BY DEF DirInv, EnterDirectory
<1>2. UNCHANGED <<disk, call, path, part, entries>>
  BY DEF EnterDirectory
<1>3. disk \in Disks /\ current_inode_num \in Nat
  BY <1>1 DEF DirTyped
<1>4. CASE ~IsDir(current_inode_num) /\ phase' = "done" /\ current_inode_num' = 0
  BY <1>1, <1>2, <1>3, <1>4, NotDirLeadsNowhere, NoneInv
<1>5. CASE IsDir(current_inode_num) /\ phase' = "scan" /\ offset' = 1 /\ UNCHANGED current_inode_num
  <2>1. PICK records : records = Recs
    OBVIOUS
  <2>2. records \in Seq(Records)
    BY <2>1, <1>3, <1>5, IsDirFacts DEF Recs
  <2>3. UNCHANGED <<Trail, Recs>> /\ (\A n : UNCHANGED IsDir(n)) /\ \A n, name : UNCHANGED Lookup(n, name)
    BY <1>2, <1>5, Unchanging DEF Recs
  <2>4. PICK st : Position(records, st, 1, 1)
    BY <2>2, AtFirst
  <2>5. Scanning'
    <3>1. 1 .. 1 - 1 = {}
      OBVIOUS
    <3>2. (\E x, k : Position(Recs, x, k, offset) /\ \A j \in 1 .. k - 1 : ~Named(Recs[j], path[part]))'
      <4>1. Position(Recs', st, 1, offset') /\ \A j \in 1 .. 1 - 1 : ~Named(Recs'[j], path'[part'])
        BY <1>5, <2>1, <2>3, <2>4, <3>1
      <4>. QED BY <4>1
    <3>. QED BY <1>1, <1>2, <1>5, <2>3, <3>2 DEF Scanning
  <2>6. EntriesResolve'
    BY <1>2, <1>5, <2>3 DEF DirInv, EntriesResolve
  <2>. QED BY <1>1, <1>2, <1>5, <2>3, <2>5, <2>6 DEF DirInv, DirTyped, OnTheTrail, Listing, Answered
<1>. QED
  BY <1>4, <1>5 DEF EnterDirectory

(* The record that a scan meets is the one that Lookup answers with.        *)
LEMMA FoundIsLookup ==
    ASSUME disk \in Disks, NEW n \in Nat, IsDir(n), NEW name, NEW records, records = get_inode(n).records,
           NEW k \in 1 .. Len(records), Named(records[k], name), \A j \in 1 .. k - 1 : ~Named(records[j], name)
    PROVE  Lookup(n, name) = records[k].inode
<1>1. n \in 1 .. inodes_count /\ Inode(n).kind = "dir" /\ Inode(n).records = records /\ records \in Seq(Records)
  BY IsDirFacts
<1>2. PICK m \in 1 .. Len(records) :
        /\ Named(records[m], name) /\ \A j \in 1 .. Len(records) : Named(records[j], name) => m <= j
        /\ Lookup(n, name) = records[m].inode
  BY <1>1, LookupCases
<1>3. m = k
  <2>1. m <= k /\ m \in Nat /\ k \in Nat /\ m >= 1
    BY <1>2
  <2>2. ~(m \in 1 .. k - 1)
    BY <1>2
  <2>. QED BY <2>1, <2>2
<1>. QED
  BY <1>2, <1>3

LEMMA ScanRecordInv == ASSUME DirInv, ScanRecord PROVE DirInv'
<1>1. DirTyped /\ OnTheTrail /\ Scanning /\ EntriesResolve /\ phase = "scan" /\ AtSlot
  BY DEF DirInv, ScanRecord
<1>2. UNCHANGED <<disk, call, path, entries>>
  BY DEF ScanRecord
<1>3. PICK records, n, name : records = Recs /\ n = current_inode_num /\ name = path[part]
  OBVIOUS
<1>4. /\ disk \in Disks /\ n \in Nat /\ IsDir(n) /\ part <= Len(path) /\ path \in Seq(STRING)
      /\ part \in 1 .. Len(path) /\ Len(path) \in Nat /\ n = Trail[part - 1] /\ entries = <<>> /\ call # "read"
      /\ part + 1 \in 1 .. Len(path) + 1 /\ (part + 1) - 1 = part
  BY <1>1, <1>3, LenProperties DEF DirTyped, OnTheTrail, Scanning
<1>5. records \in Seq(Records) /\ records = get_inode(n).records
  BY <1>3, <1>4, IsDirFacts DEF Recs
<1>6. PICK st, k : Position(records, st, k, offset) /\ \A j \in 1 .. k - 1 : ~Named(records[j], name)
  BY <1>1, <1>3 DEF Scanning
<1>7. Slots = dir_data(records)
  BY <1>3 DEF Slots, Recs
<1>8. k \in 1 .. Len(records) /\ Slots[offset] = records[k] /\ k \in Nat
  BY <1>1, <1>5, <1>6, <1>7, AtRecord DEF AtSlot
<1>9. UNCHANGED Trail /\ (\A x : UNCHANGED IsDir(x)) /\ \A x, y : UNCHANGED Lookup(x, y)
  BY <1>2, Unchanging
<1>10. matches(records[k]) <=> Named(records[k], name)
  BY <1>3 DEF matches, Named
<1>13. CASE phase' = "panic" /\ UNCHANGED <<current_inode_num, part, offset>>
  <2>1. EntriesResolve'
    BY <1>2, <1>4 DEF EntriesResolve
  <2>. QED BY <1>1, <1>2, <1>13, <2>1 DEF DirInv, DirTyped, OnTheTrail, Scanning, Listing, Answered
<1>11. CASE /\ matches(records[k]) /\ current_inode_num' = records[k].inode /\ part' = part + 1
            /\ phase' = "search"
  <2>1. Lookup(n, name) = records[k].inode
    <3>1. Named(records[k], name) /\ \A j \in 1 .. k - 1 : ~Named(records[j], name)
      BY <1>6, <1>10, <1>11
    <3>2. disk \in Disks /\ n \in Nat /\ IsDir(n) /\ records = get_inode(n).records /\ k \in 1 .. Len(records)
      BY <1>4, <1>5, <1>8
    <3>. QED BY <3>1, <3>2, FoundIsLookup
  <2>2. Trail[part] = records[k].inode
    BY <2>1, <1>3, <1>4, TrailIs
  <2>3. records[k].inode \in Nat
    BY <2>1, <1>4, LookupType
  <2>4. DirTyped'
    BY <1>1, <1>2, <1>4, <1>11, <2>3 DEF DirTyped
  <2>5. EntriesResolve'
    BY <1>2, <1>4 DEF EntriesResolve
  <2>. QED BY <1>2, <1>4, <1>9, <1>11, <2>2, <2>4, <2>5 DEF DirInv, OnTheTrail, Scanning, Listing, Answered
<1>12. CASE /\ ~matches(records[k]) /\ offset' = offset + step(records[k])
            /\ UNCHANGED <<current_inode_num, part, phase>>
  <2>1. PICK o : o = offset + records[k].rec_len
    OBVIOUS
  <2>2. offset' = o /\ Recs' = records /\ path'[part'] = name
    BY <2>1, <1>2, <1>3, <1>12, Unchanging DEF step, Recs
  <2>3. \E x, y : Position(records, x, y, o) /\ \A j \in 1 .. y - 1 : ~Named(records[j], name)
    <3>1. CASE records[k].rec_len = 0
      BY <3>1, <2>1, <1>5, <1>6, <1>8, AtRecord
    <3>2. CASE records[k].rec_len # 0
      <4>1. Position(records, st, k + 1, o)
        BY <3>2, <2>1, <1>5, <1>6, <1>8, AtRecord
      <4>2. ASSUME NEW j \in 1 .. (k + 1) - 1 PROVE ~Named(records[j], name)
        <5>1. j = k \/ j \in 1 .. k - 1
          BY <1>8
        <5>. QED BY <5>1, <1>6, <1>10, <1>12
      <4>. QED BY <4>1, <4>2
    <3>. QED BY <3>1, <3>2
  <2>4. Scanning'
    <3>1. IsDir(current_inode_num)' /\ (part <= Len(path))'
      BY <1>2, <1>3, <1>4, <1>9, <1>12
    <3>. QED BY <2>2, <2>3, <3>1 DEF Scanning
  <2>5. EntriesResolve'
    BY <1>2, <1>4 DEF EntriesResolve
  <2>. QED BY <1>1, <1>2, <1>4, <1>9, <1>12, <2>4, <2>5 DEF DirInv, DirTyped, OnTheTrail, Listing, Answered
<1>. QED
  BY <1>8, <1>11, <1>12, <1>13 DEF ScanRecord

LEMMA NotFoundInv == ASSUME DirInv, NotFound PROVE DirInv'
<1>1. DirTyped /\ OnTheTrail /\ Scanning /\ phase = "scan" /\ ~AtSlot
  BY DEF DirInv, NotFound
<1>2. PICK records, n, name : records = Recs /\ n = current_inode_num /\ name = path[part]
  OBVIOUS
<1>3. disk \in Disks /\ n \in Nat /\ IsDir(n) /\ part <= Len(path)
  BY <1>1, <1>2 DEF DirTyped, Scanning
<1>4. /\ records \in Seq(Records) /\ records = get_inode(n).records /\ n \in 1 .. inodes_count
      /\ Inode(n).kind = "dir" /\ Inode(n).records = records
  BY <1>2, <1>3, IsDirFacts DEF Recs
<1>5. PICK st, k : Position(records, st, k, offset) /\ \A j \in 1 .. k - 1 : ~Named(records[j], name)
  BY <1>1, <1>2 DEF Scanning
<1>6. k = Len(records) + 1 /\ Len(records) \in Nat
  BY <1>1, <1>2, <1>4, <1>5, AtRecord, LenProperties DEF AtSlot, Slots, Recs
<1>7. \A j \in 1 .. Len(records) : ~Named(records[j], name)
  <2>1. k - 1 = Len(records)
    BY <1>6
  <2>. QED BY <2>1, <1>5
<1>8. Lookup(n, name) = 0
  BY <1>3, <1>4, <1>7, LookupCases
<1>9. UNCHANGED <<disk, call, path, part, entries>> /\ phase' = "done" /\ current_inode_num' = 0
  BY DEF NotFound
<1>. QED
  BY <1>1, <1>2, <1>3, <1>8, <1>9, NoneInv

LEMMA ResolvedInv == ASSUME DirInv, Resolved PROVE DirInv'
<1>1. DirTyped /\ OnTheTrail /\ EntriesResolve /\ phase = "search" /\ part > Len(path)
  BY DEF DirInv, Resolved
<1>2. UNCHANGED <<disk, call, path, part, current_inode_num, entries>> /\ offset' = 1
  BY DEF Resolved
<1>3. PICK records, n : records = Recs /\ n = current_inode_num
  OBVIOUS
<1>4. /\ disk \in Disks /\ n \in Nat /\ n = Trail[Len(path)] /\ entries = <<>>
      /\ call \in {"resolve", "list"}
  <2>1. Len(path) \in Nat /\ part \in 1 .. Len(path) + 1
    BY <1>1, LenProperties DEF DirTyped
  <2>2. part - 1 = Len(path)
    BY <2>1, <1>1
  <2>. QED BY <2>2, <1>1, <1>3 DEF DirTyped, OnTheTrail
<1>5. UNCHANGED <<Trail, Recs, Damaged>> /\ (\A x : UNCHANGED IsDir(x)) /\ \A x, y : UNCHANGED Lookup(x, y)
  BY <1>2, Unchanging DEF Recs
<1>6. EntriesResolve'
  BY <1>2, <1>4 DEF EntriesResolve
<1>7. CASE phase' = "done" /\ ~(call = "list" /\ IsDir(n))
  <2>1. Answered'
    BY <1>2, <1>3, <1>4, <1>5, <1>7 DEF Answered
  <2>. QED BY <1>1, <1>2, <1>6, <1>7, <2>1 DEF DirInv, DirTyped, OnTheTrail, Scanning, Listing
<1>8. CASE phase' = "list" /\ call = "list" /\ IsDir(n)
  <2>1. records \in Seq(Records)
    BY <1>3, <1>4, <1>8, IsDirFacts DEF Recs
  <2>2. PICK st : Position(records, st, 1, 1)
    BY <2>1, AtFirst
  <2>3. entries = Names(records)[1 - 1]
    BY <2>1, <1>4, NamesAre
  <2>4. Listing'
    <3>1. (\E x, k : Position(Recs, x, k, offset) /\ (~Damaged => entries = Names(Recs)[k - 1]))'
      <4>1. Position(Recs', st, 1, offset') /\ entries' = Names(Recs')[1 - 1]
        BY <1>2, <1>3, <1>5, <2>2, <2>3
      <4>. QED BY <4>1
    <3>2. (call = "list" /\ IsDir(current_inode_num))'
      BY <1>2, <1>3, <1>5, <1>8
    <3>. QED BY <3>1, <3>2 DEF Listing
  <2>. QED BY <1>1, <1>2, <1>6, <1>8, <2>4 DEF DirInv, DirTyped, OnTheTrail, Scanning, Answered
<1>. QED
  BY <1>3, <1>7, <1>8 DEF Resolved

LEMMA ListRecordInv == ASSUME DirInv, ListRecord PROVE DirInv'
<1>1. DirTyped /\ Listing /\ EntriesResolve /\ phase = "list" /\ AtSlot
  BY DEF DirInv, ListRecord
<1>2. UNCHANGED <<disk, call, path, part, current_inode_num>>
  BY DEF ListRecord
<1>3. PICK records, n, en : records = Recs /\ n = current_inode_num /\ en = entries
  OBVIOUS
<1>4. disk \in Disks /\ n \in Nat /\ IsDir(n) /\ call = "list" /\ en \in Seq(Texts)
  BY <1>1, <1>3 DEF DirTyped, Listing
<1>5. /\ records \in Seq(Records) /\ records = get_inode(n).records /\ n \in 1 .. inodes_count
      /\ Inode(n).kind = "dir" /\ Inode(n).records = records
  BY <1>3, <1>4, IsDirFacts DEF Recs
<1>6. PICK st, k : Position(records, st, k, offset) /\ (~Damaged => en = Names(records)[k - 1])
  BY <1>1, <1>3 DEF Listing
<1>7. k \in 1 .. Len(records) /\ Slots[offset] = records[k] /\ k \in Nat
  BY <1>1, <1>3, <1>5, <1>6, AtRecord DEF AtSlot, Slots, Recs
<1>8. PICK r, o, ne : /\ r = records[k] /\ o = offset + r.rec_len
                      /\ ne = IF shown(r) THEN Append(en, text(r.name)) ELSE en
  OBVIOUS
<1>17. CASE phase' = "panic" /\ UNCHANGED <<offset, entries>>
  <2>1. \A x, y : UNCHANGED Lookup(x, y)
    BY <1>2, Unchanging
  <2>2. EntriesResolve'
    BY <1>1, <1>2, <1>17, <2>1 DEF EntriesResolve
  <2>. QED BY <1>1, <1>2, <1>17, <2>2 DEF DirInv, DirTyped, OnTheTrail, Scanning, Listing, Answered
<1>18. SUFFICES ASSUME ~(overruns(r) /\ r.rec_len > 0) PROVE DirInv'
  BY <1>7, <1>8, <1>17 DEF ListRecord
<1>9. entries' = ne /\ offset' = o /\ phase' = IF r.rec_len = 0 THEN "done" ELSE "list"
  BY <1>3, <1>7, <1>8, <1>18 DEF ListRecord, step, list_ends
<1>10. UNCHANGED <<Recs, Damaged>> /\ (\A x : UNCHANGED IsDir(x)) /\ \A x, y : UNCHANGED Lookup(x, y)
  BY <1>2, Unchanging DEF Recs
<1>11. r \in Records /\ text(r.name) \in Texts /\ r.rec_len \in Nat
  <2>1. r \in Records
    BY <1>5, <1>7, <1>8, ElementOfSeq
  <2>. QED BY <2>1, TextTyped DEF Records
<1>12. ne \in Seq(Texts)
  <2>1. PICK x : x = text(r.name)
    OBVIOUS
  <2>2. x \in Texts /\ Append(en, x) \in Seq(Texts)
    BY <2>1, <1>4, <1>11
  <2>. QED BY <2>1, <2>2, <1>4, <1>8
<1>13. EntriesResolve'
  <2>1. \A j \in 1 .. Len(en) : Lookup(n, en[j]) # 0
    BY <1>1, <1>3 DEF EntriesResolve
  <2>2. ASSUME shown(r) PROVE Lookup(n, text(r.name)) # 0
    <3>1. Named(records[k], text(r.name))
      BY <2>2, <1>8 DEF shown, Named
    <3>. QED BY <3>1, <1>4, <1>5, <1>7, LookupCases
  <2>3. ASSUME NEW j \in 1 .. Len(ne) PROVE Lookup(n, ne[j]) # 0
    <3>1. CASE ~shown(r)
      BY <3>1, <2>1, <1>8
    <3>2. CASE shown(r)
      <4>1. ne = Append(en, text(r.name))
        BY <3>2, <1>8
      <4>2. /\ Len(ne) = Len(en) + 1 /\ Len(en) \in Nat /\ ne[Len(en) + 1] = text(r.name)
            /\ \A x \in 1 .. Len(en) : ne[x] = en[x]
        BY <4>1, <1>4, <1>11
      <4>3. j \in 1 .. Len(en) \/ j = Len(en) + 1
        BY <4>2
      <4>. QED BY <4>2, <4>3, <2>1, <2>2, <3>2
    <3>. QED BY <3>1, <3>2
  <2>. QED BY <2>3, <1>2, <1>3, <1>9, <1>10 DEF EntriesResolve
<1>14. DirTyped'
  BY <1>1, <1>2, <1>9, <1>12 DEF DirTyped
<1>15. CASE r.rec_len = 0
  <2>1. Damaged
    <3>1. k \in DOMAIN records
      BY <1>5, <1>7
    <3>. QED BY <3>1, <1>5, <1>8, <1>15 DEF Damaged
  <2>2. Answered'
    BY <2>1, <1>2, <1>4, <1>10 DEF Answered
  <2>. QED BY <2>2, <1>9, <1>13, <1>14, <1>15 DEF DirInv, OnTheTrail, Scanning, Listing
<1>16. CASE r.rec_len # 0
  <2>1. Position(records, st, k + 1, o)
    BY <1>5, <1>6, <1>7, <1>8, <1>16, AtRecord
  <2>2. ~Damaged => ne = Names(records)[(k + 1) - 1]
    <3>1. (k + 1) - 1 = k
      BY <1>7
    <3>2. shown(r) <=> records[k].inode # 0 /\ text(records[k].name) \notin {".", ".."}
      <4>1. r.rec_len > 0
        BY <1>11, <1>16
      <4>. QED BY <4>1, <1>8 DEF shown
    <3>3. Names(records)[k] = IF shown(r) THEN Append(Names(records)[k - 1], text(r.name)) ELSE Names(records)[k - 1]
      BY <3>2, <1>5, <1>7, <1>8, NamesAre
    <3>. QED BY <3>1, <3>3, <1>6, <1>8
  <2>3. Listing'
    <3>1. (\E x, y : Position(Recs, x, y, offset) /\ (~Damaged => entries = Names(Recs)[y - 1]))'
      <4>1. Position(Recs', st, k + 1, offset') /\ (~Damaged' => entries' = Names(Recs')[(k + 1) - 1])
        BY <1>3, <1>9, <1>10, <2>1, <2>2
      <4>. QED BY <4>1
    <3>2. (call = "list" /\ IsDir(current_inode_num))'
      BY <1>2, <1>3, <1>4, <1>10
    <3>. QED BY <3>1, <3>2 DEF Listing
  <2>. QED BY <2>3, <1>9, <1>13, <1>14, <1>16 DEF DirInv, OnTheTrail, Scanning, Answered
<1>. QED
  BY <1>15, <1>16

LEMMA ListEndInv == ASSUME DirInv, ListEnd PROVE DirInv'
<1>1. DirTyped /\ Listing /\ EntriesResolve /\ phase = "list" /\ ~AtSlot
  BY DEF DirInv, ListEnd
<1>2. UNCHANGED <<disk, call, path, part, current_inode_num, offset, entries>> /\ phase' = "done"
  BY DEF ListEnd
<1>3. PICK records : records = Recs
  OBVIOUS
<1>4. records \in Seq(Records) /\ call = "list"
  BY <1>1, <1>3, IsDirFacts DEF DirTyped, Listing, Recs
<1>5. PICK st, k : Position(records, st, k, offset) /\ (~Damaged => entries = Names(records)[k - 1])
  BY <1>1, <1>3 DEF Listing
<1>6. k - 1 = Len(records)
  <2>1. k = Len(records) + 1 /\ Len(records) \in Nat
    BY <1>1, <1>3, <1>4, <1>5, AtRecord, LenProperties DEF AtSlot, Slots, Recs
  <2>. QED BY <2>1
<1>7. UNCHANGED <<Recs, Damaged>> /\ \A x, y : UNCHANGED Lookup(x, y)
  BY <1>2, Unchanging DEF Recs
<1>8. Answered'
  BY <1>2, <1>3, <1>4, <1>5, <1>6, <1>7 DEF Answered
<1>9. EntriesResolve'
  BY <1>1, <1>2, <1>7 DEF EntriesResolve
<1>. QED
  BY <1>1, <1>2, <1>8, <1>9 DEF DirInv, DirTyped, OnTheTrail, Scanning, Listing

LEMMA DirSame == ASSUME DirInv, UNCHANGED dir_vars PROVE DirInv'
<1>1. UNCHANGED <<disk, call, path, phase, part, current_inode_num, offset, entries>>
  BY DEF dir_vars
<1>2. UNCHANGED <<Trail, Recs, Damaged>> /\ (\A x : UNCHANGED IsDir(x)) /\ \A x, y : UNCHANGED Lookup(x, y)
  BY <1>1, Unchanging DEF Recs
<1>3. DirTyped' /\ OnTheTrail' /\ EntriesResolve' /\ Answered'
  BY <1>1, <1>2 DEF DirInv, DirTyped, OnTheTrail, EntriesResolve, Answered
<1>4. Scanning'
  BY <1>1, <1>2 DEF DirInv, Scanning
<1>5. Listing'
  BY <1>1, <1>2 DEF DirInv, Listing
<1>. QED
  BY <1>3, <1>4, <1>5 DEF DirInv

LEMMA DirInvariance == DirSpec => []DirInv
<1>1. DirInit => DirInv
  BY DirInitInv
<1>2. DirInv /\ [DirNext]_all_vars => DirInv'
  BY MountInv, PanicInv, EnterDirectoryInv, ScanRecordInv, NotFoundInv, ResolvedInv, ListRecordInv,
     ListEndInv, DirSame DEF DirNext, all_vars
<1>. QED
  BY <1>1, <1>2, PTL DEF DirSpec

\* Ext2Fs::resolve_path, on every disk and for every path: the answer is the
\* inode that a lookup of each part in the records of the directory before it
\* leads to, and None if one of them leads nowhere.
THEOREM PathsResolveAsNamed == DirSpec => []ResolvesAsNamed
<1>1. DirInv => ResolvesAsNamed
  BY DEF DirInv, Answered, ResolvesAsNamed
<1>. QED
  BY <1>1, DirInvariance, PTL

\* Ext2Fs::list_dir as ls calls it, on every disk: the names of the directory in
\* order, all of them if it is undamaged, and none that resolve_path would not
\* find, but for the "" that stands for a name no path can ask for.
THEOREM ListingResolves == DirSpec => []ListsWhatResolves
<1>1. ASSUME DirInv PROVE ListsWhatResolves
  <2>1. disk \in Disks /\ current_inode_num \in Nat /\ entries \in Seq(Texts)
    BY <1>1 DEF DirInv, DirTyped
  <2>2. DOMAIN entries = 1 .. Len(entries)
    BY <2>1, LenProperties
  <2>3. ASSUME IsDir(current_inode_num) PROVE Inode(current_inode_num).records = Recs
    BY <2>1, <2>3, IsDirFacts DEF Recs
  <2>. QED BY <1>1, <2>2, <2>3 DEF DirInv, Answered, EntriesResolve, ListsWhatResolves
<1>2. DirInv => ListsWhatResolves
  BY <1>1
<1>. QED
  BY <1>2, DirInvariance, PTL

=============================================================================
