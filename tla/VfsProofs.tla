----------------------------- MODULE VfsProofs -----------------------------
(***************************************************************************)
(* For every set of sessions, paths, files, disk size and sector size: the *)
(* file system is type correct, descriptor numbers are never shared, no    *)
(* offset passes the end of its file, only writers change what is stored,  *)
(* and only an oversized transfer can bring /dev/hda down.                 *)
(***************************************************************************)
EXTENDS Vfs, SequenceTheorems, TLAPS

-----------------------------------------------------------------------------
(* Minimum and maximum of two numbers.                                     *)
LEMMA MinOfTwo ==
    ASSUME NEW a \in Int, NEW b \in Int
    PROVE  Min({a, b}) = IF a <= b THEN a ELSE b
  BY DEF Min

LEMMA MaxOfTwo ==
    ASSUME NEW a \in Int, NEW b \in Int
    PROVE  Max({a, b}) = IF a >= b THEN a ELSE b
  BY DEF Max

(* A subsequence has a length whatever it is taken from.                   *)
LEMMA SubSeqLength ==
    ASSUME NEW s, NEW m \in Int, NEW n \in Int
    PROVE  Len(SubSeq(s, m, n)) \in Nat
<1>. DEFINE S == {s[k] : k \in m .. n}
<1>1. \A k \in m .. n : s[k] \in S
  OBVIOUS
<1>2. SubSeq(s, m, n) \in Seq(S)
  BY <1>1, SubSeqProperties
<1>. QED
  BY <1>2

(* Window: what a read returns ends with the buffer.                       *)
LEMMA WindowEnds ==
    ASSUME NEW S, NEW buf \in Seq(S), NEW off \in Nat, NEW n \in Nat
    PROVE  /\ Len(Window(buf, off, n)) \in Nat
           /\ off <= Len(buf) => off + Len(Window(buf, off, n)) <= Len(buf)
<1>. DEFINE end == Min({off + n, Len(buf)})
<1>1. end = (IF off + n <= Len(buf) THEN off + n ELSE Len(buf)) /\ end \in Nat
  BY MinOfTwo
<1>. HIDE DEF end
<1>2. \A k \in off + 1 .. end : buf[k] \in S
  BY <1>1
<1>3. Len(SubSeq(buf, off + 1, end)) = IF off + 1 <= end THEN end - (off + 1) + 1 ELSE 0
  BY <1>1, <1>2, SubSeqProperties
<1>4. Window(buf, off, n) = SubSeq(buf, off + 1, end)
  BY DEF Window, end
<1>. QED
  BY <1>1, <1>3, <1>4

(* Overwrite: same length, the data in its place, the rest as it was.      *)
LEMMA OverwriteKeeps ==
    ASSUME NEW S, NEW buf \in Seq(S), NEW off \in Nat, NEW data \in Seq(S)
    PROVE  /\ Overwrite(buf, off, data) \in Seq(S)
           /\ Len(Overwrite(buf, off, data)) = Len(buf)
           /\ \A k \in 1 .. Len(buf) :
                 Overwrite(buf, off, data)[k] =
                     IF k \in off + 1 .. off + Len(data) THEN data[k - off] ELSE buf[k]
<1>1. \A k \in off + 1 .. off + Len(data) : k - off \in 1 .. Len(data)
  OBVIOUS
<1>2. DOMAIN buf = 1 .. Len(buf)
  OBVIOUS
<1>3. Overwrite(buf, off, data) \in [1 .. Len(buf) -> S]
  BY <1>1, <1>2 DEF Overwrite
<1>4. \A k \in 1 .. Len(buf) : Overwrite(buf, off, data)[k] =
                     IF k \in off + 1 .. off + Len(data) THEN data[k - off] ELSE buf[k]
  BY <1>2 DEF Overwrite
<1>. HIDE DEF Overwrite
<1>5. Overwrite(buf, off, data) \in Seq(S) /\ Len(Overwrite(buf, off, data)) = Len(buf)
  BY <1>3
<1>. QED
  BY <1>4, <1>5

(* Resized: never shorter, and grown with zeros only.                      *)
LEMMA ResizedKeeps ==
    ASSUME NEW content \in Seq(Byte), NEW end \in Nat
    PROVE  /\ Resized(content, end) \in Seq(Byte)
           /\ Len(Resized(content, end)) >= Len(content)
           /\ Len(Resized(content, end)) >= end
           /\ Len(Resized(content, end)) \in {Len(content), end}
           /\ \A k \in 1 .. Len(content) : Resized(content, end)[k] = content[k]
<1>. DEFINE len == Max({Len(content), end})
<1>1. len = (IF Len(content) >= end THEN Len(content) ELSE end) /\ len \in Nat
  BY MaxOfTwo
<1>2. Resized(content, end) = [k \in 1 .. len |-> IF k <= Len(content) THEN content[k] ELSE 0]
  BY DEF Resized
<1>. HIDE DEF len, Resized
<1>3. Resized(content, end) \in [1 .. len -> Byte]
  BY <1>1, <1>2, DriverAssumption
<1>4. Len(Resized(content, end)) = len /\ Resized(content, end) \in Seq(Byte)
  BY <1>1, <1>3
<1>5. \A k \in 1 .. Len(content) : Resized(content, end)[k] = content[k]
  BY <1>1, <1>2
<1>. QED
  BY <1>1, <1>4, <1>5

(* A file written at an offset it reaches has no padding left: what was    *)
(* stored and what is written meet.                                        *)
LEMMA WrittenFile ==
    ASSUME NEW content \in Seq(Byte), NEW off \in Nat, NEW data \in Seq(Byte \ {0})
    PROVE  LET new == Overwrite(Resized(content, off + Len(data)), off, data)
           IN  /\ new \in Seq(Byte)
               /\ Len(new) >= Len(content) /\ Len(new) >= off + Len(data)
               /\ SameOutside(new, content, off, off + Len(data))
               /\ (off <= Len(content) /\ content \in Seq(Byte \ {0})) => new \in Seq(Byte \ {0})
<1>. DEFINE grown == Resized(content, off + Len(data))
            new == Overwrite(grown, off, data)
<1>1. data \in Seq(Byte) /\ Len(data) \in Nat /\ Len(content) \in Nat
  OBVIOUS
<1>2. /\ grown \in Seq(Byte) /\ Len(grown) >= Len(content) /\ Len(grown) >= off + Len(data)
      /\ Len(grown) \in {Len(content), off + Len(data)}
      /\ \A k \in 1 .. Len(content) : grown[k] = content[k]
  BY <1>1, ResizedKeeps
<1>. HIDE DEF grown
<1>3. /\ new \in Seq(Byte) /\ Len(new) = Len(grown)
      /\ \A k \in 1 .. Len(grown) :
             new[k] = IF k \in off + 1 .. off + Len(data) THEN data[k - off] ELSE grown[k]
  BY <1>1, <1>2, OverwriteKeeps
<1>. HIDE DEF new
<1>4. SameOutside(new, content, off, off + Len(data))
  BY <1>1, <1>2, <1>3 DEF SameOutside
<1>5. ASSUME off <= Len(content), content \in Seq(Byte \ {0})
      PROVE  new \in Seq(Byte \ {0})
  <2>1. ASSUME NEW k \in 1 .. Len(new) PROVE new[k] \in Byte \ {0}
    <3>1. CASE k \in off + 1 .. off + Len(data)
      <4>1. k - off \in 1 .. Len(data)
        BY <1>1, <3>1
      <4>. QED
        BY <4>1, <3>1, <1>1, <1>2, <1>3
    <3>2. CASE k \notin off + 1 .. off + Len(data)
      BY <3>2, <1>5, <1>1, <1>2, <1>3
    <3>. QED
      BY <3>1, <3>2
  <2>2. new \in [1 .. Len(new) -> Byte \ {0}]
    BY <1>3, <2>1
  <2>. QED
    BY <1>3, <2>2
<1>. QED
  BY <1>2, <1>3, <1>4, <1>5 DEF new, grown

-----------------------------------------------------------------------------
(* Sector arithmetic of AtaDriver.                                         *)
LEMMA DivMod ==
    ASSUME NEW a \in Nat, NEW S \in Nat \ {0}
    PROVE  /\ a = S * (a \div S) + (a % S)
           /\ a % S \in 0 .. S - 1 /\ a \div S \in Nat
  OBVIOUS

LEMMA MulLess ==
    ASSUME NEW a \in Int, NEW b \in Int, NEW S \in Nat \ {0}, S * a < S * b
    PROVE  a < b
<1>1. SUFFICES ASSUME a >= b PROVE S * a >= S * b
  OBVIOUS
<1>2. S * (a - b) >= 0
  BY <1>1
<1>3. S * (a - b) = S * a - S * b
  OBVIOUS
<1>4. S * a \in Int /\ S * b \in Int
  OBVIOUS
<1>. QED
  BY <1>2, <1>3, <1>4

(* The sectors from start_lba to end_lba hold the slice and less than one  *)
(* sector more; the count that is stored is at most their number.          *)
LEMMA SectorCount ==
    ASSUME NEW off \in Nat, NEW n \in Nat
    PROVE  LET S == SectorSize
               q == start_lba(off)
               r == start_idx(off)
               m == end_lba(off, n) - q
               c == sector_count(off, n)
           IN  /\ q \in Nat /\ r \in 0 .. S - 1 /\ off = S * q + r
               /\ m \in Nat /\ r + n <= S * m /\ S * m <= r + n + S - 1
               /\ c \in Nat /\ c <= m /\ (m < CountMod => c = m)
<1>. DEFINE S == SectorSize
            q == start_lba(off)
            r == start_idx(off)
            e == end_lba(off, n)
            m == e - q
            c == sector_count(off, n)
<1>0. S \in Nat \ {0} /\ CountMod \in Nat \ {0}
  BY DriverAssumption
<1>1. off = S * q + r /\ r \in 0 .. S - 1 /\ q \in Nat
  BY <1>0, DivMod DEF start_lba, start_idx
<1>2. PICK x \in 0 .. S - 1 : off + n + S - 1 = S * e + x /\ e \in Nat
  <2>1. off + n + S - 1 \in Nat
    BY <1>0
  <2>. QED
    BY <2>1, <1>0, DivMod DEF end_lba
<1>. HIDE DEF S, q, r, e
<1>3. S * m = S * e - S * q /\ S * e \in Int /\ S * q \in Int
  BY <1>0, <1>1, <1>2
<1>4. r + n <= S * m /\ S * m <= r + n + S - 1
  BY <1>0, <1>1, <1>2, <1>3
<1>5. S * (-1) < S * m
  <2>1. S * (-1) = -S /\ S * m \in Int
    BY <1>0, <1>3
  <2>. QED
    BY <2>1, <1>0, <1>1, <1>4
<1>6. m \in Nat
  BY <1>0, <1>1, <1>2, <1>5, MulLess
<1>7. c = m % CountMod
  BY DEF sector_count, e, q
<1>. HIDE DEF m, c
<1>8. c \in Nat /\ c <= m /\ (m < CountMod => c = m)
  <2>1. m = CountMod * (m \div CountMod) + c /\ c \in 0 .. CountMod - 1 /\ m \div CountMod \in Nat
    BY <1>0, <1>6, <1>7, DivMod
  <2>2. CountMod * (m \div CountMod) \in Nat
    BY <1>0, <2>1
  <2>3. m < CountMod => c = m
    BY <1>0, <1>6, <1>7
  <2>. QED
    BY <2>1, <2>2, <2>3, <1>0, <1>6
<1>. QED
  BY <1>1, <1>4, <1>6, <1>8 DEF S, q, r, e, m, c

(* Up to SafeTransfer the count does not wrap: the buffer holds the slice, *)
(* at whatever offset in a sector it starts.                               *)
LEMMA SmallFits ==
    ASSUME NEW off \in Nat, NEW n \in Nat, n <= SafeTransfer
    PROVE  InSectors(off, n)
<1>. DEFINE S == SectorSize
            C == CountMod
            q == start_lba(off)
            r == start_idx(off)
            m == end_lba(off, n) - q
            c == sector_count(off, n)
<1>0. S \in Nat \ {0} /\ C \in Nat \ {0, 1}
  BY DriverAssumption
<1>1. /\ r \in 0 .. S - 1 /\ m \in Nat /\ r + n <= S * m /\ S * m <= r + n + S - 1
      /\ c \in Nat /\ (m < C => c = m)
  BY SectorCount
<1>2. n <= (C - 2) * S + 1
  BY DEF SafeTransfer
<1>3. InSectors(off, n) <=> r + n <= c * S
  BY DEF InSectors
<1>. HIDE DEF S, C, q, r, m, c
<1>4. (C - 2) * S = S * C - 2 * S /\ S * C \in Int /\ S * m \in Int
  BY <1>0, <1>1
<1>5. S * m < S * C
  BY <1>0, <1>1, <1>2, <1>4
<1>6. m < C
  BY <1>0, <1>1, <1>5, MulLess
<1>7. c * S = S * m
  BY <1>0, <1>1, <1>6
<1>. QED
  BY <1>1, <1>3, <1>7

(* The read-modify-write of AtaDriver::write changes the slice and nothing *)
(* else, though it writes whole sectors.                                   *)
LEMMA HdaWrite ==
    ASSUME NEW d \in Seq(Byte), Len(d) % SectorSize = 0,
           NEW off \in Nat, NEW data \in Seq(Byte),
           off + Len(data) <= Len(d), InSectors(off, Len(data))
    PROVE  /\ hda_write(d, off, data) \in Seq(Byte)
           /\ Len(hda_write(d, off, data)) = Len(d)
           /\ SameOutside(hda_write(d, off, data), d, off, off + Len(data))
<1>. DEFINE S == SectorSize
            n == Len(data)
            q == start_lba(off)
            r == start_idx(off)
            m == end_lba(off, n) - q
            c == sector_count(off, n)
            L == Len(d) \div S
            buf == hda_sectors(d, off, n)
            new == Overwrite(buf, r, data)
<1>0. S \in Nat \ {0} /\ n \in Nat /\ Len(d) \in Nat
  BY DriverAssumption
<1>1. /\ q \in Nat /\ r \in 0 .. S - 1 /\ off = S * q + r
      /\ m \in Nat /\ r + n <= S * m /\ S * m <= r + n + S - 1
      /\ c \in Nat /\ c <= m
  BY <1>0, SectorCount
<1>2. r + n <= c * S
  BY DEF InSectors
<1>3. Len(d) = S * L /\ L \in Nat
  BY <1>0, DivMod
<1>4. /\ buf = SubSeq(d, q * S + 1, (q + c) * S)
      /\ hda_write(d, off, data) = Overwrite(d, q * S, new)
  BY DEF hda_write, hda_sectors, ata_write_sectors, ata_read_sectors
<1>. HIDE DEF S, n, q, r, m, c, L, buf
<1>5. q * S \in Nat /\ q * S = S * q /\ (q + c) * S = q * S + c * S /\ c * S \in Nat
  BY <1>0, <1>1
<1>6. (q + c) * S <= Len(d)
  <2>1. S * (q + m) = S * q + S * m /\ S * (L + 1) = S * L + S /\ S * m \in Int /\ S * L \in Int
    BY <1>0, <1>1, <1>3
  <2>2. S * (q + m) < S * (L + 1)
    BY <2>1, <1>0, <1>1, <1>3, <1>5 DEF n
  <2>3. q + m < L + 1
    BY <2>2, <1>0, <1>1, <1>3, MulLess
  <2>4. q + c <= L
    BY <2>3, <1>1, <1>3
  <2>5. (L - (q + c)) * S >= 0
    BY <2>4, <1>0, <1>1, <1>3
  <2>6. (L - (q + c)) * S = L * S - (q + c) * S /\ L * S = S * L /\ (q + c) * S \in Int
    BY <1>0, <1>1, <1>3
  <2>. QED
    BY <2>5, <2>6, <2>1, <1>3
<1>7. /\ buf \in Seq(Byte) /\ Len(buf) = c * S
      /\ \A k \in 1 .. c * S : buf[k] = d[q * S + k]
  <2>1. \A k \in q * S + 1 .. (q + c) * S : d[k] \in Byte
    BY <1>5, <1>6
  <2>2. q * S + 1 \in Int /\ (q + c) * S \in Int
    BY <1>5
  <2>3. /\ buf \in Seq(Byte)
        /\ Len(buf) = IF q * S + 1 <= (q + c) * S THEN (q + c) * S - (q * S + 1) + 1 ELSE 0
        /\ \A k \in 1 .. (q + c) * S - (q * S + 1) + 1 : buf[k] = d[(q * S + 1) + k - 1]
    BY <2>1, <2>2, <1>4, SubSeqProperties
  <2>4. Len(buf) = c * S
    BY <2>3, <1>5
  <2>5. ASSUME NEW k \in 1 .. c * S PROVE buf[k] = d[q * S + k]
    <3>1. k \in 1 .. (q + c) * S - (q * S + 1) + 1 /\ (q * S + 1) + k - 1 = q * S + k
      BY <1>5
    <3>. QED
      BY <3>1, <2>3
  <2>. QED
    BY <2>3, <2>4, <2>5
<1>8. /\ new \in Seq(Byte) /\ Len(new) = c * S
      /\ \A k \in 1 .. c * S : new[k] = IF k \in r + 1 .. r + n THEN data[k - r] ELSE buf[k]
  <2>1. r \in Nat
    BY <1>0, <1>1
  <2>. QED
    BY <2>1, <1>7, OverwriteKeeps DEF n
<1>. HIDE DEF new
<1>. DEFINE w == Overwrite(d, q * S, new)
<1>9. /\ w \in Seq(Byte) /\ Len(w) = Len(d)
      /\ \A k \in 1 .. Len(d) :
             w[k] = IF k \in q * S + 1 .. q * S + c * S THEN new[k - q * S] ELSE d[k]
  BY <1>5, <1>8, OverwriteKeeps
<1>. HIDE DEF w
<1>10. ASSUME NEW k \in 1 .. Len(d), k \notin off + 1 .. off + n PROVE w[k] = d[k]
  <2>1. CASE k \notin q * S + 1 .. q * S + c * S
    BY <2>1, <1>9
  <2>2. CASE k \in q * S + 1 .. q * S + c * S
    <3>1. k - q * S \in 1 .. c * S /\ k - q * S \notin r + 1 .. r + n /\ q * S + (k - q * S) = k
      BY <2>2, <1>10, <1>0, <1>1, <1>5
    <3>2. w[k] = buf[k - q * S]
      BY <2>2, <3>1, <1>8, <1>9
    <3>. QED
      BY <3>1, <3>2, <1>7
  <2>. QED
    BY <2>1, <2>2
<1>. QED
  BY <1>4, <1>9, <1>10 DEF SameOutside, w, n

-----------------------------------------------------------------------------
(***************************************************************************)
(* The inductive invariant.  Between the capability check and the          *)
(* operation a call waits with its arguments, and a write that waits was   *)
(* granted.  A descriptor of a path outside /dev/ has its file, for files  *)
(* are never removed: without that, a file created again would be shorter  *)
(* than the offsets that are left on it.                                   *)
(***************************************************************************)
Tables == DOMAIN fd_tables = Sessions

CallsOK ==
    /\ DOMAIN calls = Sessions
    /\ \A s \in Sessions :
          /\ calls[s].op = "open" => calls[s].path \in Paths /\ calls[s].write \in BOOLEAN
          /\ calls[s].op = "read" => calls[s].size \in Nat
          /\ calls[s].op = "write" => calls[s].data \in Seq(Byte \ {0}) /\ "FS_WRITE" \in Granted[s]

FilesStay ==
    \A s \in Sessions : \A fd \in DOMAIN fd_tables[s] :
        fd_tables[s][fd].path \in DevPaths \cup DOMAIN ramfs

IInv ==
    /\ Tables /\ TypeOK /\ CallsOK /\ FilesStay
    /\ FdsUnique /\ OffsetsInFile /\ SmallTransfersComplete

LEMMA InitInv == Init => IInv
<1>. SUFFICES ASSUME Init PROVE IInv
  OBVIOUS
<1>1. Tables /\ CallsOK /\ FilesStay /\ FdsUnique /\ SmallTransfersComplete
  BY DEF Init, Tables, CallsOK, FilesStay, FdsUnique, SmallTransfersComplete, NoCall
<1>2. fb \in [1 .. FB_LEN -> Byte]
  BY DriverAssumption DEF Init
<1>3. \A p \in DOMAIN ramfs : ramfs[p] \in Seq(Byte \ {0}) /\ ramfs[p] \in Seq(Byte)
  BY VfsAssumption DEF Init
<1>4. TypeOK
  BY <1>2, <1>3, VfsAssumption DEF Init, TypeOK
<1>5. OffsetsInFile
  BY <1>3 DEF Init, OffsetsInFile
<1>. QED
  BY <1>1, <1>4, <1>5 DEF IInv

-----------------------------------------------------------------------------
(* What stays when the tables, the files and the devices stay.             *)
LEMMA StoreStays ==
    ASSUME IInv, UNCHANGED <<fd_tables, ramfs, next_fd, fb, disk, status>>,
           expired' \subseteq Sessions
    PROVE  Tables' /\ TypeOK' /\ FilesStay' /\ FdsUnique' /\ OffsetsInFile'
<1>1. Tables' /\ FilesStay' /\ FdsUnique'
  BY DEF IInv, Tables, FilesStay, FdsUnique
<1>2. TypeOK'
  BY DEF IInv, TypeOK
<1>3. OffsetsInFile'
  BY DEF IInv, OffsetsInFile, Device
<1>. QED
  BY <1>1, <1>2, <1>3

(* A call that returns leaves the others waiting as they were.             *)
LEMMA CallReturned ==
    ASSUME IInv, NEW s \in Sessions, calls' = [calls EXCEPT ![s] = NoCall]
    PROVE  CallsOK'
  BY DEF IInv, CallsOK, NoCall

(* While the kernel is up nothing has panicked.                            *)
LEMMA StillUp ==
    ASSUME status' = "up"
    PROVE  SmallTransfersComplete'
  BY DEF SmallTransfersComplete

LEMMA BeginInv ==
    ASSUME IInv, status = "up", NEW s \in Sessions, CallOpen(s) \/ CallRead(s) \/ CallWrite(s)
    PROVE  IInv'
<1>1. /\ UNCHANGED <<fd_tables, ramfs, next_fd, fb, disk, expired, status>>
  BY DEF CallOpen, CallRead, CallWrite, Begin
<1>2. expired' \subseteq Sessions /\ status' = "up"
  BY <1>1 DEF IInv, TypeOK
<1>3. CallsOK'
  <2>1. CASE CallOpen(s)
    <3>1. PICK p \in Paths, w \in BOOLEAN :
             calls' = [calls EXCEPT ![s] = [op |-> "open", path |-> p, write |-> w]]
      BY <2>1 DEF CallOpen, Begin
    <3>. QED
      BY <3>1 DEF IInv, CallsOK
  <2>2. CASE CallRead(s)
    <3>1. PICK fd \in 3 .. next_fd, n \in ReadSizes :
             calls' = [calls EXCEPT ![s] = [op |-> "read", fd |-> fd, size |-> n]]
      BY <2>2 DEF CallRead, Begin
    <3>. QED
      BY <3>1, VfsAssumption DEF IInv, CallsOK
  <2>3. CASE CallWrite(s)
    <3>1. PICK fd \in 3 .. next_fd, data \in Chunks :
             /\ "FS_WRITE" \in Granted[s]
             /\ calls' = [calls EXCEPT ![s] = [op |-> "write", fd |-> fd, data |-> data]]
      BY <2>3 DEF CallWrite, Begin, rust_check_capability
    <3>2. data \in Seq(Byte \ {0})
      BY VfsAssumption
    <3>. QED
      BY <3>1, <3>2 DEF IInv, CallsOK
  <2>. QED
    BY <2>1, <2>2, <2>3
<1>. QED
  BY <1>1, <1>2, <1>3, StoreStays, StillUp DEF IInv

LEMMA FailInv ==
    ASSUME IInv, status = "up", NEW s \in Sessions, NEW op, Fail(s, op)
    PROVE  IInv'
<1>1. UNCHANGED <<fd_tables, ramfs, next_fd, fb, disk, expired, status>>
  BY DEF Fail
<1>2. calls' = [calls EXCEPT ![s] = NoCall]
  BY DEF Fail, Return
<1>3. expired' \subseteq Sessions /\ status' = "up"
  BY <1>1 DEF IInv, TypeOK
<1>. QED
  BY <1>1, <1>2, <1>3, CallReturned, StoreStays, StillUp DEF IInv

LEMMA ExpireInv ==
    ASSUME IInv, status = "up", NEW s \in Sessions, Expire(s)
    PROVE  IInv'
<1>1. UNCHANGED <<fd_tables, ramfs, next_fd, fb, disk, calls, status>> /\ expired' \subseteq Sessions
  BY DEF Expire, IInv, TypeOK
<1>2. CallsOK'
  BY <1>1 DEF IInv, CallsOK
<1>. QED
  BY <1>1, <1>2, StoreStays, StillUp DEF IInv

LEMMA AtaPanicInv ==
    ASSUME IInv, NEW s \in Sessions, AtaPanic(s)
    PROVE  IInv'
<1>. DEFINE d == fd_tables[s][calls[s].fd]
            n == TransferSize(s)
<1>1. /\ calls[s].op \in {"read", "write"} /\ calls[s].fd \in DOMAIN fd_tables[s]
      /\ ~InSectors(d.offset, n)
      /\ status' = "panicked" /\ UNCHANGED <<fd_tables, ramfs, next_fd, fb, disk, expired, calls>>
  BY DEF AtaPanic
<1>2. n \in Nat
  BY <1>1 DEF IInv, CallsOK, TransferSize
<1>3. d.offset \in Nat
  BY <1>1, VfsAssumption DEF IInv, TypeOK, Descriptors
<1>4. n > SafeTransfer
  <2>1. SafeTransfer \in Int
    BY DriverAssumption DEF SafeTransfer
  <2>. QED
    BY <2>1, <1>1, <1>2, <1>3, SmallFits
<1>5. SmallTransfersComplete'
  BY <1>1, <1>4 DEF SmallTransfersComplete, TransferSize
<1>6. Tables' /\ FilesStay' /\ FdsUnique' /\ CallsOK'
  BY <1>1 DEF IInv, Tables, FilesStay, FdsUnique, CallsOK
<1>7. TypeOK'
  BY <1>1 DEF IInv, TypeOK
<1>8. OffsetsInFile'
  BY <1>1 DEF IInv, OffsetsInFile, Device
<1>. QED
  BY <1>5, <1>6, <1>7, <1>8 DEF IInv

-----------------------------------------------------------------------------
(* open numbers its descriptor with next_fd, which no table holds yet.     *)
LEMMA OpenEffect ==
    ASSUME IInv, NEW s \in Sessions, Open(s)
    PROVE  /\ DOMAIN fd_tables' = Sessions
           /\ \A t \in Sessions \ {s} : fd_tables'[t] = fd_tables[t]
           /\ DOMAIN fd_tables'[s] = DOMAIN fd_tables[s] \cup {next_fd}
           /\ \A fd \in DOMAIN fd_tables[s] : fd_tables'[s][fd] = fd_tables[s][fd]
           /\ fd_tables'[s][next_fd] = Descriptor(calls[s].path, calls[s].write)
<1>. DEFINE d == Descriptor(calls[s].path, calls[s].write)
            new == insert(fd_tables[s], next_fd, d)
<1>1. fd_tables' = [fd_tables EXCEPT ![s] = new]
  BY DEF Open, new_fd
<1>2. next_fd \notin DOMAIN fd_tables[s]
  BY DEF IInv, FdsUnique, TypeOK
<1>3. /\ DOMAIN new = DOMAIN fd_tables[s] \cup {next_fd} /\ new[next_fd] = d
      /\ \A fd \in DOMAIN fd_tables[s] : new[fd] = fd_tables[s][fd]
  BY <1>2 DEF insert
<1>. HIDE DEF new, d
<1>. QED
  BY <1>1, <1>3 DEF IInv, Tables, d

(* ... and creates at most the file it opens, empty.                       *)
LEMMA CreatedFile ==
    ASSUME IInv, NEW s \in Sessions, Open(s)
    PROVE  /\ DOMAIN ramfs \subseteq DOMAIN ramfs'
           /\ DOMAIN ramfs' \subseteq DOMAIN ramfs \cup {calls[s].path}
           /\ DOMAIN ramfs' \subseteq Paths \ DevPaths
           /\ calls[s].path \in Paths /\ calls[s].write \in BOOLEAN
           /\ calls[s].path \in DevPaths \cup DOMAIN ramfs'
           /\ \A p \in DOMAIN ramfs : ramfs'[p] = ramfs[p]
           /\ \A p \in DOMAIN ramfs' \ DOMAIN ramfs : ramfs'[p] = <<>>
<1>1. calls[s].path \in Paths /\ calls[s].write \in BOOLEAN
  BY DEF Open, Return, IInv, CallsOK
<1>2. ramfs' = Created(calls[s]) /\ Opens(calls[s])
  BY DEF Open
<1>3. calls[s].path \in DevPaths \cup DOMAIN ramfs'
  BY <1>2 DEF Opens
<1>4. DOMAIN ramfs \subseteq Paths \ DevPaths
  BY DEF IInv, TypeOK
<1>. QED
  BY <1>1, <1>2, <1>3, <1>4 DEF Created, insert

LEMMA OpenInv ==
    ASSUME IInv, status = "up", NEW s \in Sessions, Open(s)
    PROVE  IInv'
<1>0. /\ next_fd < MaxFd /\ next_fd' = next_fd + 1
      /\ UNCHANGED <<fb, disk, expired, status>>
      /\ calls' = [calls EXCEPT ![s] = NoCall]
  BY DEF Open, Return
<1>. DEFINE d == Descriptor(calls[s].path, calls[s].write)
<1>1. d \in Descriptors /\ d.offset = 0 /\ d.path = calls[s].path
  BY CreatedFile, VfsAssumption DEF Descriptor, Descriptors
<1>2. /\ DOMAIN fd_tables' = Sessions
      /\ \A t \in Sessions \ {s} : fd_tables'[t] = fd_tables[t]
      /\ DOMAIN fd_tables'[s] = DOMAIN fd_tables[s] \cup {next_fd}
      /\ \A fd \in DOMAIN fd_tables[s] : fd_tables'[s][fd] = fd_tables[s][fd]
      /\ fd_tables'[s][next_fd] = d
  BY OpenEffect
<1>. HIDE DEF d
<1>3. next_fd \in 3 .. MaxFd /\ next_fd' \in 3 .. MaxFd /\ next_fd \in Nat /\ MaxFd \in Nat
  BY <1>0, VfsAssumption DEF IInv, TypeOK
<1>4. \A t \in Sessions : \A fd \in DOMAIN fd_tables'[t] :
          \/ t = s /\ fd = next_fd /\ fd_tables'[t][fd] = d
          \/ fd \in DOMAIN fd_tables[t] /\ fd_tables'[t][fd] = fd_tables[t][fd]
  BY <1>2
<1>5. Tables' /\ CallsOK' /\ SmallTransfersComplete'
  BY <1>0, <1>2, CallReturned, StillUp DEF Tables
<1>6. \A p \in DOMAIN ramfs' : ramfs'[p] \in Seq(Byte)
  <2>1. <<>> \in Seq(Byte)
    OBVIOUS
  <2>2. ASSUME NEW p \in DOMAIN ramfs PROVE ramfs'[p] \in Seq(Byte)
    BY <2>2, CreatedFile DEF IInv, TypeOK
  <2>3. ASSUME NEW p \in DOMAIN ramfs' \ DOMAIN ramfs PROVE ramfs'[p] = <<>>
    BY CreatedFile
  <2>. QED
    BY <2>1, <2>2, <2>3
<1>7. TypeOK'
  BY <1>0, <1>1, <1>3, <1>4, <1>6, CreatedFile DEF IInv, TypeOK
<1>8. FilesStay'
  BY <1>1, <1>4, CreatedFile DEF IInv, FilesStay
<1>9. FdsUnique'
  <2>1. SUFFICES ASSUME NEW t \in Sessions, NEW fd \in DOMAIN fd_tables'[t]
                 PROVE  fd < next_fd' /\ \A u \in Sessions \ {t} : fd \notin DOMAIN fd_tables'[u]
    BY DEF FdsUnique
  <2>2. \A u \in Sessions : \A k \in DOMAIN fd_tables[u] : k \in Nat /\ k < next_fd
    BY VfsAssumption DEF IInv, FdsUnique, TypeOK
  <2>3. fd < next_fd'
    BY <1>0, <1>3, <1>4, <2>2
  <2>4. ASSUME NEW u \in Sessions \ {t}, fd \in DOMAIN fd_tables'[u] PROVE FALSE
    <3>1. CASE fd = next_fd
      BY <3>1, <2>2, <2>4, <1>3, <1>4
    <3>2. CASE fd # next_fd
      BY <3>2, <2>4, <1>4 DEF IInv, FdsUnique
    <3>. QED
      BY <3>1, <3>2
  <2>. QED
    BY <2>3, <2>4
<1>10. OffsetsInFile'
  <2>1. ASSUME NEW t \in Sessions, NEW fd \in DOMAIN fd_tables'[t]
        PROVE  LET e == fd_tables'[t][fd]
               IN  /\ e.path \in DOMAIN ramfs' \ DOMAIN Ext2Files => e.offset <= Len(ramfs'[e.path])
                   /\ Device(e.path) = "fb0" => e.offset <= FB_LEN
    <3>1. CASE fd_tables'[t][fd] = d
      <4>1. \A p \in DOMAIN ramfs' : Len(ramfs'[p]) \in Nat
        BY <1>6
      <4>. QED
        BY <3>1, <1>1, <4>1, VfsAssumption
    <3>2. CASE fd \in DOMAIN fd_tables[t] /\ fd_tables'[t][fd] = fd_tables[t][fd]
      <4>1. fd_tables[t][fd].path \in DevPaths \cup DOMAIN ramfs
        BY <3>2 DEF IInv, FilesStay
      <4>2. fd_tables[t][fd].path \in DOMAIN ramfs' => fd_tables[t][fd].path \in DOMAIN ramfs
        BY <4>1, CreatedFile
      <4>. QED
        BY <3>2, <4>2, CreatedFile DEF IInv, OffsetsInFile
    <3>. QED
      BY <3>1, <3>2, <1>4
  <2>2. \A p \in DOMAIN ramfs' \ DOMAIN Ext2Files : ramfs'[p] \in Seq(Byte \ {0})
    <3>1. <<>> \in Seq(Byte \ {0})
      OBVIOUS
    <3>2. ASSUME NEW p \in DOMAIN ramfs \ DOMAIN Ext2Files PROVE ramfs'[p] \in Seq(Byte \ {0})
      BY <3>2, CreatedFile DEF IInv, OffsetsInFile
    <3>3. ASSUME NEW p \in DOMAIN ramfs' \ DOMAIN ramfs PROVE ramfs'[p] = <<>>
      BY CreatedFile
    <3>. QED
      BY <3>1, <3>2, <3>3
  <2>. QED
    BY <2>1, <2>2 DEF OffsetsInFile, Device
<1>. QED
  BY <1>5, <1>7, <1>8, <1>9, <1>10 DEF IInv

LEMMA CloseInv ==
    ASSUME IInv, status = "up", NEW s \in Sessions, Close(s)
    PROVE  IInv'
<1>1. UNCHANGED <<ramfs, next_fd, fb, disk, expired, calls, status>>
  BY DEF Close
<1>2. PICK fd \in DOMAIN fd_tables[s] :
          fd_tables' = [fd_tables EXCEPT ![s] = [k \in DOMAIN fd_tables[s] \ {fd} |-> fd_tables[s][k]]]
  BY DEF Close
<1>3. Tables' /\ \A t \in Sessions : \A k \in DOMAIN fd_tables'[t] :
          k \in DOMAIN fd_tables[t] /\ fd_tables'[t][k] = fd_tables[t][k]
  BY <1>2 DEF IInv, Tables
<1>4. CallsOK' /\ SmallTransfersComplete'
  BY <1>1, StillUp DEF IInv, CallsOK
<1>5. TypeOK'
  BY <1>1, <1>3 DEF IInv, TypeOK
<1>6. FilesStay' /\ FdsUnique'
  BY <1>1, <1>3 DEF IInv, FilesStay, FdsUnique
<1>7. OffsetsInFile'
  BY <1>1, <1>3 DEF IInv, OffsetsInFile, Device
<1>. QED
  BY <1>3, <1>4, <1>5, <1>6, <1>7 DEF IInv

-----------------------------------------------------------------------------
(* A transfer moves the offset of one descriptor and nothing else in the   *)
(* tables.                                                                 *)
Moved(s, fd, n) ==
    /\ DOMAIN fd_tables' = Sessions
    /\ \A t \in Sessions : DOMAIN fd_tables'[t] = DOMAIN fd_tables[t]
    /\ \A t \in Sessions : \A k \in DOMAIN fd_tables[t] :
          <<t, k>> # <<s, fd>> => fd_tables'[t][k] = fd_tables[t][k]
    /\ fd_tables'[s][fd] \in Descriptors
    /\ fd_tables'[s][fd].path = fd_tables[s][fd].path
    /\ fd_tables'[s][fd].offset = fd_tables[s][fd].offset + n

LEMMA AdvanceEffect ==
    ASSUME IInv, NEW s \in Sessions, NEW fd \in DOMAIN fd_tables[s], NEW n \in Nat,
           Advance(s, fd, n)
    PROVE  Moved(s, fd, n)
<1>. DEFINE d == fd_tables[s][fd]
            e == [d EXCEPT !.offset = d.offset + n]
            table == [fd_tables[s] EXCEPT ![fd] = e]
<1>1. d \in Descriptors /\ d.offset \in Nat
  BY VfsAssumption DEF IInv, TypeOK, Descriptors
<1>2. d.offset + n \in 0 .. MaxOffset
  BY <1>1, VfsAssumption DEF Advance
<1>3. e \in Descriptors /\ e.path = d.path /\ e.offset = d.offset + n
  BY <1>1, <1>2 DEF Descriptors
<1>4. fd_tables' = [fd_tables EXCEPT ![s] = table]
  BY Zenon DEF Advance
<1>. HIDE DEF e
<1>5. /\ DOMAIN table = DOMAIN fd_tables[s] /\ table[fd] = e
      /\ \A k \in DOMAIN fd_tables[s] : k # fd => table[k] = fd_tables[s][k]
  OBVIOUS
<1>. HIDE DEF table
<1>6. /\ DOMAIN fd_tables' = Sessions /\ fd_tables'[s] = table
      /\ \A t \in Sessions : t # s => fd_tables'[t] = fd_tables[t]
  BY <1>4 DEF IInv, Tables
<1>7. \A t \in Sessions : DOMAIN fd_tables'[t] = DOMAIN fd_tables[t]
  BY <1>5, <1>6
<1>8. ASSUME NEW t \in Sessions, NEW k \in DOMAIN fd_tables[t], <<t, k>> # <<s, fd>>
      PROVE  fd_tables'[t][k] = fd_tables[t][k]
  <2>1. CASE t = s
    BY <2>1, <1>5, <1>6, <1>8
  <2>2. CASE t # s
    BY <2>2, <1>6
  <2>. QED
    BY <2>1, <2>2
<1>. QED
  BY <1>3, <1>5, <1>6, <1>7, <1>8 DEF Moved

(* If the files only grow, and the descriptor that moved stays in its own  *)
(* file, so does every other.                                              *)
LEMMA MovedInv ==
    ASSUME IInv, NEW s \in Sessions, NEW fd \in DOMAIN fd_tables[s], NEW n \in Nat,
           Moved(s, fd, n), next_fd' = next_fd,
           DOMAIN ramfs' = DOMAIN ramfs,
           \A p \in DOMAIN ramfs : ramfs'[p] \in Seq(Byte) /\ Len(ramfs[p]) <= Len(ramfs'[p]),
           \A p \in DOMAIN ramfs \ DOMAIN Ext2Files : ramfs'[p] \in Seq(Byte \ {0}),
           LET d == fd_tables[s][fd]
           IN  /\ d.path \in DOMAIN ramfs \ DOMAIN Ext2Files => d.offset + n <= Len(ramfs'[d.path])
               /\ Device(d.path) = "fb0" => d.offset + n <= FB_LEN
    PROVE  /\ Tables' /\ FilesStay' /\ FdsUnique' /\ OffsetsInFile'
           /\ \A t \in Sessions : \A k \in DOMAIN fd_tables'[t] :
                 k \in 3 .. MaxFd /\ fd_tables'[t][k] \in Descriptors
<1>1. /\ DOMAIN fd_tables' = Sessions
      /\ \A t \in Sessions : DOMAIN fd_tables'[t] = DOMAIN fd_tables[t]
      /\ \A t \in Sessions : \A k \in DOMAIN fd_tables[t] :
            <<t, k>> # <<s, fd>> => fd_tables'[t][k] = fd_tables[t][k]
      /\ fd_tables'[s][fd] \in Descriptors
      /\ fd_tables'[s][fd].path = fd_tables[s][fd].path
      /\ fd_tables'[s][fd].offset = fd_tables[s][fd].offset + n
  BY DEF Moved
<1>2. Tables' /\ FdsUnique'
  BY <1>1 DEF IInv, Tables, FdsUnique
<1>3. \A t \in Sessions : \A k \in DOMAIN fd_tables[t] : fd_tables'[t][k].path = fd_tables[t][k].path
  BY <1>1
<1>4. FilesStay'
  BY <1>1, <1>3 DEF IInv, FilesStay
<1>5. \A t \in Sessions : \A k \in DOMAIN fd_tables'[t] :
         k \in 3 .. MaxFd /\ fd_tables'[t][k] \in Descriptors
  <2>1. \A t \in Sessions : \A k \in DOMAIN fd_tables[t] :
           k \in 3 .. MaxFd /\ fd_tables[t][k] \in Descriptors
    BY DEF IInv, TypeOK
  <2>2. \A t \in Sessions : \A k \in DOMAIN fd_tables[t] : fd_tables'[t][k] \in Descriptors
    BY <2>1, <1>1
  <2>. QED
    BY <2>1, <2>2, <1>1
<1>6. ASSUME NEW t \in Sessions, NEW k \in DOMAIN fd_tables'[t]
      PROVE  LET e == fd_tables'[t][k]
             IN  /\ e.path \in DOMAIN ramfs' \ DOMAIN Ext2Files => e.offset <= Len(ramfs'[e.path])
                 /\ Device(e.path) = "fb0" => e.offset <= FB_LEN
  <2>1. CASE <<t, k>> = <<s, fd>>
    BY <2>1, <1>1
  <2>2. CASE <<t, k>> # <<s, fd>>
    <3>. DEFINE e == fd_tables[t][k]
    <3>1. k \in DOMAIN fd_tables[t] /\ fd_tables'[t][k] = e
      BY <2>2, <1>1
    <3>2. e.offset \in Nat
      BY <3>1, VfsAssumption DEF IInv, TypeOK, Descriptors
    <3>3. /\ e.path \in DOMAIN ramfs \ DOMAIN Ext2Files => e.offset <= Len(ramfs[e.path])
          /\ Device(e.path) = "fb0" => e.offset <= FB_LEN
      BY <3>1 DEF IInv, OffsetsInFile
    <3>4. \A p \in DOMAIN ramfs : Len(ramfs[p]) \in Nat /\ Len(ramfs'[p]) \in Nat
      BY DEF IInv, TypeOK
    <3>. QED
      BY <3>1, <3>2, <3>3, <3>4
  <2>. QED
    BY <2>1, <2>2
<1>7. OffsetsInFile'
  BY <1>6 DEF OffsetsInFile, Device
<1>. QED
  BY <1>2, <1>4, <1>5, <1>7

-----------------------------------------------------------------------------
(* What is read is as long as the file has it.                             *)
LEMMA ReadLength ==
    ASSUME IInv, NEW s \in Sessions, NEW fd \in DOMAIN fd_tables[s], NEW n \in Nat,
           Readable(fd_tables[s][fd].path)
    PROVE  LET d == fd_tables[s][fd]
               len == Len(ReadData(d.path, d.offset, n))
           IN  /\ len \in Nat
               /\ d.path \in DOMAIN ramfs \ DOMAIN Ext2Files => d.offset + len <= Len(ramfs[d.path])
               /\ Device(d.path) = "fb0" => d.offset + len <= FB_LEN
<1>. DEFINE d == fd_tables[s][fd]
            p == d.path
            off == d.offset
            data == ReadData(p, off, n)
            Inside == /\ Len(data) \in Nat
                      /\ p \in DOMAIN ramfs \ DOMAIN Ext2Files => off + Len(data) <= Len(ramfs[p])
                      /\ Device(p) = "fb0" => off + Len(data) <= FB_LEN
<1>1. off \in Nat /\ p \in Paths
  BY VfsAssumption DEF IInv, TypeOK, Descriptors
<1>2. /\ DOMAIN ramfs \subseteq Paths \ DevPaths /\ \A q \in DOMAIN ramfs : ramfs[q] \in Seq(Byte)
      /\ fb \in [1 .. FB_LEN -> Byte] /\ disk \in Seq(Byte)
  BY DEF IInv, TypeOK
<1>3. /\ p \in DOMAIN ramfs \ DOMAIN Ext2Files => off <= Len(ramfs[p])
      /\ Device(p) = "fb0" => off <= FB_LEN
  BY DEF IInv, OffsetsInFile
<1>0. p \in DOMAIN Devices \cup DOMAIN Ext2Files \cup DOMAIN ramfs
  BY DEF Readable
<1>. HIDE DEF d
<1>. SUFFICES Inside
  BY DEF d
<1>4. CASE p \in DOMAIN Devices
  <2>0. p \notin DOMAIN ramfs /\ Device(p) = Devices[p] /\ data = read_device(p, off, n)
    BY <1>2, <1>4, VfsAssumption DEF Device, ReadData
  <2>. HIDE DEF data
  <2>1. CASE Device(p) = "null"
    <3>1. data = <<>>
      BY <2>0, <2>1 DEF read_device
    <3>. QED
      BY <3>1, <2>0, <2>1
  <2>2. CASE Device(p) = "urandom"
    <3>1. data = urandom_read(n)
      BY <2>0, <2>2 DEF read_device
    <3>2. [k \in 1 .. n |-> 0] \in [1 .. n -> Byte]
      BY DriverAssumption
    <3>3. data \in [1 .. n -> Byte]
      BY <3>1, <3>2, Zenon DEF urandom_read
    <3>4. Len(data) = n
      BY <3>3
    <3>. QED
      BY <3>4, <2>0, <2>2
  <2>3. CASE Device(p) = "fb0"
    <3>1. data = Window(fb, off, n)
      BY <2>0, <2>3 DEF read_device
    <3>2. fb \in Seq(Byte) /\ Len(fb) = FB_LEN
      BY <1>2, VfsAssumption
    <3>3. Len(data) \in Nat /\ off + Len(data) <= FB_LEN
      BY <3>1, <3>2, <2>3, <1>1, <1>3, WindowEnds
    <3>. QED
      BY <3>3, <2>0
  <2>4. CASE Device(p) = "hda"
    <3>1. data = SubSeq(hda_sectors(disk, off, n), start_idx(off) + 1, start_idx(off) + n)
      BY <2>0, <2>4 DEF read_device, hda_read
    <3>2. start_idx(off) \in Nat
      BY <1>1, DriverAssumption, DivMod DEF start_idx
    <3>3. start_idx(off) + 1 \in Int /\ start_idx(off) + n \in Int
      BY <3>2
    <3>4. Len(data) \in Nat
      BY <3>1, <3>3, SubSeqLength
    <3>. QED
      BY <3>4, <2>0, <2>4
  <2>. QED
    BY <2>0, <2>1, <2>2, <2>3, <2>4, <1>4, VfsAssumption
<1>5. CASE p \in DOMAIN Ext2Files
  <2>1. p \notin DOMAIN Devices /\ Device(p) # "fb0" /\ data = Window(Ext2Content(p), off, n)
    BY <1>5, VfsAssumption DEF Device, ReadData
  <2>2. Ext2Content(p) \in Seq(Byte)
    <3>. DEFINE a == Ext2Files[p].at
                l == Ext2Files[p].len
    <3>1. a \in Nat /\ l \in Nat /\ a + l <= Len(disk)
      BY <1>5, VfsAssumption DEF IInv, TypeOK
    <3>. HIDE DEF a, l
    <3>2. \A k \in a + 1 .. a + l : disk[k] \in Byte
      BY <3>1, <1>2
    <3>. QED
      BY <3>1, <3>2, SubSeqProperties DEF Ext2Content, a, l
  <2>3. Len(data) \in Nat
    BY <2>1, <2>2, <1>1, WindowEnds
  <2>. QED
    BY <2>1, <2>3, <1>5
<1>6. CASE p \in DOMAIN ramfs \ (DOMAIN Devices \cup DOMAIN Ext2Files)
  <2>1. Device(p) # "fb0" /\ data = Window(ramfs[p], off, n)
    BY <1>6 DEF Device, ReadData
  <2>2. Len(data) \in Nat /\ off + Len(data) <= Len(ramfs[p])
    BY <2>1, <1>1, <1>2, <1>3, <1>6, WindowEnds
  <2>. QED
    BY <2>1, <2>2
<1>. QED
  BY <1>0, <1>4, <1>5, <1>6

LEMMA ReadInv ==
    ASSUME IInv, status = "up", NEW s \in Sessions, Read(s)
    PROVE  IInv'
<1>. DEFINE fd == calls[s].fd
            d == fd_tables[s][fd]
            n == calls[s].size
            len == Len(ReadData(d.path, d.offset, n))
<1>1. /\ calls[s].op = "read" /\ fd \in DOMAIN fd_tables[s] /\ Readable(d.path)
      /\ Advance(s, fd, len) /\ calls' = [calls EXCEPT ![s] = NoCall]
      /\ UNCHANGED <<ramfs, next_fd, fb, disk, expired, status>>
  BY DEF Read, Return
<1>2. n \in Nat
  BY <1>1 DEF IInv, CallsOK
<1>3. /\ len \in Nat
      /\ d.path \in DOMAIN ramfs \ DOMAIN Ext2Files => d.offset + len <= Len(ramfs[d.path])
      /\ Device(d.path) = "fb0" => d.offset + len <= FB_LEN
  BY <1>1, <1>2, ReadLength
<1>. HIDE DEF len
<1>4. Moved(s, fd, len)
  BY <1>1, <1>3, AdvanceEffect
<1>5. /\ \A p \in DOMAIN ramfs : ramfs'[p] \in Seq(Byte) /\ Len(ramfs[p]) <= Len(ramfs'[p])
      /\ \A p \in DOMAIN ramfs \ DOMAIN Ext2Files : ramfs'[p] \in Seq(Byte \ {0})
  BY <1>1 DEF IInv, TypeOK, OffsetsInFile
<1>6. /\ Tables' /\ FilesStay' /\ FdsUnique' /\ OffsetsInFile'
      /\ \A t \in Sessions : \A k \in DOMAIN fd_tables'[t] :
            k \in 3 .. MaxFd /\ fd_tables'[t][k] \in Descriptors
  BY <1>1, <1>3, <1>4, <1>5, MovedInv
<1>7. TypeOK'
  BY <1>1, <1>6 DEF IInv, TypeOK
<1>. QED
  BY <1>1, <1>6, <1>7, CallReturned, StillUp DEF IInv

-----------------------------------------------------------------------------
(* What a write leaves behind: everything keeps its type and no file is    *)
(* shorter; the file that was written ends no earlier than the new offset; *)
(* and only the device or file of the path differs, in the slice.          *)
Stored(p, off, n) ==
    /\ DOMAIN ramfs' = DOMAIN ramfs
    /\ \A q \in DOMAIN ramfs : ramfs'[q] \in Seq(Byte) /\ Len(ramfs[q]) <= Len(ramfs'[q])
    /\ \A q \in DOMAIN ramfs \ DOMAIN Ext2Files : ramfs'[q] \in Seq(Byte \ {0})
    /\ fb' \in [1 .. FB_LEN -> Byte] /\ disk' \in Seq(Byte) /\ Len(disk') = Len(disk)
    /\ p \in DOMAIN ramfs \ DOMAIN Ext2Files => off + n <= Len(ramfs'[p])
    /\ Device(p) = "fb0" => off + n <= FB_LEN
    /\ \A q \in DOMAIN ramfs : ramfs'[q] # ramfs[q] => q = p /\ SameOutside(ramfs'[q], ramfs[q], off, off + n)
    /\ disk' # disk => Device(p) = "hda" /\ SameOutside(disk', disk, off, off + n)
    /\ fb' # fb => Device(p) = "fb0" /\ SameOutside(fb', fb, off, off + n)

LEMMA RamStored ==
    ASSUME IInv, NEW p \in Paths, NEW off \in Nat, NEW data \in Seq(Byte \ {0}),
           p \in DOMAIN ramfs \ DOMAIN Ext2Files => off <= Len(ramfs[p]),
           WriteRam(p, off, data)
    PROVE  Stored(p, off, Len(data)) /\ written(p, off, data) = Len(data)
<1>. DEFINE new == Overwrite(Resized(ramfs[p], off + Len(data)), off, data)
<1>1. p \in DOMAIN ramfs \ DevPaths /\ fb' = fb /\ disk' = disk
  BY DEF WriteRam
<1>2. ramfs' = [ramfs EXCEPT ![p] = new]
  BY DEF WriteRam
<1>3. Device(p) = "none"
  BY <1>1, VfsAssumption DEF Device
<1>4. /\ \A q \in DOMAIN ramfs : ramfs[q] \in Seq(Byte) /\ Len(ramfs[q]) \in Nat
      /\ fb \in [1 .. FB_LEN -> Byte] /\ disk \in Seq(Byte) /\ Len(data) \in Nat
      /\ \A q \in DOMAIN ramfs \ DOMAIN Ext2Files : ramfs[q] \in Seq(Byte \ {0})
  BY DEF IInv, TypeOK, OffsetsInFile
<1>5. /\ new \in Seq(Byte) /\ Len(new) >= Len(ramfs[p]) /\ Len(new) >= off + Len(data)
      /\ SameOutside(new, ramfs[p], off, off + Len(data))
      /\ p \notin DOMAIN Ext2Files => new \in Seq(Byte \ {0})
  BY <1>1, <1>4, WrittenFile
<1>. HIDE DEF new
<1>6. DOMAIN ramfs' = DOMAIN ramfs /\ ramfs'[p] = new /\ \A q \in DOMAIN ramfs : q # p => ramfs'[q] = ramfs[q]
  BY <1>1, <1>2
<1>7. \A q \in DOMAIN ramfs : ramfs'[q] \in Seq(Byte) /\ Len(ramfs[q]) <= Len(ramfs'[q])
  BY <1>4, <1>5, <1>6
<1>8. \A q \in DOMAIN ramfs \ DOMAIN Ext2Files : ramfs'[q] \in Seq(Byte \ {0})
  BY <1>4, <1>5, <1>6
<1>9. \A q \in DOMAIN ramfs : ramfs'[q] # ramfs[q] =>
          q = p /\ SameOutside(ramfs'[q], ramfs[q], off, off + Len(data))
  BY <1>5, <1>6
<1>10. off + Len(data) <= Len(ramfs'[p])
  BY <1>4, <1>5, <1>6
<1>. QED
  BY <1>1, <1>3, <1>4, <1>6, <1>7, <1>8, <1>9, <1>10 DEF Stored, written

LEMMA FbStored ==
    ASSUME IInv, NEW p \in Paths, NEW off \in Nat, NEW data \in Seq(Byte \ {0}),
           off <= FB_LEN, WriteFb(p, off, data)
    PROVE  Stored(p, off, written(p, off, data)) /\ written(p, off, data) \in Nat
<1>. DEFINE n == written(p, off, data)
<1>1. Device(p) = "fb0" /\ fb' = Overwrite(fb, off, data) /\ ramfs' = ramfs /\ disk' = disk
  BY DEF WriteFb
<1>2. p \notin DOMAIN ramfs
  BY <1>1, VfsAssumption DEF Device, IInv, TypeOK
<1>3. data \in Seq(Byte) /\ Len(data) \in Nat
  OBVIOUS
<1>4. fb \in Seq(Byte) /\ Len(fb) = FB_LEN
  BY VfsAssumption DEF IInv, TypeOK
<1>5. /\ fb' \in Seq(Byte) /\ Len(fb') = FB_LEN
      /\ \A k \in 1 .. FB_LEN :
            fb'[k] = IF k \in off + 1 .. off + Len(data) THEN data[k - off] ELSE fb[k]
  <2>. DEFINE new == Overwrite(fb, off, data)
  <2>1. /\ new \in Seq(Byte) /\ Len(new) = Len(fb)
        /\ \A k \in 1 .. Len(fb) :
              new[k] = IF k \in off + 1 .. off + Len(data) THEN data[k - off] ELSE fb[k]
    BY <1>3, <1>4, OverwriteKeeps
  <2>. HIDE DEF new
  <2>2. fb' = new
    BY <1>1 DEF new
  <2>. QED
    BY <2>1, <2>2, <1>4
<1>6. n \in Nat /\ off + n = IF off + Len(data) <= FB_LEN THEN off + Len(data) ELSE FB_LEN
  <2>1. n = IF off >= Len(fb) THEN 0 ELSE Min({off + Len(data), Len(fb)}) - off
    BY <1>1 DEF written, fb0_write_len
  <2>. HIDE DEF n
  <2>2. Min({off + Len(data), Len(fb)}) = IF off + Len(data) <= Len(fb) THEN off + Len(data) ELSE Len(fb)
    BY <1>3, <1>4, VfsAssumption, MinOfTwo
  <2>3. Len(fb) \in Nat /\ Len(fb) = FB_LEN
    BY <1>4, VfsAssumption
  <2>. QED
    BY <2>1, <2>2, <2>3, <1>3
<1>. HIDE DEF n
<1>7. SameOutside(fb', fb, off, off + n)
  BY <1>3, <1>4, <1>5, <1>6, VfsAssumption DEF SameOutside
<1>8. fb' \in [1 .. FB_LEN -> Byte]
  BY <1>5
<1>9. /\ \A q \in DOMAIN ramfs : ramfs[q] \in Seq(Byte)
      /\ disk \in Seq(Byte)
      /\ \A q \in DOMAIN ramfs \ DOMAIN Ext2Files : ramfs[q] \in Seq(Byte \ {0})
  BY DEF IInv, TypeOK, OffsetsInFile
<1>10. off + n <= FB_LEN
  BY <1>3, <1>6, VfsAssumption
<1>11. \A q \in DOMAIN ramfs : Len(ramfs[q]) <= Len(ramfs[q])
  BY <1>9
<1>12. Stored(p, off, n)
  BY <1>1, <1>2, <1>7, <1>8, <1>9, <1>10, <1>11 DEF Stored
<1>. QED
  BY <1>6, <1>12 DEF n

LEMMA HdaStored ==
    ASSUME IInv, NEW p \in Paths, NEW off \in Nat, NEW data \in Seq(Byte \ {0}),
           WriteHda(p, off, data)
    PROVE  Stored(p, off, Len(data)) /\ written(p, off, data) = Len(data)
<1>1. /\ Device(p) = "hda" /\ off + Len(data) <= Len(disk) /\ InSectors(off, Len(data))
      /\ disk' = hda_write(disk, off, data) /\ ramfs' = ramfs /\ fb' = fb
  BY DEF WriteHda, OnDisk
<1>2. p \notin DOMAIN ramfs
  BY <1>1, VfsAssumption DEF Device, IInv, TypeOK
<1>3. data \in Seq(Byte)
  OBVIOUS
<1>4. disk \in Seq(Byte) /\ Len(disk) % SectorSize = 0
  BY VfsAssumption DEF IInv, TypeOK
<1>5. /\ disk' \in Seq(Byte) /\ Len(disk') = Len(disk)
      /\ SameOutside(disk', disk, off, off + Len(data))
  BY <1>1, <1>3, <1>4, HdaWrite
<1>6. /\ \A q \in DOMAIN ramfs : ramfs[q] \in Seq(Byte)
      /\ fb \in [1 .. FB_LEN -> Byte]
      /\ \A q \in DOMAIN ramfs \ DOMAIN Ext2Files : ramfs[q] \in Seq(Byte \ {0})
  BY DEF IInv, TypeOK, OffsetsInFile
<1>7. \A q \in DOMAIN ramfs : Len(ramfs[q]) <= Len(ramfs[q])
  BY <1>6
<1>. QED
  BY <1>1, <1>2, <1>5, <1>6, <1>7 DEF Stored, written

LEMMA DiscardStored ==
    ASSUME IInv, NEW p \in Paths, NEW off \in Nat, NEW data \in Seq(Byte \ {0}),
           WriteDiscard(p, off, data)
    PROVE  Stored(p, off, Len(data)) /\ written(p, off, data) = Len(data)
<1>1. Device(p) \in {"null", "urandom"} /\ ramfs' = ramfs /\ fb' = fb /\ disk' = disk
  BY DEF WriteDiscard
<1>2. p \notin DOMAIN ramfs
  BY <1>1, VfsAssumption DEF Device, IInv, TypeOK
<1>3. /\ \A q \in DOMAIN ramfs : ramfs[q] \in Seq(Byte)
      /\ fb \in [1 .. FB_LEN -> Byte] /\ disk \in Seq(Byte)
      /\ \A q \in DOMAIN ramfs \ DOMAIN Ext2Files : ramfs[q] \in Seq(Byte \ {0})
  BY DEF IInv, TypeOK, OffsetsInFile
<1>4. \A q \in DOMAIN ramfs : Len(ramfs[q]) <= Len(ramfs[q])
  BY <1>3
<1>. QED
  BY <1>1, <1>2, <1>3, <1>4 DEF Stored, written

(* All four together.                                                      *)
LEMMA WriteEffect ==
    ASSUME IInv, NEW s \in Sessions, Write(s)
    PROVE  LET fd == calls[s].fd
               d == fd_tables[s][fd]
               n == written(d.path, d.offset, calls[s].data)
           IN  /\ fd \in DOMAIN fd_tables[s] /\ d.is_writeable /\ "FS_WRITE" \in Granted[s]
               /\ n \in Nat /\ Moved(s, fd, n) /\ Stored(d.path, d.offset, n)
<1>. DEFINE fd == calls[s].fd
            d == fd_tables[s][fd]
            data == calls[s].data
            n == written(d.path, d.offset, data)
<1>1. /\ calls[s].op = "write" /\ fd \in DOMAIN fd_tables[s] /\ d.is_writeable
      /\ Advance(s, fd, n)
      /\ \/ WriteRam(d.path, d.offset, data)
         \/ WriteFb(d.path, d.offset, data)
         \/ WriteHda(d.path, d.offset, data)
         \/ WriteDiscard(d.path, d.offset, data)
  BY DEF Write, Return, check_fd_permission
<1>2. data \in Seq(Byte \ {0}) /\ "FS_WRITE" \in Granted[s]
  BY <1>1 DEF IInv, CallsOK
<1>3. d.path \in Paths /\ d.offset \in Nat
  BY <1>1, VfsAssumption DEF IInv, TypeOK, Descriptors
<1>4. /\ d.path \in DOMAIN ramfs \ DOMAIN Ext2Files => d.offset <= Len(ramfs[d.path])
      /\ Device(d.path) = "fb0" => d.offset <= FB_LEN
  BY <1>1 DEF IInv, OffsetsInFile
<1>5. n \in Nat /\ Stored(d.path, d.offset, n)
  <2>. HIDE DEF d, data
  <2>0. Len(data) \in Nat
    BY <1>2
  <2>1. CASE WriteRam(d.path, d.offset, data)
    BY <2>0, <2>1, <1>2, <1>3, <1>4, RamStored
  <2>2. CASE WriteFb(d.path, d.offset, data)
    <3>1. d.offset <= FB_LEN
      BY <2>2, <1>4 DEF WriteFb
    <3>. QED
      BY <3>1, <2>2, <1>2, <1>3, FbStored
  <2>3. CASE WriteHda(d.path, d.offset, data)
    BY <2>0, <2>3, <1>2, <1>3, HdaStored
  <2>4. CASE WriteDiscard(d.path, d.offset, data)
    BY <2>0, <2>4, <1>2, <1>3, DiscardStored
  <2>. QED
    BY <2>1, <2>2, <2>3, <2>4, <1>1 DEF d, data
<1>6. Moved(s, fd, n)
  BY <1>1, <1>5, AdvanceEffect
<1>. QED
  BY <1>1, <1>2, <1>5, <1>6

LEMMA WriteInv ==
    ASSUME IInv, status = "up", NEW s \in Sessions, Write(s)
    PROVE  IInv'
<1>. DEFINE fd == calls[s].fd
            d == fd_tables[s][fd]
            n == written(d.path, d.offset, calls[s].data)
<1>1. fd \in DOMAIN fd_tables[s] /\ n \in Nat /\ Moved(s, fd, n) /\ Stored(d.path, d.offset, n)
  BY WriteEffect
<1>2. UNCHANGED <<next_fd, expired, status>> /\ calls' = [calls EXCEPT ![s] = NoCall]
  BY DEF Write, Return
<1>. HIDE DEF n
<1>3. /\ DOMAIN ramfs' = DOMAIN ramfs
      /\ \A p \in DOMAIN ramfs : ramfs'[p] \in Seq(Byte) /\ Len(ramfs[p]) <= Len(ramfs'[p])
      /\ \A p \in DOMAIN ramfs \ DOMAIN Ext2Files : ramfs'[p] \in Seq(Byte \ {0})
      /\ d.path \in DOMAIN ramfs \ DOMAIN Ext2Files => d.offset + n <= Len(ramfs'[d.path])
      /\ Device(d.path) = "fb0" => d.offset + n <= FB_LEN
      /\ fb' \in [1 .. FB_LEN -> Byte] /\ disk' \in Seq(Byte) /\ Len(disk') = Len(disk)
  BY <1>1 DEF Stored
<1>4. /\ Tables' /\ FilesStay' /\ FdsUnique' /\ OffsetsInFile'
      /\ \A t \in Sessions : \A k \in DOMAIN fd_tables'[t] :
            k \in 3 .. MaxFd /\ fd_tables'[t][k] \in Descriptors
  BY <1>1, <1>2, <1>3, MovedInv
<1>5. TypeOK'
  BY <1>2, <1>3, <1>4 DEF IInv, TypeOK
<1>. QED
  BY <1>2, <1>4, <1>5, CallReturned, StillUp DEF IInv

-----------------------------------------------------------------------------
LEMMA NextInv ==
    ASSUME IInv, [Next]_vars
    PROVE  IInv'
<1>1. CASE UNCHANGED vars
  <2>1. UNCHANGED <<fd_tables, ramfs, next_fd, fb, disk, expired, calls, status>>
    BY <1>1 DEF vars
  <2>2. expired' \subseteq Sessions
    BY <2>1 DEF IInv, TypeOK
  <2>3. CallsOK' /\ SmallTransfersComplete'
    BY <2>1 DEF IInv, CallsOK, SmallTransfersComplete, TransferSize
  <2>. QED
    BY <2>1, <2>2, <2>3, StoreStays DEF IInv
<1>2. CASE Next
  <2>1. status = "up"
    BY <1>2 DEF Next
  <2>2. PICK s \in Sessions :
           \/ route(s)
           \/ Open(s) \/ OpenError(s)
           \/ Read(s) \/ ReadError(s)
           \/ Write(s) \/ WriteError(s)
           \/ AtaPanic(s)
           \/ Expire(s)
    BY <1>2 DEF Next
  <2>3. CASE route(s)
    BY <2>1, <2>3, BeginInv, CloseInv DEF route, rust_syscall_dispatch
  <2>4. CASE OpenError(s) \/ ReadError(s) \/ WriteError(s)
    BY <2>1, <2>4, FailInv DEF OpenError, ReadError, WriteError
  <2>. QED
    BY <2>1, <2>2, <2>3, <2>4, OpenInv, ReadInv, WriteInv, AtaPanicInv, ExpireInv
<1>. QED
  BY <1>1, <1>2

(* The invariant holds throughout, whatever the sessions do in whatever    *)
(* order and wherever between check and operation tokens expire.           *)
THEOREM VfsInvariant == Spec => []IInv
  BY InitInv, NextInv, PTL DEF Spec

(* Type correctness.                                                       *)
THEOREM VfsTyped == Spec => []TypeOK
<1>1. IInv => TypeOK
  BY DEF IInv
<1>. QED
  BY <1>1, VfsInvariant, PTL

(* VfsState::open never gives out a number that is in use.                 *)
THEOREM FdsStayUnique == Spec => []FdsUnique
<1>1. IInv => FdsUnique
  BY DEF IInv
<1>. QED
  BY <1>1, VfsInvariant, PTL

(* No descriptor of a RAM file or of /dev/fb0 passes its end, and no       *)
(* padding of VfsState::write is ever stored.                              *)
THEOREM OffsetsStayInFile == Spec => []OffsetsInFile
<1>1. IInv => OffsetsInFile
  BY DEF IInv
<1>. QED
  BY <1>1, VfsInvariant, PTL

(* AtaDriver panics only on a transfer of more than SafeTransfer bytes,    *)
(* for every sector size and every width of the count.                     *)
THEOREM OnlyLargeTransfersPanic == Spec => []SmallTransfersComplete
<1>1. IInv => SmallTransfersComplete
  BY DEF IInv
<1>. QED
  BY <1>1, VfsInvariant, PTL

-----------------------------------------------------------------------------
(* What is stored under a path, as OnlyWritersWrite sees it.               *)
Content(p, files, hda, fb0) ==
    IF p \in DOMAIN files THEN files[p] ELSE
    IF Device(p) = "hda" THEN hda ELSE IF Device(p) = "fb0" THEN fb0 ELSE <<>>

WrittenBySomeone(p, old, new) ==
    \E s \in Sessions : \E fd \in DOMAIN fd_tables[s] :
        /\ fd_tables[s][fd].path = p /\ fd_tables[s][fd].is_writeable
        /\ "FS_WRITE" \in Granted[s]
        /\ SameOutside(new, old, fd_tables[s][fd].offset, fd_tables'[s][fd].offset)

(* Every step but a write leaves what is stored as it is; one that creates *)
(* a file stores nothing in it.                                            *)
LEMMA OthersStore ==
    ASSUME IInv, NEW s \in Sessions, NEW p \in Paths,
           \/ route(s) \/ Open(s) \/ OpenError(s) \/ Read(s) \/ ReadError(s)
           \/ WriteError(s) \/ AtaPanic(s) \/ Expire(s)
    PROVE  Content(p, ramfs', disk', fb') = Content(p, ramfs, disk, fb)
<1>1. CASE Open(s)
  <2>1. disk' = disk /\ fb' = fb
    BY <1>1 DEF Open
  <2>2. CASE p \in DOMAIN ramfs
    BY <2>2, <1>1, CreatedFile DEF Content
  <2>3. CASE p \notin DOMAIN ramfs /\ p \notin DOMAIN ramfs'
    BY <2>1, <2>3 DEF Content
  <2>4. CASE p \notin DOMAIN ramfs /\ p \in DOMAIN ramfs'
    <3>1. ramfs'[p] = <<>> /\ p \notin DevPaths
      BY <2>4, <1>1, CreatedFile
    <3>2. Device(p) = "none"
      BY <3>1, VfsAssumption DEF Device
    <3>. QED
      BY <3>1, <3>2, <2>4 DEF Content
  <2>. QED
    BY <2>2, <2>3, <2>4
<1>2. CASE ~Open(s)
  <2>1. ramfs' = ramfs /\ disk' = disk /\ fb' = fb
    BY <1>2 DEF route, rust_syscall_dispatch, CallOpen, CallRead, CallWrite, Begin, Close,
                OpenError, Read, ReadError, WriteError, Fail, AtaPanic, Expire
  <2>. QED
    BY <2>1
<1>. QED
  BY <1>1, <1>2

(* A write changes what is stored under its own path alone: each device is *)
(* registered under one path.                                              *)
LEMMA WriterStores ==
    ASSUME IInv, NEW s \in Sessions, NEW p \in Paths, Write(s),
           Content(p, ramfs', disk', fb') # Content(p, ramfs, disk, fb)
    PROVE  WrittenBySomeone(p, Content(p, ramfs, disk, fb), Content(p, ramfs', disk', fb'))
<1>. DEFINE fd == calls[s].fd
            d == fd_tables[s][fd]
            n == written(d.path, d.offset, calls[s].data)
<1>1. /\ fd \in DOMAIN fd_tables[s] /\ d.is_writeable /\ "FS_WRITE" \in Granted[s]
      /\ n \in Nat /\ Moved(s, fd, n) /\ Stored(d.path, d.offset, n)
  BY WriteEffect
<1>. HIDE DEF n
<1>2. fd_tables'[s][fd].offset = d.offset + n
  BY <1>1 DEF Moved
<1>3. /\ DOMAIN ramfs' = DOMAIN ramfs
      /\ \A q \in DOMAIN ramfs : ramfs'[q] # ramfs[q] =>
            q = d.path /\ SameOutside(ramfs'[q], ramfs[q], d.offset, d.offset + n)
      /\ disk' # disk => Device(d.path) = "hda" /\ SameOutside(disk', disk, d.offset, d.offset + n)
      /\ fb' # fb => Device(d.path) = "fb0" /\ SameOutside(fb', fb, d.offset, d.offset + n)
  BY <1>1 DEF Stored
<1>4. \A q \in Paths : (Device(q) = Device(d.path) /\ Device(q) \in {"hda", "fb0"}) => q = d.path
  BY VfsAssumption DEF Device
<1>5. /\ p = d.path
      /\ SameOutside(Content(p, ramfs', disk', fb'), Content(p, ramfs, disk, fb),
                     d.offset, d.offset + n)
  <2>1. CASE p \in DOMAIN ramfs
    BY <2>1, <1>3 DEF Content
  <2>2. CASE p \notin DOMAIN ramfs /\ Device(p) = "hda"
    BY <2>2, <1>3, <1>4 DEF Content
  <2>3. CASE p \notin DOMAIN ramfs /\ Device(p) = "fb0"
    BY <2>3, <1>3, <1>4 DEF Content
  <2>4. CASE p \notin DOMAIN ramfs /\ Device(p) \notin {"hda", "fb0"}
    BY <2>4, <1>3 DEF Content
  <2>. QED
    BY <2>1, <2>2, <2>3, <2>4
<1>. QED
  BY <1>1, <1>2, <1>5 DEF WrittenBySomeone

(* VfsState::write and AtaDriver::write: only a session with FS_WRITE, by  *)
(* a descriptor opened for writing, and only under that descriptor's path  *)
(* and between its old and its new offset.                                 *)
THEOREM OnlyWritersStore == Spec => OnlyWritersWrite
<1>. DEFINE A == \A p \in Paths :
          LET old == IF p \in DOMAIN ramfs THEN ramfs[p] ELSE
                     IF Device(p) = "hda" THEN disk ELSE IF Device(p) = "fb0" THEN fb ELSE <<>>
              new == IF p \in DOMAIN ramfs' THEN ramfs'[p] ELSE
                     IF Device(p) = "hda" THEN disk' ELSE IF Device(p) = "fb0" THEN fb' ELSE <<>>
          IN  new # old =>
              \E s \in Sessions : \E fd \in DOMAIN fd_tables[s] :
                  /\ fd_tables[s][fd].path = p /\ fd_tables[s][fd].is_writeable
                  /\ "FS_WRITE" \in Granted[s]
                  /\ SameOutside(new, old, fd_tables[s][fd].offset, fd_tables'[s][fd].offset)
<1>1. ASSUME IInv, [Next]_vars PROVE [A]_vars
  <2>1. SUFFICES ASSUME Next PROVE A
    BY <1>1
  <2>2. PICK s \in Sessions :
           \/ route(s)
           \/ Open(s) \/ OpenError(s)
           \/ Read(s) \/ ReadError(s)
           \/ Write(s) \/ WriteError(s)
           \/ AtaPanic(s)
           \/ Expire(s)
    BY <2>1 DEF Next
  <2>3. ASSUME NEW p \in Paths, Content(p, ramfs', disk', fb') # Content(p, ramfs, disk, fb)
        PROVE  WrittenBySomeone(p, Content(p, ramfs, disk, fb), Content(p, ramfs', disk', fb'))
    <3>1. Write(s)
      BY <1>1, <2>2, <2>3, OthersStore
    <3>. QED
      BY <1>1, <2>3, <3>1, WriterStores
  <2>. QED
    BY <2>3, Zenon DEF Content, WrittenBySomeone
<1>. QED
  BY <1>1, VfsInvariant, PTL DEF Spec, OnlyWritersWrite

=============================================================================
