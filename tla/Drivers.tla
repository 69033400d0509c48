------------------------------ MODULE Drivers ------------------------------
(***************************************************************************)
(* The character devices of kernel/src/driver.rs as operators on byte      *)
(* sequences: what a read returns, what a write leaves behind and the      *)
(* count it returns.  Offsets start at 0, sequences at 1.                  *)
(***************************************************************************)
EXTENDS Naturals, Sequences, FiniteSetsExt

CONSTANTS
    SectorSize,     \* 512
    CountMod,       \* 256: a sector count is stored in a u8
    Byte            \* the byte values

ASSUME DriverAssumption ==
    SectorSize \in Nat \ {0} /\ CountMod \in Nat \ {0, 1} /\ Byte \subseteq Nat /\ 0 \in Byte

\* The slice [off, off + n) of buf, cut at the end of buf.
Window(buf, off, n) == SubSeq(buf, off + 1, Min({off + n, Len(buf)}))

\* buf with data copied over the slice that starts at off.
Overwrite(buf, off, data) ==
    [k \in DOMAIN buf |-> IF k \in off + 1 .. off + Len(data) THEN data[k - off] ELSE buf[k]]

-----------------------------------------------------------------------------
\* /dev/urandom: bytes that depend on the size asked for and on nothing else.
urandom_read(n) == CHOOSE bytes \in [1 .. n -> Byte] : TRUE

\* /dev/fb0: a write past the end of the buffer is cut short.
fb0_write_len(buf, off, data) ==
    IF off >= Len(buf) THEN 0 ELSE Min({off + Len(data), Len(buf)}) - off

-----------------------------------------------------------------------------
(* /dev/hda moves whole sectors.                                           *)
start_lba(off) == off \div SectorSize
end_lba(off, n) == (off + n + SectorSize - 1) \div SectorSize

\* Mutant: rounds the size alone up, so a transfer that straddles one more
\* sector boundary is a sector short.
sector_count_of_size(off, n) == ((n + SectorSize - 1) \div SectorSize) % CountMod

sector_count(off, n) == (end_lba(off, n) - start_lba(off)) % CountMod

start_idx(off) == off % SectorSize

\* Indexing the sector buffer past its end panics.
InSectors(off, n) == start_idx(off) + n <= sector_count(off, n) * SectorSize

ata_read_sectors(disk, lba, count) == SubSeq(disk, lba * SectorSize + 1, (lba + count) * SectorSize)
ata_write_sectors(disk, lba, buf) == Overwrite(disk, lba * SectorSize, buf)

hda_sectors(disk, off, n) == ata_read_sectors(disk, start_lba(off), sector_count(off, n))
hda_read(disk, off, n) ==
    SubSeq(hda_sectors(disk, off, n), start_idx(off) + 1, start_idx(off) + n)

\* Mutant: the sectors are not read before they are modified.
hda_write_blind(disk, off, data) ==
    LET blank == [k \in 1 .. sector_count(off, Len(data)) * SectorSize |-> 0]
    IN  ata_write_sectors(disk, start_lba(off), Overwrite(blank, start_idx(off), data))

\* Read, modify, write.
hda_write(disk, off, data) ==
    LET buf == Overwrite(hda_sectors(disk, off, Len(data)), start_idx(off), data)
    IN  ata_write_sectors(disk, start_lba(off), buf)

=============================================================================
