-------------------------------- MODULE Rle --------------------------------
(***************************************************************************)
(* The run-length codec of kernel/src/compress.rs and its two C entry      *)
(* points: rust_compress_data into a buffer, rust_decompress_data out of   *)
(* it, one pass of each loop a step.  rust_kernel_init decompresses the    *)
(* built-in initramfs the same way, so bytes that no compress call wrote   *)
(* are an input as well.                                                   *)
(***************************************************************************)
EXTENDS Naturals, Sequences, FiniteSetsExt, SequencesExt

CONSTANTS BYTE,       \* 256: a count is stored modulo this
          Bytes,      \* the byte values that occur in the data
          MaxLen,     \* bound: length of the data
          Room        \* the sizes of the caller's buffer, dst_max_len

ASSUME RleAssumption ==
    BYTE \in Nat \ {0, 1} /\ Bytes \subseteq 0 .. BYTE - 1 /\ MaxLen \in Nat /\ Room \subseteq Nat

VARIABLES
    input,      \* what the caller passes first
    calls,      \* whether it is compressed first: "both", or "decompress" only
    src, i,     \* the argument of the running loop and how much it has consumed
    dest,       \* what the loop has written
    max_len,    \* dst_max_len of both calls
    stage       \* "compress", "decompress", or the result: "done", "zero"

rle_vars == <<input, calls, src, i, dest, max_len, stage>>

RleInit ==
    /\ input \in BoundedSeq(Bytes, MaxLen)
    /\ calls \in {"both", "decompress"}
    /\ src = input /\ i = 0 /\ dest = <<>>
    /\ max_len \in Room
    /\ stage = IF calls = "both" THEN "compress" ELSE "decompress"

-----------------------------------------------------------------------------
\* Mutant: runs of BYTE bytes are not cut.
longest_run_off_by_one == BYTE

longest_run == BYTE - 1

\* The length of the run that starts at the next byte.
run_len ==
    Max({n \in 1 .. longest_run :
            i + n <= Len(src) /\ \A k \in 1 .. n : src[i + k] = src[i + 1]})

CompressLoop ==
    /\ stage = "compress" /\ i < Len(src)
    /\ dest' = dest \o <<run_len % BYTE, src[i + 1]>>
    /\ i' = i + run_len
    /\ UNCHANGED <<input, calls, src, max_len, stage>>

\* rust_compress_data returns 0 when the result does not fit.
CompressFull ==
    /\ stage = "compress" /\ i >= Len(src) /\ Len(dest) > max_len
    /\ stage' = "zero"
    /\ UNCHANGED <<input, calls, src, i, dest, max_len>>

\* Otherwise the buffer is handed to rust_decompress_data.
CompressDone ==
    /\ stage = "compress" /\ i >= Len(src) /\ Len(dest) <= max_len
    /\ stage' = "decompress" /\ src' = dest /\ i' = 0 /\ dest' = <<>>
    /\ UNCHANGED <<input, calls, max_len>>

\* An odd number of bytes is refused before the loop.
Malformed ==
    /\ stage = "decompress" /\ Len(src) % 2 # 0
    /\ stage' = "zero"
    /\ UNCHANGED <<input, calls, src, i, dest, max_len>>

DecompressLoop ==
    /\ stage = "decompress" /\ Len(src) % 2 = 0 /\ i < Len(src)
    /\ dest' = dest \o [k \in 1 .. src[i + 1] |-> src[i + 2]]
    /\ i' = i + 2
    /\ UNCHANGED <<input, calls, src, max_len, stage>>

\* Mutant: the result is copied whatever its length.
too_long_unchecked == FALSE

too_long == Len(dest) > max_len

DecompressEnd ==
    /\ stage = "decompress" /\ Len(src) % 2 = 0 /\ i >= Len(src)
    /\ stage' = IF too_long THEN "zero" ELSE "done"
    /\ UNCHANGED <<input, calls, src, i, dest, max_len>>

RleNext ==
    \/ CompressLoop \/ CompressFull \/ CompressDone
    \/ Malformed \/ DecompressLoop \/ DecompressEnd

RleSpec == RleInit /\ [][RleNext]_rle_vars

-----------------------------------------------------------------------------
(* Properties *)

\* The number of bytes the first k pairs of s stand for; that out has, at their
\* places, the bytes the first n pairs stand for; and that it is what all of
\* them stand for.
Expanded(s) ==
    LET to[k \in 0 .. Len(s) \div 2] == IF k = 0 THEN 0 ELSE to[k - 1] + s[2 * k - 1] IN to
StandFor(s, n, out) ==
    \A k \in 1 .. n : \A j \in Expanded(s)[k - 1] + 1 .. Expanded(s)[k] : out[j] = s[2 * k]
Expands(s, out) ==
    Len(out) = Expanded(s)[Len(s) \div 2] /\ StandFor(s, Len(s) \div 2, out)

\* What rust_decompress_data returns fits the caller's buffer and is what the pairs
\* stand for, whoever wrote them.
DecompressorFaithful == stage = "done" => Len(dest) <= max_len /\ Expands(src, dest)

\* Compressing and decompressing gives the data back, and answers 0 only when the
\* data or its pairs are too long for the buffer.
RoundTrip ==
    calls = "both" =>
        /\ stage = "done" => dest = input
        /\ stage = "zero" => max_len < 2 * Len(input)

=============================================================================
