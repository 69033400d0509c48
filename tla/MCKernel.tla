------------------------------ MODULE MCKernel ------------------------------
(* The Rust core on a few tokens, sessions and frames.                      *)
EXTENDS Kernel

MCFrames == 2..3

\* One ELF file: its segment is the second page of token 1, so that loading it and
\* allocating meet.
MCImages == {{[at |-> 11, pages |-> 1]}}

=============================================================================
