------------------------------ MODULE MCLinux ------------------------------
(* The Linux calls over the Rust core: three tokens, of which the third lies *)
(* where the heap starts.                                                   *)
EXTENDS Linux

=============================================================================
