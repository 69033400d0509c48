------------------------------- MODULE MCIpc -------------------------------
(* Threads and message ports on a few threads and two ports.               *)
EXTENDS Ipc

=============================================================================
