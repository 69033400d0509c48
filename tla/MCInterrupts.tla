---------------------------- MODULE MCInterrupts ----------------------------
(* Interrupt delivery on the timer, the keyboard and a serial line.        *)
EXTENDS Interrupts

=============================================================================
