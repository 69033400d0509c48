------------------------------ MODULE KeyQueue ------------------------------
(***************************************************************************)
(* What the PS/2 driver (drivers/keyboard.zig) promises its one reader,    *)
(* the shell: a bounded FIFO queue of characters.  A character the         *)
(* interrupt handler decoded is appended, or dropped when the queue is     *)
(* full and only then; the reader takes characters in the order they were  *)
(* typed, each exactly once.                                               *)
(***************************************************************************)
EXTENDS Naturals, Sequences

CONSTANTS Char,      \* the characters a scancode can decode to
          NoChar,    \* "no character": the driver's 0, not in Char
          Capacity   \* how many characters the queue holds, a number

VARIABLES typed,     \* the character the interrupt handler holds, or NoChar
          queue,     \* the characters not read yet, oldest first
          key        \* the character the reader holds, or NoChar

vars == <<typed, queue, key>>

Init == typed = NoChar /\ queue = <<>> /\ key = NoChar

\* An interrupt brings a character.
Type == /\ typed = NoChar
        /\ typed' \in Char
        /\ UNCHANGED <<queue, key>>

\* The handler ends: the character is queued, or lost because there is no room.
Put == /\ typed # NoChar
       /\ queue' = IF Len(queue) < Capacity THEN Append(queue, typed) ELSE queue
       /\ typed' = NoChar
       /\ UNCHANGED key

\* The reader takes the oldest character.
Get == /\ key = NoChar
       /\ queue # <<>>
       /\ key' = Head(queue)
       /\ queue' = Tail(queue)
       /\ UNCHANGED typed

\* The reader is done with its character.
Use == /\ key # NoChar
       /\ key' = NoChar
       /\ UNCHANGED <<typed, queue>>

Next == Type \/ Put \/ Get \/ Use

Spec == Init /\ [][Next]_vars

=============================================================================
