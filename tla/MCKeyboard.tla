----------------------------- MODULE MCKeyboard -----------------------------
(* Keyboard and shell on a small ring, with the driver's own tables.       *)
EXTENDS Keyboard

Tables == INSTANCE KeyTables

MCNormal == Tables!Normal
MCShift  == Tables!Shift

\* 0xE0, left shift down, right shift up, caps lock, a, release of a, Enter,
\* Backspace.
MCScancodes == {224, 42, 182, 58, 30, 158, 28, 14}

\* The line "A" stands for a reboot command.
MCHalt == {<<65>>}

=============================================================================
