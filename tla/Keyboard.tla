------------------------------ MODULE Keyboard ------------------------------
(***************************************************************************)
(* The PS/2 keyboard driver (drivers/keyboard.zig) and its reader, the     *)
(* shell's main loop (kernel/shell.zig, shell_main).                       *)
(*                                                                         *)
(* One CPU.  The IRQ1 handler is entered through an interrupt gate: it     *)
(* runs to completion with interrupts off, between any two instructions of *)
(* the shell.  The shell's read_key is therefore split at each of its      *)
(* atomic accesses, the handler is one step (Accept delivers the           *)
(* interrupt, Handler is the body up to iretq).  No further IRQ1 is        *)
(* delivered until the handler has sent its end-of-interrupt.              *)
(*                                                                         *)
(* Left out: the debugging spinner and the scancode echo in the VGA        *)
(* buffer, the keyboard LED command, and all screen output of the shell.   *)
(***************************************************************************)
EXTENDS Integers, Sequences

CONSTANTS
    RING_BUF_SIZE,      \* 256 in the driver
    LINE_BUF_SIZE,      \* 256 in the shell
    Scancodes,          \* the bytes the keyboard sends
    SCANCODE_NORMAL,    \* the two decoding tables
    SCANCODE_SHIFT,
    HaltCommands        \* the lines whose command is "reboot" or "exit"

ASSUME RingAssumption  == RING_BUF_SIZE \in Nat /\ RING_BUF_SIZE >= 2
ASSUME LineAssumption  == LINE_BUF_SIZE \in Nat \ {0}
ASSUME TableAssumption == /\ Scancodes \subseteq 0..255
                          /\ SCANCODE_NORMAL \in [0..127 -> 0..127]
                          /\ SCANCODE_SHIFT \in [0..127 -> 0..127]

VARIABLES
    ring_buf, ring_head, ring_tail,         \* the driver's ring
    pressed,            \* shift_pressed, ctrl_pressed, alt_pressed and
                        \* caps_lock: the set of those that are true
    cpu,                \* who runs: "shell" or "irq"
    scancode,           \* the byte in port 0x60, 0 once it has been read
    in_service,         \* the master PIC's in-service register: a set of IRQs
    pc,                 \* where the shell is
    head, tail, c,      \* the locals of read_key
    key,                \* the character read_key returned, 0 when used
    line                \* line_buf[0..line_len]

ring      == <<ring_buf, ring_head, ring_tail>>
locals    == <<head, tail, c>>
vars == <<ring, pressed, cpu, scancode, in_service, pc, locals, key, line>>

Bytes == 0..255
Slots == 0 .. RING_BUF_SIZE - 1

Backspace == 8
Tab       == 9
Newline   == 10

SCANCODE_LSHIFT   == 42
SCANCODE_RSHIFT   == 54
SCANCODE_LCTRL    == 29
SCANCODE_LALT     == 56
SCANCODE_CAPSLOCK == 58
Extended          == 224    \* 0xE0, the prefix byte

-----------------------------------------------------------------------------
(* Decoding a scancode *)

is_release(sc) == sc >= 128
code(sc)       == sc % 128

\* The two conversions run one after the other: with caps lock on, a small
\* letter becomes a capital one and then, being capital, small again.
ApplyCaps(ch) ==
    LET upper == IF ch \in 97..122 THEN ch - 32 ELSE ch
    IN  IF "caps_lock" \notin pressed THEN ch
        ELSE IF upper \in 65..90 THEN upper + 32 ELSE upper

\* Which modifier a scancode belongs to.
Modifier(sc) ==
    IF code(sc) \in {SCANCODE_LSHIFT, SCANCODE_RSHIFT} THEN "shift"
    ELSE IF code(sc) = SCANCODE_LCTRL THEN "ctrl"
    ELSE IF code(sc) = SCANCODE_LALT THEN "alt"
    ELSE IF code(sc) = SCANCODE_CAPSLOCK THEN "caps_lock" ELSE "none"

\* The character the handler puts into the ring for sc; 0 for none.
CharOf(sc) ==
    IF \/ sc = Extended
       \/ Modifier(sc) # "none"
       \/ is_release(sc)
    THEN 0
    ELSE ApplyCaps(IF "shift" \in pressed THEN SCANCODE_SHIFT[code(sc)]
                                          ELSE SCANCODE_NORMAL[code(sc)])

-----------------------------------------------------------------------------
Init ==
    /\ ring_buf = [s \in Slots |-> 0]
    /\ ring_head = 0 /\ ring_tail = 0
    /\ pressed = {}
    /\ cpu = "shell" /\ scancode = 0 /\ in_service = {}
    /\ pc = "load_head"
    /\ head = 0 /\ tail = 0 /\ c = 0
    /\ key = 0 /\ line = <<>>

-----------------------------------------------------------------------------
(* The interrupt *)

\* The PIC delivers IRQ1.  After "cli; hlt" (pc = "stopped") nothing is.
Accept ==
    /\ cpu = "shell" /\ 1 \notin in_service /\ pc # "stopped"
    /\ scancode' \in Scancodes
    /\ cpu' = "irq" /\ in_service' = in_service \cup {1}
    /\ UNCHANGED <<ring, pressed, pc, locals, key, line>>

\* Mutant: the handler's early returns skip the end-of-interrupt.
eoi_only_after_char ==
    in_service' = IF CharOf(scancode) # 0 THEN in_service \ {1} ELSE in_service

\* A non-specific end-of-interrupt; IRQ1 is the only one in service.
eoi_master == in_service' = in_service \ {1}

\* Mutants: no test for a full ring; a ring declared full one slot too early.
ring_put_unchecked(ch) ==
    /\ ring_buf' = [ring_buf EXCEPT ![ring_head] = ch]
    /\ ring_head' = (ring_head + 1) % RING_BUF_SIZE
    /\ UNCHANGED ring_tail

ring_put_early_full(ch) ==
    IF (ring_head + 2) % RING_BUF_SIZE # ring_tail
    THEN ring_put_unchecked(ch) ELSE UNCHANGED ring

\* The slot after head must not be tail's: one slot stays empty.
ring_put(ch) ==
    LET next == (ring_head + 1) % RING_BUF_SIZE
    IN  IF next # ring_tail
        THEN /\ ring_buf' = [ring_buf EXCEPT ![ring_head] = ch]
             /\ ring_head' = next
             /\ UNCHANGED ring_tail
        ELSE UNCHANGED ring

\* A press of shift, ctrl or alt sets it and a release clears it; a press of
\* caps lock toggles it; the prefix byte 0xE0 changes nothing.
UpdateModifiers(sc) ==
    LET m == Modifier(sc)
        ignored == \/ sc = Extended \/ m = "none"
                   \/ m = "caps_lock" /\ is_release(sc)
        cleared == is_release(sc) \/ (m = "caps_lock" /\ m \in pressed)
    IN  pressed' = IF ignored THEN pressed
                   ELSE IF cleared THEN pressed \ {m} ELSE pressed \cup {m}

\* handle_keyboard_interrupt, then iretq: a halted shell resumes after hlt.
Handler ==
    /\ cpu = "irq"
    /\ UpdateModifiers(scancode)
    /\ IF CharOf(scancode) # 0 THEN ring_put(CharOf(scancode)) ELSE UNCHANGED ring
    /\ eoi_master
    /\ cpu' = "shell"
    /\ scancode' = 0
    /\ pc' = IF pc = "halted" THEN "load_head" ELSE pc
    /\ UNCHANGED <<locals, key, line>>

-----------------------------------------------------------------------------
(* The shell *)

At(label) == cpu = "shell" /\ pc = label

Goto(label) ==
    /\ pc' = label
    /\ UNCHANGED <<pressed, cpu, scancode, in_service>>

\* read_key: the load of ring_head ...
LoadHead ==
    /\ At("load_head")
    /\ head' = ring_head
    /\ Goto("load_tail")
    /\ UNCHANGED <<ring, tail, c, key, line>>

\* ... the load of ring_tail and the comparison (null makes the shell halt) ...
LoadTail ==
    /\ At("load_tail")
    /\ tail' = ring_tail
    /\ Goto(IF head = ring_tail THEN "hlt" ELSE "read_slot")
    /\ UNCHANGED <<ring, head, c, key, line>>

\* ... the load of the slot ...
ReadSlot ==
    /\ At("read_slot")
    /\ c' = ring_buf[tail]
    /\ Goto("store_tail")
    /\ UNCHANGED <<ring, head, tail, key, line>>

\* ... and the store of ring_tail, which frees the slot; c is returned.
StoreTail ==
    /\ At("store_tail")
    /\ ring_tail' = (tail + 1) % RING_BUF_SIZE
    /\ key' = c
    /\ Goto("edit")
    /\ UNCHANGED <<ring_buf, ring_head, locals, line>>

\* Mutant: the line may fill line_buf completely.
EditedLine_off_by_one ==
    IF key = Backspace
    THEN IF line = <<>> THEN line ELSE SubSeq(line, 1, Len(line) - 1)
    ELSE IF key = Tab \/ Len(line) > LINE_BUF_SIZE - 1 THEN line
    ELSE Append(line, key)

\* The switch of shell_main on the character.
EditedLine ==
    IF key = Backspace
    THEN IF line = <<>> THEN line ELSE SubSeq(line, 1, Len(line) - 1)
    ELSE IF key = Tab \/ Len(line) >= LINE_BUF_SIZE - 1 THEN line
    ELSE Append(line, key)

Edit ==
    /\ At("edit")
    /\ key # Newline
    /\ line' = EditedLine
    /\ key' = 0
    /\ Goto("load_head")
    /\ UNCHANGED <<ring, locals>>

\* execute_line: "reboot" and "exit" stop the CPU with interrupts off; the
\* other commands act on other components.  line_len is then reset.
ExecuteLine ==
    /\ At("edit")
    /\ key = Newline
    /\ key' = 0
    /\ IF line \in HaltCommands
       THEN Goto("stopped") /\ UNCHANGED line
       ELSE Goto("load_head") /\ line' = <<>>
    /\ UNCHANGED <<ring, locals>>

\* read_key returned null.
Hlt ==
    /\ At("hlt")
    /\ Goto("halted")
    /\ UNCHANGED <<ring, locals, key, line>>

Shell == \/ LoadHead \/ LoadTail \/ ReadSlot \/ StoreTail
         \/ Edit \/ ExecuteLine \/ Hlt

Next == Accept \/ Handler \/ Shell

Spec == Init /\ [][Next]_vars

(***************************************************************************)
(* The CPU does not stop: the handler and the shell run on, and since a    *)
(* keyboard sends a byte every few milliseconds at most, interrupts do not *)
(* keep the shell from running for ever (strong fairness).  A key that is  *)
(* pressed is released some time, so another IRQ1 always comes.            *)
(***************************************************************************)
Fairness == WF_vars(Handler) /\ SF_vars(Shell) /\ WF_vars(Accept)

FairSpec == Spec /\ Fairness

-----------------------------------------------------------------------------
(* The refinement mapping to KeyQueue *)

\* How many characters the ring holds, and the i-th of them.
Count == IF ring_head >= ring_tail THEN ring_head - ring_tail
                                   ELSE ring_head + RING_BUF_SIZE - ring_tail
SlotOf(i) == IF ring_tail + i - 1 < RING_BUF_SIZE
             THEN ring_tail + i - 1
             ELSE ring_tail + i - 1 - RING_BUF_SIZE
RingContents == [i \in 1..Count |-> ring_buf[SlotOf(i)]]

Typed == IF cpu = "irq" THEN CharOf(scancode) ELSE 0

KQ == INSTANCE KeyQueue WITH Char <- 1..255, NoChar <- 0,
                             Capacity <- RING_BUF_SIZE - 1,
                             typed <- Typed, queue <- RingContents, key <- key

-----------------------------------------------------------------------------
(* Properties *)

\* Every variable keeps its range; line_len stays below LINE_BUF_SIZE, so the
\* store line_buf[line_len] of shell_main is always inside the buffer.
TypeOK ==
    /\ ring_buf \in [Slots -> Bytes]
    /\ ring_head \in Slots /\ ring_tail \in Slots
    /\ pressed \subseteq {"shift", "ctrl", "alt", "caps_lock"}
    /\ cpu \in {"shell", "irq"} /\ scancode \in Bytes /\ in_service \subseteq {1}
    /\ pc \in {"load_head", "load_tail", "read_slot", "store_tail", "edit",
               "hlt", "halted", "stopped"}
    /\ head \in Slots /\ tail \in Slots /\ c \in Bytes /\ key \in Bytes
    /\ line \in Seq(Bytes) /\ Len(line) < LINE_BUF_SIZE

\* What read_key relies on while interrupts come between its steps: its copy
\* of ring_tail is current, the slot it is about to free is occupied, and the
\* byte it copied out of the slot has not been overwritten by ring_put.
ReaderOwnsSlot ==
    /\ pc \in {"read_slot", "store_tail"} => tail = ring_tail /\ ring_head # ring_tail
    /\ pc = "store_tail" => c = ring_buf[ring_tail]

\* The ring and read_key implement a bounded FIFO queue: keys reach the shell
\* once each, in the order typed, and ring_put loses one only when
\* RING_BUF_SIZE - 1 are waiting.
RingIsQueue == KQ!Spec

\* No key waits for ever: whatever slot is the oldest, the shell frees it (or
\* a reboot command has stopped the machine).  Needs the end-of-interrupt on
\* every path of the handler, and the wake-up from hlt.
KeysDelivered ==
    \A s \in Slots : (ring_tail = s /\ ring_head # s)
                        ~> (ring_tail # s \/ pc = "stopped")

\* shell.zig:245, "No key available - halt the CPU until next interrupt": the
\* CPU is halted only while the ring is empty.
HaltOnlyWhenEmpty == (pc = "halted" /\ cpu = "shell") => ring_head = ring_tail

=============================================================================
