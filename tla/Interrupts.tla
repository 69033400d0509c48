----------------------------- MODULE Interrupts -----------------------------
(***************************************************************************)
(* Boot order, interrupt delivery and the kernel mutex: kernel_main        *)
(* (init/main.zig), the gates and IRQ handlers of idt.zig, the 8259A of    *)
(* drivers/pic.zig and the spin::Mutex around KernelState (lib.rs).        *)
(*                                                                         *)
(* One CPU.  kernel_main boots and then runs the shell, whose commands     *)
(* hold the kernel mutex with interrupts enabled: kernel().lock() does not *)
(* mask them.  All gates are interrupt gates, so a handler is never        *)
(* interrupted, and it runs to its end before the code below it goes on.   *)
(* Not every command comes back: reboot and exit stop the CPU, and a panic *)
(* or a CPU exception stops it with the mutex still held.                  *)
(***************************************************************************)
EXTENDS Naturals

CONSTANTS IRQs,         \* the lines of the master PIC, by number
          MaxTick       \* bound: the ticks that are counted

Timer == 0
Keyboard == 1
NoIrq == 8

ASSUME IrqAssumption == IRQs \subseteq 0..7 /\ {Timer, Keyboard} \subseteq IRQs
ASSUME TickAssumption == MaxTick \in Nat

VARIABLES
    main,       \* where kernel_main is
    flag,       \* the interrupt flag of the CPU while kernel_main runs
    vectors,    \* where the PIC sends an IRQ: "exceptions" (BIOS) or "gates"
    imr,        \* the IRQs masked in the PIC
    irr,        \* the IRQs raised and not delivered
    isr,        \* the IRQs delivered and not ended
    handler,    \* the IRQ whose handler has interrupted kernel_main, or NoIrq
    body,       \* whether that handler's work is "todo" or "done"
    lock,       \* the kernel mutex: "free", or held by "main"
    tick_count

irq_vars == <<main, flag, vectors, imr, irr, isr, handler, body, lock, tick_count>>
pic == <<vectors, imr, irr, isr>>
irq_cpu == <<handler, body>>

Boot == {"rust_kernel_init", "pic_init", "keyboard_init", "sti"}
Up == {"shell", "command"}
Stopped == "stopped"

\* The bootloader leaves interrupts off and any mask.
IrqInit ==
    /\ main = "rust_kernel_init" /\ flag = "off" /\ vectors = "exceptions"
    /\ imr \in SUBSET IRQs /\ irr = {} /\ isr = {}
    /\ handler = NoIrq /\ body = "done" /\ lock = "free"
    /\ tick_count = 0

-----------------------------------------------------------------------------
(* kernel_main; it moves only while no handler runs. *)

\* Mutant: interrupts are enabled before the PIC is set up.
after_sti_early ==
    [rust_kernel_init |-> "sti", sti |-> "pic_init", pic_init |-> "keyboard_init",
     keyboard_init |-> "shell"]

\* The order of the last steps of kernel_main.  The ones before (GDT, IDT, page
\* allocator, paging, ATA, PCI) do nothing that concerns interrupts.
after ==
    [rust_kernel_init |-> "pic_init", pic_init |-> "keyboard_init",
     keyboard_init |-> "sti", sti |-> "shell"]

BootStep(s) == handler = NoIrq /\ main = s /\ main' = after[s]

\* rust_kernel_init holds the mutex, with interrupts still off, and releases it.
RustKernelInit ==
    /\ BootStep("rust_kernel_init")
    /\ lock = "free"
    /\ UNCHANGED <<flag, pic, irq_cpu, lock, tick_count>>

\* pic_init moves the IRQs to vectors 0x20 on and puts the mask back.  The first
\* command word forgets what was raised and in service.
PicInit ==
    /\ BootStep("pic_init")
    /\ vectors' = "gates" /\ irr' = {} /\ isr' = {}
    /\ UNCHANGED <<flag, imr, irq_cpu, lock, tick_count>>

\* Mutant: the timer is unmasked as well (0xFC).
master_mask_with_timer == IRQs \ {Timer, Keyboard}

\* 0xFD: everything but the keyboard.
master_mask == IRQs \ {Keyboard}

KeyboardInit ==
    /\ BootStep("keyboard_init")
    /\ imr' = master_mask
    /\ UNCHANGED <<flag, vectors, irr, isr, irq_cpu, lock, tick_count>>

Sti ==
    /\ BootStep("sti")
    /\ flag' = "on"
    /\ UNCHANGED <<pic, irq_cpu, lock, tick_count>>

\* ls, cat or exec: one call into Rust, under the mutex.
CommandStart ==
    /\ handler = NoIrq /\ main = "shell" /\ main' = "command"
    /\ lock = "free" /\ lock' = "main"
    /\ UNCHANGED <<flag, pic, irq_cpu, tick_count>>

CommandEnd ==
    /\ handler = NoIrq /\ main = "command" /\ main' = "shell"
    /\ lock' = "free"
    /\ UNCHANGED <<flag, pic, irq_cpu, tick_count>>

\* reboot and exit: cli and hlt, for ever.
Reboot ==
    /\ handler = NoIrq /\ main = "shell" /\ main' = Stopped
    /\ flag' = "off"
    /\ UNCHANGED <<pic, irq_cpu, lock, tick_count>>

\* A call into Rust that does not come back: the panic handler runs cli and hlt for
\* ever, and so, behind an interrupt gate, does the handler of a CPU exception (or
\* it spins on the mutex, vasm_handle_page_fault).  Nobody releases the mutex.
CommandDies ==
    /\ handler = NoIrq /\ main \in {"rust_kernel_init", "command"} /\ main' = Stopped
    /\ flag' = "off" /\ lock' = "main"
    /\ UNCHANGED <<pic, irq_cpu, tick_count>>

-----------------------------------------------------------------------------
(* The PIC and the handlers. *)

Raise(irq) ==
    /\ irr' = irr \cup {irq}
    /\ UNCHANGED <<main, flag, vectors, imr, isr, irq_cpu, lock, tick_count>>

\* An IRQ is delivered when interrupts are on, it is not masked, and neither it
\* nor one of higher priority is in service.
Deliver(irq) ==
    /\ flag = "on" /\ handler = NoIrq
    /\ irq \in irr \ imr
    /\ \A k \in isr : irq < k
    /\ irr' = irr \ {irq} /\ isr' = isr \cup {irq}
    /\ handler' = irq /\ body' = "todo"
    /\ UNCHANGED <<main, flag, vectors, imr, lock, tick_count>>

\* handle_timer_irq spins until it gets the mutex, then rust_kernel_tick counts;
\* the other handlers take no lock.
Handle ==
    /\ handler # NoIrq /\ body = "todo"
    /\ handler = Timer => lock = "free"
    /\ tick_count' = IF handler = Timer /\ tick_count < MaxTick
                     THEN tick_count + 1 ELSE tick_count
    /\ body' = "done"
    /\ UNCHANGED <<main, flag, pic, handler, lock>>

\* Mutant: the end of interrupt is not sent.
eoi_missing == UNCHANGED isr

\* eoi_master (pic.zig) ends the interrupt of highest priority that is in service.
eoi == isr' = {k \in isr : \E j \in isr : j < k}

HandlerEnd ==
    /\ handler # NoIrq /\ body = "done"
    /\ eoi
    /\ handler' = NoIrq
    /\ UNCHANGED <<main, flag, vectors, imr, irr, body, lock, tick_count>>

BootNext == RustKernelInit \/ PicInit \/ KeyboardInit \/ Sti
Commands == CommandStart \/ CommandEnd \/ Reboot \/ CommandDies

IrqNext ==
    \/ BootNext
    \/ Commands
    \/ Handle
    \/ HandlerEnd
    \/ \E irq \in IRQs : Raise(irq)
    \/ \E irq \in IRQs : Deliver(irq)

IrqSpec == IrqInit /\ [][IrqNext]_irq_vars

\* kernel_main boots, a handler that may go on does, the PIT keeps ticking, and the
\* PIC delivers what it may deliver again and again.  Nothing is asked of commands:
\* they may run for ever.
IrqFairness ==
    /\ WF_irq_vars(BootNext) /\ WF_irq_vars(Handle) /\ WF_irq_vars(HandlerEnd)
    /\ WF_irq_vars(Raise(Timer))
    /\ \A irq \in IRQs : SF_irq_vars(Deliver(irq))

IrqFairSpec == IrqSpec /\ IrqFairness

-----------------------------------------------------------------------------
(* Properties *)

IrqTypeOK ==
    /\ main \in Boot \cup Up \cup {Stopped} /\ flag \in {"on", "off"}
    /\ vectors \in {"exceptions", "gates"}
    /\ imr \subseteq IRQs /\ irr \subseteq IRQs /\ isr \subseteq IRQs
    /\ handler \in IRQs \cup {NoIrq} /\ body \in {"todo", "done"}
    /\ lock \in {"free", "main"}
    /\ tick_count \in 0 .. MaxTick

\* A handler never waits for the mutex that the code it interrupted holds: on one
\* CPU nobody would ever release it.
NoSelfDeadlock == ~ (handler = Timer /\ body = "todo" /\ lock = "main")

\* No IRQ is taken for a CPU exception: while the PIC still sends to the vectors
\* of the BIOS, none is delivered, whatever mask the BIOS left.
DeliveredToGate == handler # NoIrq => vectors = "gates"

\* A key that is pressed while the shell is up is answered, whatever the other lines
\* do, whichever command is running and however long it runs.  The one way out is a
\* CPU that has stopped for good: reboot, exit, a panic or an exception in a command.
KeyAnswered ==
    (Keyboard \in irr /\ main \in Up) ~> (handler = Keyboard \/ main = Stopped)

\* lib.rs:112, "Monotonically increasing kernel tick counter (incremented by timer
\* ISR)": with a PIT that keeps ticking, the counter moves unless the CPU stops.
TickAdvances == <>(tick_count > 0 \/ main = Stopped)

=============================================================================
