--------------------------- MODULE KeyboardProofs ---------------------------
(***************************************************************************)
(* For every ring size: the keyboard ring is type correct, its reader      *)
(* never loses the slot it is reading, and together they implement         *)
(* KeyQueue.  For any set of IRQ lines and whatever mask the BIOS left: no *)
(* handler ever waits for the mutex of the code it interrupted, and no IRQ *)
(* arrives as a CPU exception (module Interrupts).                         *)
(***************************************************************************)
EXTENDS Keyboard, Interrupts, SequenceTheorems, TLAPS

(***************************************************************************)
(* The inductive invariant.  The two last conjuncts are what the code      *)
(* relies on without saying so: a head loaded before an interrupt can be   *)
(* stale, but a ring that was not empty cannot become empty under the      *)
(* reader's feet; and the reader asks for a key only when it holds none.   *)
(***************************************************************************)
StaleHeadIsSafe == (pc = "load_tail" /\ head # ring_tail) => ring_head # ring_tail
OneKeyInHand    == pc # "edit" => key = 0
IInv == TypeOK /\ ReaderOwnsSlot /\ StaleHeadIsSafe /\ OneKeyInHand

-----------------------------------------------------------------------------
(* Index arithmetic of keyboard.zig: (i + 1) % RING_BUF_SIZE.              *)
LEMMA NextSlot ==
    ASSUME NEW i \in Slots
    PROVE  (i + 1) % RING_BUF_SIZE = IF i + 1 = RING_BUF_SIZE THEN 0 ELSE i + 1
  BY RingAssumption DEF Slots

(* Whatever the modifiers, a scancode decodes to a byte.                   *)
LEMMA CharIsByte ==
    TypeOK => CharOf(scancode) \in Bytes
<1>. SUFFICES ASSUME TypeOK PROVE CharOf(scancode) \in Bytes
  OBVIOUS
<1>1. code(scancode) \in 0..127
  BY DEF TypeOK, code, Bytes
<1>. DEFINE raw == IF "shift" \in pressed THEN SCANCODE_SHIFT[code(scancode)]
                                           ELSE SCANCODE_NORMAL[code(scancode)]
<1>2. raw \in 0..127
  BY <1>1, TableAssumption
<1>3. ApplyCaps(raw) \in Bytes
  <2>. HIDE DEF raw
  <2>. QED
    BY <1>2 DEF ApplyCaps, Bytes
<1>4. CharOf(scancode) \in {0, ApplyCaps(raw)}
  BY DEF CharOf
<1>. QED
  BY <1>3, <1>4 DEF Bytes

(* ring_put never empties the ring and never touches the oldest slot.      *)
LEMMA RingPut ==
    ASSUME TypeOK, NEW ch \in Bytes, ring_put(ch)
    PROVE  /\ ring_buf' \in [Slots -> Bytes] /\ ring_head' \in Slots
           /\ ring_tail' = ring_tail
           /\ ring_head # ring_tail => /\ ring_head' # ring_tail
                                       /\ ring_buf'[ring_tail] = ring_buf[ring_tail]
  BY RingAssumption, NextSlot DEF TypeOK, ring_put, ring, Slots

(* The same for the whole handler.                                         *)
LEMMA HandlerOnRing ==
    ASSUME TypeOK, Handler
    PROVE  /\ ring_buf' \in [Slots -> Bytes] /\ ring_head' \in Slots
           /\ ring_tail' = ring_tail
           /\ ring_head # ring_tail => /\ ring_head' # ring_tail
                                       /\ ring_buf'[ring_tail] = ring_buf[ring_tail]
<1>1. CASE CharOf(scancode) # 0
  BY <1>1, CharIsByte, RingPut DEF Handler
<1>2. CASE CharOf(scancode) = 0
  BY <1>2 DEF Handler, ring, TypeOK
<1>. QED
  BY <1>1, <1>2

LEMMA ModifiersTyped ==
    ASSUME TypeOK, UpdateModifiers(scancode)
    PROVE  pressed' \subseteq {"shift", "ctrl", "alt", "caps_lock"}
  BY DEF TypeOK, UpdateModifiers, Modifier

(* Editing keeps line_len below LINE_BUF_SIZE.                             *)
LEMMA LineFits ==
    ASSUME TypeOK
    PROVE  EditedLine \in Seq(Bytes) /\ Len(EditedLine) < LINE_BUF_SIZE
<1>1. line # <<>> => /\ SubSeq(line, 1, Len(line) - 1) \in Seq(Bytes)
                     /\ Len(SubSeq(line, 1, Len(line) - 1)) = Len(line) - 1
  <2>. SUFFICES ASSUME line # <<>>
                PROVE  /\ SubSeq(line, 1, Len(line) - 1) \in Seq(Bytes)
                       /\ Len(SubSeq(line, 1, Len(line) - 1)) = Len(line) - 1
    OBVIOUS
  <2>1. line \in Seq(Bytes) /\ Len(line) \in Nat /\ Len(line) >= 1
    BY EmptySeq DEF TypeOK
  <2>2. \A i \in 1 .. Len(line) - 1 : line[i] \in Bytes
    BY <2>1
  <2>3. SubSeq(line, 1, Len(line) - 1) \in Seq(Bytes)
    BY <2>1, <2>2, SubSeqProperties
  <2>4. Len(SubSeq(line, 1, Len(line) - 1)) = Len(line) - 1
    <3>. DEFINE n == Len(line) - 1
    <3>1. n \in Int /\ n >= 0
      BY <2>1
    <3>. HIDE DEF n
    <3>2. Len(SubSeq(line, 1, n)) = IF 1 <= n THEN n - 1 + 1 ELSE 0
      BY <3>1, SubSeqProperties, <2>2 DEF n
    <3>. QED
      BY <2>1, <3>2 DEF n
  <2>. QED
    BY <2>3, <2>4
<1>2. /\ Append(line, key) \in Seq(Bytes)
      /\ Len(Append(line, key)) = Len(line) + 1
  BY DEF TypeOK
<1>. QED
  BY <1>1, <1>2, LineAssumption DEF TypeOK, EditedLine

-----------------------------------------------------------------------------
LEMMA InitInv == Init => IInv
  BY RingAssumption, LineAssumption
  DEF Init, IInv, TypeOK, ReaderOwnsSlot, StaleHeadIsSafe, OneKeyInHand, Slots, Bytes

LEMMA NextInv == IInv /\ [Next]_vars => IInv'
<1>. SUFFICES ASSUME IInv, [Next]_vars PROVE IInv'
  OBVIOUS
<1>. USE DEF IInv
<1>1. CASE Accept
  BY <1>1, TableAssumption
  DEF Accept, ring, locals, TypeOK, Bytes,
      ReaderOwnsSlot, StaleHeadIsSafe, OneKeyInHand
<1>2. CASE Handler
  <2>1. TypeOK'
    BY <1>2, HandlerOnRing, ModifiersTyped
    DEF Handler, eoi_master, locals, TypeOK, Bytes
  <2>2. ReaderOwnsSlot'
    BY <1>2, HandlerOnRing DEF Handler, locals, ReaderOwnsSlot
  <2>3. StaleHeadIsSafe'
    BY <1>2, HandlerOnRing DEF Handler, locals, StaleHeadIsSafe
  <2>4. OneKeyInHand'
    BY <1>2 DEF Handler, OneKeyInHand
  <2>. QED
    BY <2>1, <2>2, <2>3, <2>4
<1>3. CASE LoadHead
  BY <1>3 DEF LoadHead, At, Goto, ring, TypeOK,
              ReaderOwnsSlot, StaleHeadIsSafe, OneKeyInHand
<1>4. CASE LoadTail
  BY <1>4 DEF LoadTail, At, Goto, ring, TypeOK,
              ReaderOwnsSlot, StaleHeadIsSafe, OneKeyInHand
<1>5. CASE ReadSlot
  BY <1>5 DEF ReadSlot, At, Goto, ring, TypeOK,
              ReaderOwnsSlot, StaleHeadIsSafe, OneKeyInHand
<1>6. CASE StoreTail
  <2>1. (tail + 1) % RING_BUF_SIZE \in Slots
    BY NextSlot, RingAssumption DEF TypeOK, Slots
  <2>. QED
    BY <1>6, <2>1 DEF StoreTail, At, Goto, locals, TypeOK,
                      ReaderOwnsSlot, StaleHeadIsSafe, OneKeyInHand
<1>7. CASE Edit
  <2>1. line' \in Seq(Bytes) /\ Len(line') < LINE_BUF_SIZE
    BY <1>7, LineFits DEF Edit
  <2>. QED
    BY <1>7, <2>1 DEF Edit, At, Goto, ring, locals, TypeOK, Bytes,
                      ReaderOwnsSlot, StaleHeadIsSafe, OneKeyInHand
<1>8. CASE ExecuteLine
  <2>1. line' \in Seq(Bytes) /\ Len(line') < LINE_BUF_SIZE
    <3>1. line' = line \/ line' = <<>>
      BY <1>8 DEF ExecuteLine
    <3>2. CASE line' = line
      BY <3>2 DEF TypeOK
    <3>3. CASE line' = <<>>
      BY <3>3, LineAssumption
    <3>. QED
      BY <3>1, <3>2, <3>3
  <2>2. pc' \in {"stopped", "load_head"}
    BY <1>8 DEF ExecuteLine, Goto
  <2>3. key' = 0 /\ UNCHANGED <<ring, locals, pressed, cpu, scancode, in_service>>
    BY <1>8 DEF ExecuteLine, Goto
  <2>4. TypeOK'
    BY <2>1, <2>2, <2>3 DEF ring, locals, TypeOK, Bytes
  <2>5. ReaderOwnsSlot' /\ StaleHeadIsSafe' /\ OneKeyInHand'
    BY <2>2, <2>3 DEF ring, locals, ReaderOwnsSlot, StaleHeadIsSafe, OneKeyInHand
  <2>. QED
    BY <2>4, <2>5
<1>9. CASE Hlt
  BY <1>9 DEF Hlt, At, Goto, ring, locals, TypeOK,
              ReaderOwnsSlot, StaleHeadIsSafe, OneKeyInHand
<1>10. CASE UNCHANGED vars
  BY <1>10 DEF vars, ring, locals, TypeOK,
               ReaderOwnsSlot, StaleHeadIsSafe, OneKeyInHand
<1>. QED
  BY <1>1, <1>2, <1>3, <1>4, <1>5, <1>6, <1>7, <1>8, <1>9, <1>10 DEF Next, Shell

LEMMA Invariance == Spec => []IInv
  BY InitInv, NextInv, PTL DEF Spec

(* The driver's and the shell's variables keep their ranges: in particular *)
(* neither ring index nor line_len ever leaves its buffer.                 *)
THEOREM TypeCorrect == Spec => []TypeOK
  BY Invariance, PTL DEF IInv

(* Whenever IRQ1 comes between the steps of read_key, the slot being read  *)
(* stays occupied and unchanged until ring_tail is stored.                 *)
THEOREM SlotOwned == Spec => []ReaderOwnsSlot
  BY Invariance, PTL DEF IInv

-----------------------------------------------------------------------------
(* The refinement.  First the mapped queue: its length, its slots, and what *)
(* the two ring operations do to it.                                       *)
LEMMA CountRange ==
    ASSUME TypeOK
    PROVE  /\ Count \in 0 .. RING_BUF_SIZE - 1
           /\ Count = 0 <=> ring_head = ring_tail
           /\ Count = RING_BUF_SIZE - 1 <=> (ring_head + 1) % RING_BUF_SIZE = ring_tail
  BY RingAssumption, NextSlot DEF TypeOK, Count, Slots

LEMMA SlotRange ==
    ASSUME TypeOK, NEW i \in 1 .. RING_BUF_SIZE
    PROVE  /\ SlotOf(i) \in Slots
           /\ i \in 1 .. Count => SlotOf(i) # ring_head
           /\ i = Count + 1 => SlotOf(i) = ring_head
  BY RingAssumption DEF TypeOK, Count, SlotOf, Slots

LEMMA ContentsIsSeq ==
    ASSUME TypeOK
    PROVE  /\ RingContents \in Seq(Bytes) /\ Len(RingContents) = Count
           /\ DOMAIN RingContents = 1 .. Count
<1>1. \A i \in 1 .. Count : ring_buf[SlotOf(i)] \in Bytes
  BY CountRange, SlotRange, RingAssumption DEF TypeOK
<1>2. Count \in Nat
  BY CountRange
<1>. QED
  BY <1>1, <1>2 DEF RingContents

LEMMA PutContents ==
    ASSUME TypeOK, NEW ch \in Bytes, ring_put(ch)
    PROVE  RingContents' = IF Len(RingContents) < RING_BUF_SIZE - 1
                           THEN Append(RingContents, ch) ELSE RingContents
<1>1. CASE Count = RING_BUF_SIZE - 1
  <2>1. UNCHANGED ring
    BY <1>1, CountRange DEF ring_put
  <2>2. RingContents' = RingContents
    BY <2>1 DEF RingContents, Count, SlotOf, ring
  <2>. QED
    BY <1>1, <2>2, ContentsIsSeq, RingAssumption
<1>2. CASE Count # RING_BUF_SIZE - 1
  <2>1. /\ ring_head' = (ring_head + 1) % RING_BUF_SIZE
        /\ ring_buf' = [ring_buf EXCEPT ![ring_head] = ch]
        /\ ring_tail' = ring_tail
    BY <1>2, CountRange DEF ring_put
  <2>2. Count' = Count + 1
    <3>1. ring_head' = IF ring_head + 1 = RING_BUF_SIZE THEN 0 ELSE ring_head + 1
      BY <2>1, NextSlot DEF TypeOK
    <3>2. ring_head' # ring_tail
      BY <1>2, <2>1, CountRange
    <3>3. CASE ring_head + 1 = RING_BUF_SIZE
      BY <2>1, <3>1, <3>2, <3>3, RingAssumption DEF TypeOK, Count, Slots
    <3>4. CASE ring_head + 1 # RING_BUF_SIZE
      BY <2>1, <3>1, <3>2, <3>4, RingAssumption DEF TypeOK, Count, Slots
    <3>. QED
      BY <3>3, <3>4
  <2>3. \A i \in 1 .. Count : ring_buf'[SlotOf(i)] = ring_buf[SlotOf(i)]
    BY <2>1, SlotRange, CountRange, RingAssumption DEF TypeOK
  <2>4. ring_buf'[SlotOf(Count + 1)] = ch
    BY <2>1, SlotRange, CountRange, RingAssumption DEF TypeOK
  <2>5. \A i : SlotOf(i)' = SlotOf(i)
    BY <2>1 DEF SlotOf
  <2>6. RingContents' = [i \in 1 .. Count + 1 |-> ring_buf'[SlotOf(i)]]
    BY <2>2, <2>5 DEF RingContents
  <2>7. /\ Append(RingContents, ch) \in Seq(Bytes)
        /\ Len(Append(RingContents, ch)) = Count + 1
        /\ \A i \in 1 .. Count + 1 : Append(RingContents, ch)[i] =
                IF i = Count + 1 THEN ch ELSE RingContents[i]
    BY ContentsIsSeq, CountRange
  <2>8. \A i \in 1 .. Count : RingContents[i] = ring_buf[SlotOf(i)]
    BY DEF RingContents
  <2>9. \A i \in 1 .. Count + 1 :
            ring_buf'[SlotOf(i)] = IF i = Count + 1 THEN ch ELSE RingContents[i]
    BY <2>3, <2>4, <2>8, CountRange
  <2>10. /\ RingContents' \in Seq(Bytes) /\ Len(RingContents') = Count + 1
         /\ \A i \in 1 .. Count + 1 : RingContents'[i] = ring_buf'[SlotOf(i)]
    <3>1. \A i \in 1 .. Count + 1 : ring_buf'[SlotOf(i)] \in Bytes
      BY <2>3, <2>4, CountRange, SlotRange, RingAssumption DEF TypeOK
    <3>2. Count + 1 \in Nat
      BY CountRange
    <3>. QED
      BY <2>6, <3>1, <3>2
  <2>11. RingContents' = Append(RingContents, ch)
    BY <2>7, <2>9, <2>10, SeqEqual
  <2>12. Len(RingContents) < RING_BUF_SIZE - 1
    BY <1>2, ContentsIsSeq, CountRange, RingAssumption
  <2>. QED
    BY <2>11, <2>12
<1>. QED
  BY <1>1, <1>2

LEMMA GetContents ==
    ASSUME TypeOK, ReaderOwnsSlot, StoreTail
    PROVE  /\ RingContents # <<>>
           /\ key' = Head(RingContents)
           /\ RingContents' = Tail(RingContents)
<1>1. /\ ring_tail' = (ring_tail + 1) % RING_BUF_SIZE
      /\ UNCHANGED <<ring_buf, ring_head>>
      /\ key' = ring_buf[ring_tail]
      /\ ring_head # ring_tail
  BY DEF StoreTail, At, ReaderOwnsSlot
<1>2. Count \in 1 .. RING_BUF_SIZE - 1
  BY <1>1, CountRange
<1>3. RingContents # <<>>
  BY <1>2, ContentsIsSeq
<1>4. SlotOf(1) = ring_tail
  BY RingAssumption DEF TypeOK, SlotOf, Slots
<1>5. Head(RingContents) = RingContents[1] /\ RingContents[1] = ring_buf[ring_tail]
  BY <1>2, <1>4, ContentsIsSeq DEF RingContents
<1>6. Count' = Count - 1
  BY <1>1, <1>2, NextSlot, RingAssumption DEF TypeOK, Count, Slots
<1>7. \A i \in 1 .. Count - 1 : SlotOf(i)' = SlotOf(i + 1)
  <2>1. ring_tail' = IF ring_tail + 1 = RING_BUF_SIZE THEN 0 ELSE ring_tail + 1
    BY <1>1, NextSlot DEF TypeOK
  <2>. QED
    BY <1>2, <2>1, RingAssumption DEF TypeOK, SlotOf, Slots
<1>8. RingContents' = [i \in 1 .. Count - 1 |-> ring_buf[SlotOf(i + 1)]]
  BY <1>1, <1>6, <1>7 DEF RingContents
<1>9. /\ Tail(RingContents) \in Seq(Bytes)
      /\ Len(Tail(RingContents)) = Count - 1
      /\ \A i \in 1 .. Count - 1 : Tail(RingContents)[i] = RingContents[i + 1]
  BY <1>2, <1>3, ContentsIsSeq, HeadTailProperties
<1>10. \A i \in 1 .. Count - 1 : RingContents[i + 1] = ring_buf[SlotOf(i + 1)]
  BY <1>2 DEF RingContents
<1>11. /\ RingContents' \in Seq(Bytes) /\ Len(RingContents') = Count - 1
       /\ \A i \in 1 .. Count - 1 : RingContents'[i] = ring_buf[SlotOf(i + 1)]
  <2>1. \A i \in 1 .. Count - 1 : ring_buf[SlotOf(i + 1)] \in Bytes
    BY <1>2, SlotRange, RingAssumption DEF TypeOK
  <2>2. Count - 1 \in Nat
    BY <1>2, RingAssumption
  <2>. QED
    BY <1>8, <2>1, <2>2
<1>12. RingContents' = Tail(RingContents)
  BY <1>9, <1>10, <1>11, SeqEqual
<1>. QED
  BY <1>1, <1>3, <1>5, <1>12

LEMMA SameContents == ASSUME UNCHANGED ring PROVE RingContents' = RingContents
  BY DEF RingContents, Count, SlotOf, ring

(* Every step of the driver and the shell is a step of KeyQueue or leaves  *)
(* its variables alone.                                                    *)
LEMMA InitRefines == Init => KQ!Init
<1>. SUFFICES ASSUME Init PROVE KQ!Init
  OBVIOUS
<1>1. Count = 0
  BY DEF Init, Count
<1>2. RingContents = <<>>
  BY <1>1 DEF RingContents
<1>. QED
  BY <1>2 DEF Init, KQ!Init, Typed

LEMMA NextRefines == IInv /\ IInv' /\ [Next]_vars => [KQ!Next]_KQ!vars
<1>. SUFFICES ASSUME IInv, IInv', [Next]_vars PROVE [KQ!Next]_KQ!vars
  OBVIOUS
<1>. USE DEF IInv
<1>1. CASE Accept
  <2>1. RingContents' = RingContents /\ key' = key /\ Typed = 0
    BY <1>1, SameContents DEF Accept, Typed
  <2>2. CharOf(scancode)' \in Bytes /\ Typed' = CharOf(scancode)'
    <3>1. (TypeOK => CharOf(scancode) \in Bytes)'
      BY CharIsByte, PTL
    <3>. QED
      BY <1>1, <3>1 DEF Accept, Typed, Bytes
  <2>3. Typed' = 0 \/ Typed' \in 1..255
    BY <2>2 DEF Bytes
  <2>. QED
    BY <2>1, <2>3 DEF KQ!Next, KQ!Type, KQ!vars
<1>2. CASE Handler
  <2>1. Typed = CharOf(scancode) /\ Typed' = 0 /\ key' = key
    BY <1>2 DEF Handler, Typed
  <2>2. CASE CharOf(scancode) = 0
    BY <1>2, <2>1, <2>2, SameContents DEF Handler, KQ!vars
  <2>3. CASE CharOf(scancode) # 0
    BY <1>2, <2>1, <2>3, CharIsByte, PutContents DEF Handler, KQ!Next, KQ!Put
  <2>. QED
    BY <2>2, <2>3
<1>3. CASE StoreTail
  <2>1. Typed' = Typed /\ key = 0
    BY <1>3 DEF StoreTail, At, Goto, Typed, OneKeyInHand
  <2>. QED
    BY <1>3, <2>1, GetContents DEF KQ!Next, KQ!Get
<1>4. CASE Edit \/ ExecuteLine
  <2>1. Typed' = Typed /\ RingContents' = RingContents /\ key' = 0
    BY <1>4, SameContents DEF Edit, ExecuteLine, At, Goto, Typed
  <2>. QED
    BY <2>1 DEF KQ!Next, KQ!Use, KQ!vars
<1>5. CASE LoadHead \/ LoadTail \/ ReadSlot \/ Hlt
  <2>1. Typed' = Typed /\ RingContents' = RingContents /\ key' = key
    BY <1>5, SameContents DEF LoadHead, LoadTail, ReadSlot, Hlt, At, Goto, Typed
  <2>. QED
    BY <2>1 DEF KQ!vars
<1>6. CASE UNCHANGED vars
  <2>1. RingContents' = RingContents /\ key' = key
    BY <1>6, SameContents DEF vars
  <2>2. Typed' = Typed
    BY <1>6 DEF vars, Typed, CharOf, ApplyCaps
  <2>. QED
    BY <2>1, <2>2 DEF KQ!vars
<1>. QED
  BY <1>1, <1>2, <1>3, <1>4, <1>5, <1>6 DEF Next, Shell

(* keyboard.zig's ring with shell.zig's reader implements the bounded FIFO *)
(* queue, for every RING_BUF_SIZE >= 2, LINE_BUF_SIZE >= 1 and all tables. *)
THEOREM RingRefinesQueue == Spec => RingIsQueue
<1>1. Spec => KQ!Init
  BY InitRefines DEF Spec
<1>2. Spec => [][KQ!Next]_KQ!vars
  BY Invariance, NextRefines, PTL DEF Spec
<1>. QED
  BY <1>1, <1>2 DEF RingIsQueue, KQ!Spec

-----------------------------------------------------------------------------
(* Boot order and delivery (module Interrupts).  What both theorems rest on *)
(* is the state of the PIC at the moment interrupts are enabled.            *)

(* What kernel_main has set up by the time it is at each step, and that    *)
(* nothing but the keyboard gets through afterwards.                       *)
SetUp ==
    /\ main \in Boot => flag = "off"
    /\ flag = "off" => handler = NoIrq
    /\ main \in Up \cup {"keyboard_init", "sti"} => vectors = "gates"
    /\ main = Stopped => flag = "off"
    /\ main \in Up \cup {"sti"} => imr = master_mask
    /\ handler \in {NoIrq, Keyboard}

IrqInv == IrqTypeOK /\ SetUp

LEMMA IrqInitInv == IrqInit => IrqInv
  BY IrqAssumption, TickAssumption
  DEF IrqInit, IrqInv, IrqTypeOK, SetUp, Boot, Up, Stopped, NoIrq, Keyboard

LEMMA BootInv ==
    ASSUME IrqInv, RustKernelInit \/ PicInit \/ KeyboardInit \/ Sti PROVE IrqInv'
<1>1. CASE RustKernelInit
  BY <1>1 DEF RustKernelInit, BootStep, after, pic, irq_cpu, IrqInv, IrqTypeOK, SetUp, Boot, Up, Stopped
<1>2. CASE PicInit
  BY <1>2 DEF PicInit, BootStep, after, pic, irq_cpu, IrqInv, IrqTypeOK, SetUp, Boot, Up, Stopped
<1>3. CASE KeyboardInit
  BY <1>3 DEF KeyboardInit, BootStep, after, master_mask, pic, irq_cpu, IrqInv, IrqTypeOK, SetUp,
              Boot, Up, Stopped
<1>4. CASE Sti
  BY <1>4 DEF Sti, BootStep, after, master_mask, pic, irq_cpu, IrqInv, IrqTypeOK, SetUp, Boot, Up, Stopped
<1>. QED
  BY <1>1, <1>2, <1>3, <1>4

LEMMA CommandInv == ASSUME IrqInv, Commands PROVE IrqInv'
<1>1. CASE CommandStart \/ CommandEnd
  BY <1>1 DEF CommandStart, CommandEnd, pic, irq_cpu, IrqInv, IrqTypeOK, SetUp, Boot, Up,
              Stopped, master_mask
<1>2. CASE Reboot \/ CommandDies
  BY <1>2 DEF Reboot, CommandDies, pic, irq_cpu, IrqInv, IrqTypeOK, SetUp, Boot, Up,
              Stopped, master_mask
<1>. QED
  BY <1>1, <1>2 DEF Commands

LEMMA RaiseInv == ASSUME IrqInv, NEW irq \in IRQs, Raise(irq) PROVE IrqInv'
  BY DEF Raise, irq_cpu, IrqInv, IrqTypeOK, SetUp, master_mask

(* The one step that could break SetUp: only an unmasked IRQ is delivered. *)
LEMMA DeliverInv == ASSUME IrqInv, NEW irq \in IRQs, Deliver(irq) PROVE IrqInv'
<1>1. flag = "on" /\ irq \in irr \ imr
  BY DEF Deliver
<1>2. main \in Up
  BY <1>1 DEF IrqInv, SetUp, IrqTypeOK
<1>3. irq = Keyboard
  BY <1>1, <1>2 DEF IrqInv, SetUp, master_mask
<1>. QED
  BY <1>1, <1>3 DEF Deliver, IrqInv, IrqTypeOK, SetUp, master_mask

LEMMA HandleInv == ASSUME IrqInv, Handle PROVE IrqInv'
  BY TickAssumption DEF Handle, pic, IrqInv, IrqTypeOK, SetUp, master_mask

LEMMA HandlerEndInv == ASSUME IrqInv, HandlerEnd PROVE IrqInv'
  BY DEF HandlerEnd, eoi, IrqInv, IrqTypeOK, SetUp, master_mask

LEMMA StutterInv == ASSUME IrqInv, UNCHANGED irq_vars PROVE IrqInv'
  BY DEF irq_vars, IrqInv, IrqTypeOK, SetUp, master_mask

LEMMA IrqInvariance == IrqSpec => []IrqInv
<1>1. IrqInv /\ [IrqNext]_irq_vars => IrqInv'
  BY BootInv, CommandInv, RaiseInv, DeliverInv, HandleInv, HandlerEndInv, StutterInv
  DEF IrqNext, BootNext
<1>. QED
  BY IrqInitInv, <1>1, PTL DEF IrqSpec

(* The timer handler never spins on the kernel mutex while the shell holds *)
(* it, because keyboard_init masked the timer before sti.                  *)
THEOREM MutexNeverSelfLocks == IrqSpec => []NoSelfDeadlock
<1>1. IrqInv => NoSelfDeadlock
  BY DEF IrqInv, SetUp, NoSelfDeadlock, Timer, Keyboard, NoIrq
<1>. QED
  BY <1>1, IrqInvariance, PTL

(* kernel_main enables interrupts only after pic_init has moved the IRQs   *)
(* off the exception vectors.                                              *)
THEOREM IrqsReachGates == IrqSpec => []DeliveredToGate
<1>1. IrqInv => DeliveredToGate
  BY DEF IrqInv, SetUp, IrqTypeOK, DeliveredToGate, Boot, Up
<1>. QED
  BY <1>1, IrqInvariance, PTL

=============================================================================
