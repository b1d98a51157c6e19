-------------------------------- MODULE Pic --------------------------------
(***************************************************************************)
(* The two cascaded 8259 PICs (i8259.c) and the delivery of the PIT,       *)
(* keyboard and RTC interrupts to the CPU, with the handlers' EOIs         *)
(* (pit.c, keyboard.c, rtc.c), through the IDT that init_interrupts       *)
(* builds (interrupts.c).  Every gate it builds is a trap gate, so a       *)
(* handler runs with interrupts enabled until its own cli, and again after *)
(* its sti.  The PIT handler calls the scheduler, which leaves the current *)
(* terminal's kernel stack with every handler frame on it and resumes      *)
(* another terminal's.  Each terminal's stack is a sequence of frames      *)
(* [irq, pc]; the running terminal executes the top one, and its program   *)
(* runs when its stack is empty.                                           *)
(*                                                                         *)
(* A line the PIC has latched is in irr, a line it has sent to the CPU    *)
(* and that has not been acknowledged is in isr (a slave line also holds   *)
(* the master's cascade line SLAVE_PORT).  The PIC is in fully nested      *)
(* mode: a line is held back while a line of equal or higher priority is   *)
(* in service.                                                             *)
(***************************************************************************)
EXTENDS Integers, Sequences, Bitwise

CONSTANTS
  NumTerms,
  MaxFrames   \* bound on the frames of one kernel stack

ASSUME NumTerms >= 2 /\ MaxFrames >= 1

Terms == 0 .. NumTerms - 1

PIT_LINE     == 0
KEYBOARD_IRQ == 1
SLAVE_PORT   == 2
RTC_IRQ      == 8
PORT_COUNT   == 8
TOTAL_PORT_COUNT == PORT_COUNT * 2

Lines == {PIT_LINE, KEYBOARD_IRQ, RTC_IRQ}

(***************************************************************************)
(* The IDT (interrupts.c)                                                  *)
(***************************************************************************)

ICW2_MASTER == 32       \* i8259.h: IRQ 0-7 raise vectors 0x20-0x27
ICW2_SLAVE  == 40       \*          IRQ 8-15 raise vectors 0x28-0x2F
NUM_EXCEPTIONS    == 32
SYSTEM_CALL_INDEX == 128
PIT_INDEX         == 32
KEYBOARD_INDEX    == 33
RTC_INDEX         == 40
NUM_VEC           == 256  \* x86_desc.h (not in the repository)

\* The vector i8259_init programs for a line (ICW2, lines 22-23).
Vector(irq) == IF irq < PORT_COUNT THEN ICW2_MASTER + irq ELSE ICW2_SLAVE + irq - PORT_COUNT

\* exceptions[]: stubs for vectors 0-19, NULL for the rest of its 32.
exceptions(i) == IF i < 20 THEN "exception" ELSE "NULL"

\* handlers[] as init_interrupts fills it (lines 66-97).
handlers(i) ==
  CASE i < NUM_EXCEPTIONS     -> exceptions(i)
    [] i = SYSTEM_CALL_INDEX -> "sys_call_linkage"
    [] i = RTC_INDEX         -> "rtc_intr"
    [] i = KEYBOARD_INDEX    -> "keyboard_intr"
    [] i = PIT_INDEX         -> "pit_intr"
    [] OTHER                 -> "NULL"

\* idt[i] (lines 102-139): present iff it has a handler; every branch of the
\* gate type sets size = 1 and reserved3 = 1, a 32-bit trap gate.  (The
\* DPL only decides who may raise a vector with int; programs are not
\* modelled raising any.)
idt(i) ==
  [handler |-> handlers(i), present |-> handlers(i) # "NULL",
   size |-> 1, reserved3 |-> 1]

\* Entering through an interrupt gate (reserved3 = 0) clears IF; a trap
\* gate leaves it as it is.
InterruptGate(v) == idt(v).reserved3 = 0

\* The line whose handler each interrupt stub runs.
HandlerLine == [h \in {"pit_intr", "keyboard_intr", "rtc_intr"} |->
                  CASE h = "pit_intr" -> PIT_LINE
                    [] h = "keyboard_intr" -> KEYBOARD_IRQ
                    [] h = "rtc_intr" -> RTC_IRQ]

VARIABLES
  irr,                 \* lines requested and not yet sent to the CPU
  isr,                 \* lines in service (not yet acknowledged by an EOI)
  frames,              \* t -> terminal t's kernel stack of handler frames
  scheduled_terminal

pic_vars == << irr, isr, frames, scheduled_terminal >>

\* The scheduler's rotation, as ProcessTree states it (every shell started).
PT == INSTANCE ProcessTree WITH NumPids <- NumTerms,
        stacks <- [t \in Terms |-> << t >>], opened <- [t \in Terms |-> TRUE],
        sched <- scheduled_terminal, shown <- 0

(***************************************************************************)
(* i8259.c                                                                 *)
(***************************************************************************)

\* enable_irq: clear the line's bit in the 8-bit mask of its PIC.
enable_irq(m, irq_num) ==
  IF irq_num < PORT_COUNT
  THEN [m EXCEPT !.master = @ & (255 - 2 ^ irq_num)]
  ELSE [m EXCEPT !.slave = @ & (255 - 2 ^ (irq_num - PORT_COUNT))]

\* The masks after boot: i8259_init starts from 0xFF/0xFF and unmasks the
\* cascade line; keyboard_init, init_pit and rtc_init unmask their lines.
\* Nothing masks a line afterwards (keyboard_close is never called, and
\* rtc_open's enable_irq unmasks a line that already is).
masks ==
  LET boot == enable_irq([master |-> 255, slave |-> 255], SLAVE_PORT)
  IN  enable_irq(enable_irq(enable_irq(boot, KEYBOARD_IRQ), PIT_LINE), RTC_IRQ)

Bit(x, b) == (x \div 2 ^ b) % 2

Masked(irq) ==
  IF irq < PORT_COUNT THEN Bit(masks.master, irq) = 1
  ELSE Bit(masks.slave, irq - PORT_COUNT) = 1 \/ Bit(masks.master, SLAVE_PORT) = 1

\* Mutant: the EOI for a slave line is sent to the slave only.
send_eoi_slave_only(s, irq_num) ==
  IF irq_num >= TOTAL_PORT_COUNT THEN s
  ELSE s \ {irq_num}

\* send_eoi: a specific EOI for the line; for a slave line, to the slave
\* and for the cascade line to the master.  Out-of-range lines are ignored.
send_eoi(s, irq_num) ==
  IF irq_num >= TOTAL_PORT_COUNT THEN s
  ELSE IF irq_num >= PORT_COUNT THEN s \ {irq_num, SLAVE_PORT}
  ELSE s \ {irq_num}

\* Priority on the master: line 0 first; a slave line counts as line 2.
Rank(irq) == IF irq < PORT_COUNT THEN irq ELSE SLAVE_PORT

\* (The cascade line in service holds back every slave line.)
HeldBack(irq) ==
  \E b \in isr : Rank(b) < Rank(irq) \/ (Rank(b) = Rank(irq) /\ b <= irq)

Eligible(irq) == irq \in irr /\ ~Masked(irq) /\ ~HeldBack(irq)

(***************************************************************************)
(* The CPU                                                                 *)
(***************************************************************************)

Stack == frames[scheduled_terminal]
Top   == Stack[Len(Stack)]

\* A handler entered through an interrupt gate would run with IF clear
\* until its sti (keyboard, RTC) or its iret (pit_handler).
GateMasked(f) ==
  /\ InterruptGate(Vector(f.irq))
  /\ f.pc \in IF f.irq = PIT_LINE THEN {"eoi", "sched", "ret"} ELSE {"cli"}

\* Interrupts are enabled except between a handler's cli and its sti (and
\* where its gate clears IF).
InterruptsOn == IF Stack = << >> THEN TRUE ELSE Top.pc # "sti" /\ ~GateMasked(Top)

\* The running terminal's top frame is handler irq at pc.
At(irq, pc) == Stack # << >> /\ Top = [irq |-> irq, pc |-> pc]

SetTop(pc) == [frames EXCEPT ![scheduled_terminal] = [@ EXCEPT ![Len(@)].pc = pc]]

\* Where each handler starts: pit_handler with its EOI, the others with cli.
EntryPc(irq) == IF irq = PIT_LINE THEN "eoi" ELSE "cli"

\* The CPU takes the highest-priority eligible line at an instruction
\* boundary with interrupts on, and enters the handler of the line's IDT
\* gate on the current stack.
Deliver(irq) ==
  LET gate == idt(Vector(irq))
      h    == HandlerLine[gate.handler]
  IN
  /\ gate.present /\ gate.handler \in DOMAIN HandlerLine
  /\ InterruptsOn
  /\ Eligible(irq)
  /\ \A j \in irr : Eligible(j) => Rank(irq) <= Rank(j)
  /\ Len(Stack) < MaxFrames
  /\ irr' = irr \ {irq}
  /\ isr' = isr \cup (IF irq >= PORT_COUNT THEN {irq, SLAVE_PORT} ELSE {irq})
  /\ frames' = [frames EXCEPT ![scheduled_terminal] =
                  Append(@, [irq |-> h, pc |-> EntryPc(h)])]
  /\ UNCHANGED scheduled_terminal

\* A device raises its line (a line already latched stays latched once).
\* Ticks, key presses and RTC periods are far apart compared with a
\* handler: the device does not raise its line again while the CPU is
\* still in its handler, and a latched line the CPU can take now is taken
\* first.
Raise(irq) ==
  /\ irq \notin irr
  /\ \A i \in DOMAIN Stack : Stack[i].irq # irq
  /\ ~\E j \in irr : InterruptsOn /\ Eligible(j)
  /\ irr' = irr \cup {irq}
  /\ UNCHANGED << isr, frames, scheduled_terminal >>

\* A key press.  Keys come (at most at the typematic rate) far apart
\* compared with the 20 Hz tick and with a handler, so one comes while a
\* program runs, not inside a handler.
KeyPress ==
  /\ Stack = << >>
  /\ Raise(KEYBOARD_IRQ)

\* pit_handler, line 32: send_eoi(PIT_LINE) first.
PitEoi ==
  /\ At(PIT_LINE, "eoi")
  /\ isr' = send_eoi(isr, PIT_LINE)
  /\ frames' = SetTop("sched")
  /\ UNCHANGED << irr, scheduled_terminal >>

\* pit_handler, lines 33-35: scheduler() saves this stack, with every frame
\* on it, and resumes the next terminal's, whose top frame is the
\* pit_handler that was left there by the tick that switched it out.
PitSchedule ==
  /\ At(PIT_LINE, "sched")
  /\ frames' = SetTop("ret")
  /\ PT!Rotate
  /\ UNCHANGED << irr, isr >>

\* keyboard_handler: cli, the handler body (its effects are Terminal's),
\* then sti (246) and send_eoi(KEYBOARD_IRQ) (247).
KeyboardCli ==
  /\ At(KEYBOARD_IRQ, "cli")
  /\ frames' = SetTop("sti")
  /\ UNCHANGED << irr, isr, scheduled_terminal >>

\* The sti of keyboard_handler (246) and rtc_handler (rtc.c 67).
HandlerSti(irq) ==
  /\ At(irq, "sti")
  /\ frames' = SetTop("eoi")
  /\ UNCHANGED << irr, isr, scheduled_terminal >>

\* Mutant: keyboard_handler acknowledges the PIT's line instead of its own.
HandlerEoi_pit_line(irq) ==
  /\ At(irq, "eoi")
  /\ isr' = send_eoi(isr, IF irq = KEYBOARD_IRQ THEN PIT_LINE ELSE irq)
  /\ frames' = SetTop("ret")
  /\ UNCHANGED << irr, scheduled_terminal >>

\* send_eoi of keyboard_handler (247) and rtc_handler (rtc.c 69).
HandlerEoi(irq) ==
  /\ At(irq, "eoi")
  /\ isr' = send_eoi(isr, irq)
  /\ frames' = SetTop("ret")
  /\ UNCHANGED << irr, scheduled_terminal >>

\* The handler returns; iret pops its frame.
HandlerReturn(irq) ==
  /\ At(irq, "ret")
  /\ frames' = [frames EXCEPT ![scheduled_terminal] = SubSeq(@, 1, Len(@) - 1)]
  /\ UNCHANGED << irr, isr, scheduled_terminal >>

\* A step of the handler of line irq on top of the running stack (the RTC
\* handler's body between its cli and sti is Rtc's).
HandlerStep(irq) ==
  \/ irq = PIT_LINE /\ (PitEoi \/ PitSchedule)
  \/ irq = KEYBOARD_IRQ /\ KeyboardCli
  \/ irq # PIT_LINE /\ (HandlerSti(irq) \/ HandlerEoi(irq))
  \/ HandlerReturn(irq)

\* A step of the interrupt machinery that does not touch a device's state.
PicStep ==
  \/ \E irq \in Lines : Deliver(irq) \/ HandlerStep(irq)
  \/ Raise(PIT_LINE) \/ KeyPress

\* After boot every terminal's shell has run; terminal 0 runs, and each
\* other terminal was left by a tick inside pit_handler.
PicInit ==
  /\ irr = {}
  /\ isr = {}
  /\ frames = [t \in Terms |-> IF t = 0 THEN << >> ELSE << [irq |-> PIT_LINE, pc |-> "ret"] >>]
  /\ scheduled_terminal = 0

\* The running terminal's program, when no handler is on its stack.
Running(t) == scheduled_terminal = t /\ frames[t] = << >>

\* The PIT keeps firing; the PIC keeps raising INTR for a line it holds, so
\* a line that is deliverable again and again is delivered.  The keyboard
\* gets no fairness.  (The CPU's fairness on handler steps is stated with
\* the device handlers, in Rtc.)
PicFairness ==
  /\ SF_pic_vars(Raise(PIT_LINE))
  /\ \A irq \in Lines : SF_pic_vars(Deliver(irq))

-----------------------------------------------------------------------------
Frames == [irq : Lines, pc : {"eoi", "sched", "cli", "sti", "ret"}]

PicTypeOK ==
  /\ irr \subseteq Lines
  /\ isr \subseteq Lines \cup {SLAVE_PORT}
  /\ frames \in [Terms -> Seq(Frames)]
  /\ scheduled_terminal \in Terms

\* Every line the PIC holds in service is acknowledged later: some
\* terminal's stack, running or switched out, has a handler for it that
\* has not sent its EOI yet; and the master's cascade line is in service
\* exactly while the RTC's slave line is (send_eoi acknowledges both).
InServiceHasHandler ==
  /\ \A irq \in isr \ {SLAVE_PORT} :
       \E t \in Terms : \E i \in 1 .. Len(frames[t]) :
         frames[t][i].irq = irq /\ frames[t][i].pc \in {"eoi", "cli", "sti"}
  /\ (SLAVE_PORT \in isr <=> RTC_IRQ \in isr)

\* The user eventually stops typing.
KeysStop == <>[][~KeyPress]_pic_vars

\* Every line raised is taken by the CPU, once key presses stop: a
\* keyboard or RTC handler that a tick switched out between its sti and its
\* send_eoi holds back its own line and every lower one only until the
\* scheduler comes back to its terminal.
EveryIrqServed ==
  KeysStop => \A irq \in Lines : irq \in irr ~> irq \notin irr

=============================================================================
