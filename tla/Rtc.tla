-------------------------------- MODULE Rtc --------------------------------
(***************************************************************************)
(* The HAL-OS real-time-clock driver (devices/rtc.c) used by the           *)
(* foreground processes of the terminals, which share the CPU through the  *)
(* PIT scheduler.  The driver keeps one global rtc_interrupt_flag, set by  *)
(* rtc_handler and cleared by every rtc_read, and one rate register, set   *)
(* by rtc_write and rtc_open for everybody.                                *)
(***************************************************************************)
EXTENDS Pic

CONSTANTS
  RtcUsers,     \* terminals whose programs call the RTC
  Frequencies,  \* values programs pass to rtc_write in *buf
  NBytes        \* nbytes values programs pass to rtc_write

ASSUME RtcUsers \subseteq Terms

RTC_RATE    == 15
NBYTES_SIZE == 4

VARIABLES
  rtc_interrupt_flag,
  rate,        \* the rate bits of RTC register A; 0 turns interrupts off
  rtc_armed,   \* register C has been read since the RTC last raised IRQ8
  pc,          \* t -> "User", or "Wait" inside rtc_read's loop
  ticked       \* t -> ghost: an RTC interrupt came since t's rtc_read
               \*      cleared the flag

rtc_vars == << rtc_interrupt_flag, rate, rtc_armed, pc, ticked >>
vars == << pic_vars, rtc_vars >>

\* Mutant: the default case falls through with an uninitialised rate (0).
set_rtc_frequency_no_default(r, frequency) ==
  IF \E k \in 1 .. 10 : frequency = 2 ^ k
  THEN 16 - (CHOOSE k \in 1 .. 10 : frequency = 2 ^ k)
  ELSE 0

\* set_rtc_frequency: the rate for 2^k Hz is 16 - k (RATE_2 = 0x0F ...
\* RATE_1024 = 0x06); any other frequency leaves the register as it is.
set_rtc_frequency(r, frequency) ==
  IF \E k \in 1 .. 10 : frequency = 2 ^ k
  THEN 16 - (CHOOSE k \in 1 .. 10 : frequency = 2 ^ k)
  ELSE r

\* The RTC raises IRQ8 at its periodic rate while the rate is not 0, and
\* then not again until register C is read.  Even at 1024 Hz its period is
\* long compared with a handler (Pic's Raise).
RtcFires ==
  /\ rate # 0 /\ rtc_armed
  /\ Raise(RTC_IRQ)
  /\ rtc_armed' = FALSE
  /\ UNCHANGED << rtc_interrupt_flag, rate, pc, ticked >>

\* rtc_handler, lines 50-66, between its cli and its sti: read register C
\* and set the flag if it is clear.
rtc_handler ==
  /\ At(RTC_IRQ, "cli")
  /\ frames' = SetTop("sti")
  /\ rtc_armed' = TRUE
  /\ rtc_interrupt_flag' = IF rtc_interrupt_flag = 0 THEN 1 ELSE rtc_interrupt_flag
  /\ ticked' = [t \in Terms |-> ticked[t] \/ pc[t] = "Wait"]
  /\ UNCHANGED << irr, isr, scheduled_terminal, rate, pc >>

Calls(t) == Running(t) /\ pc[t] = "User" /\ t \in RtcUsers

\* Mutant: rtc_read does not clear the flag before waiting.
RtcReadStart_no_clear(t) ==
  /\ Calls(t)
  /\ pc' = [pc EXCEPT ![t] = "Wait"]
  /\ ticked' = [ticked EXCEPT ![t] = FALSE]
  /\ UNCHANGED << pic_vars, rtc_interrupt_flag, rate, rtc_armed >>

\* rtc_read, line 83: clear the flag, then wait.
RtcReadStart(t) ==
  /\ Calls(t)
  /\ rtc_interrupt_flag' = 0
  /\ pc' = [pc EXCEPT ![t] = "Wait"]
  /\ ticked' = [ticked EXCEPT ![t] = FALSE]
  /\ UNCHANGED << pic_vars, rate, rtc_armed >>

\* rtc_read, lines 84-87: the running process sees the flag set and
\* returns 0.
RtcReadReturn(t) ==
  /\ Running(t) /\ pc[t] = "Wait"
  /\ rtc_interrupt_flag = 1
  /\ pc' = [pc EXCEPT ![t] = "User"]
  /\ UNCHANGED << pic_vars, rtc_interrupt_flag, rate, rtc_armed, ticked >>

\* rtc_write: -1 unless nbytes = 4; else set the frequency from *buf, read
\* register C and send an EOI for IRQ8 (line 116), whatever the PIC has in
\* service.
RtcWrite(t, n, frequency) ==
  /\ Calls(t)
  /\ IF n # NBYTES_SIZE
     THEN UNCHANGED << rate, rtc_armed, isr >>
     ELSE /\ rate' = set_rtc_frequency(rate, frequency)
          /\ rtc_armed' = TRUE
          /\ isr' = send_eoi(isr, RTC_IRQ)
  /\ UNCHANGED << irr, frames, scheduled_terminal, rtc_interrupt_flag, pc, ticked >>

\* rtc_open calls rtc_init, which enables periodic interrupts, sets the
\* rate back to RTC_RATE (2 Hz) for every user of the RTC, reads register
\* C and unmasks IRQ8 (already unmasked since boot).
RtcOpen(t) ==
  /\ Calls(t)
  /\ rate' = RTC_RATE
  /\ rtc_armed' = TRUE
  /\ UNCHANGED << pic_vars, rtc_interrupt_flag, pc, ticked >>

\* After boot: rtc_init has run, no read is in progress.
Init ==
  /\ PicInit
  /\ rtc_interrupt_flag = 0
  /\ rate = RTC_RATE
  /\ rtc_armed = TRUE
  /\ pc = [t \in Terms |-> "User"]
  /\ ticked = [t \in Terms |-> FALSE]

Next ==
  \/ PicStep /\ UNCHANGED rtc_vars
  \/ RtcFires
  \/ rtc_handler
  \/ \E t \in Terms :
       \/ RtcReadStart(t) \/ RtcReadReturn(t) \/ RtcOpen(t)
       \/ \E n \in NBytes, f \in Frequencies : RtcWrite(t, n, f)

\* A step of the handler on top of the running stack.
CpuStep ==
  \/ \E irq \in Lines : HandlerStep(irq) /\ UNCHANGED rtc_vars
  \/ rtc_handler

\* The PIC machinery's fairness (Pic); the RTC fires periodically while
\* its rate is set and it is re-armed; a waiting process that is scheduled
\* again and again while the flag is set gets to see it.  The CPU keeps
\* executing the handler on top of the running stack: it may be
\* interrupted, but no device interrupts between every two instructions of
\* it, so the handler at depth k of terminal t's stack, if it can step
\* again and again, does.
Fairness ==
  /\ PicFairness
  /\ SF_vars(RtcFires)
  /\ \A t \in Terms, k \in 1 .. MaxFrames :
       SF_vars(scheduled_terminal = t /\ Len(Stack) = k /\ CpuStep)
  /\ \A t \in RtcUsers : SF_vars(RtcReadReturn(t))

Spec == Init /\ [][Next]_vars /\ Fairness

-----------------------------------------------------------------------------
(***************************************************************************)
(* Properties                                                              *)
(***************************************************************************)

TypeOK ==
  /\ PicTypeOK
  /\ rtc_interrupt_flag \in {0, 1}
  /\ rate \in 6 .. 15
  /\ rtc_armed \in BOOLEAN
  /\ pc \in [Terms -> {"User", "Wait"}]
  /\ ticked \in [Terms -> BOOLEAN]

\* rtc_read returns only after an RTC interrupt that came after it was
\* called ("rtc read must return only after an RTC interrupt has occurred",
\* rtc.c:77), however the reads and interrupts of the processes interleave.
RtcReadWaitsForInterrupt ==
  [][\A t \in Terms : pc[t] = "Wait" /\ pc'[t] = "User" => ticked[t]]_vars

\* Every rtc_read returns, once key presses stop: the flag its wait loop
\* waits for is set by a later interrupt, which the PIC delivers, and is
\* seen by the waiting process.
RtcReadReturns ==
  KeysStop => \A t \in Terms : pc[t] = "Wait" ~> pc[t] = "User"

=============================================================================
