------------------------------ MODULE Terminal ------------------------------
(***************************************************************************)
(* The HAL-OS terminal line discipline (devices/terminal.c) and the        *)
(* keyboard interrupt that feeds it (devices/keyboard.c, decoded as in     *)
(* Keyboard), for the three terminals' foreground processes sharing one    *)
(* CPU.  Keys go to the keyboard buffer of the displayed terminal          *)
(* (active_terminal).                                                      *)
(* terminal_read spins until that terminal's enter_flag is set, echoing    *)
(* the buffer whenever the displayed terminal is also the one running;     *)
(* terminal_write clears the running terminal's (scheduled_terminal's)     *)
(* buffer.  The scheduler and terminal_switch are taken from ProcessTree,  *)
(* the abstraction Kernel is checked to implement, with the remapping of   *)
(* the video page that scheduler.c and terminal_switch perform.            *)
(***************************************************************************)
EXTENDS Integers, Sequences, Keyboard

CONSTANTS
  NumTerms,
  MAX_BUFFER_LENGTH,  \* 128 in terminal.h; keyboard_buffer has one byte more
  ScanCodes,          \* the scan codes the keyboard sends
  UserPresses(_),     \* may the user press this key in the current state?
  \* The environment: which user and program behaviour is allowed.
  BackgroundReads,    \* may a process call read while its terminal is hidden?
  SwitchDuringRead,   \* may the user press Alt+F while a read is in progress?
  TypeAhead,          \* may the user type while the program is not reading?
  ReadsWithoutWrite   \* may a program read again without writing in between?

ASSUME NumTerms >= 2 /\ MAX_BUFFER_LENGTH >= 2
ASSUME \A b \in {BackgroundReads, SwitchDuringRead, TypeAhead, ReadsWithoutWrite} : b \in BOOLEAN
\* Alt+F1..F3 switch to terminals 0..2: only the F-keys of modelled terminals.
ASSUME ScanCodes \subseteq 0 .. 255 /\
       \A sc \in ScanCodes : InRange(sc, F1_PRESS, F3_PRESS) => sc - F1_PRESS < NumTerms

Terms == 0 .. NumTerms - 1
VIDEO         == -1        \* video page on the screen; t means terminal t's
                           \* off-screen buffer TERMINAL_VIDEO + 4KB * t
Frames        == {VIDEO} \cup Terms   \* the physical 4 KB frames of text

VARIABLES
  keyboard_buffer,    \* t -> the bytes before current_char (their count)
  enter_flag,         \* t -> terminals[t].enter_flag
  reset_flag,         \* t -> terminals[t].reset_flag (set by Ctrl-L)
  last_current_char,  \* t -> terminals[t].last_current_char
  active_terminal,
  scheduled_terminal,
  video_page,         \* tableArray[VIDEO_MEMORY_PAGE] (and the vidmap page)
  pc,                 \* t -> where terminal t's process is in terminal_read,
                      \*      or "User"
  last_terminal,      \* t -> terminal_read's local last_terminal
  prev_call,          \* t -> the process's latest call: "read" or "write"
  entered,            \* t -> ghost: the buffer when Enter was pressed
  switching,          \* the scheduler is between choosing the next terminal
                      \* (line 103) and remapping the video page (113-122)
  screen              \* frame -> the terminal whose text it holds

term_vars == << keyboard_buffer, enter_flag, reset_flag, last_current_char, active_terminal,
                scheduled_terminal, video_page, pc, last_terminal, prev_call, entered,
                switching, screen >>
vars == << term_vars, kb_vars >>

\* The scheduler and the terminal switch, as ProcessTree states them.  Every
\* terminal's shell has started, so each stack is just its base shell.
PT == INSTANCE ProcessTree WITH NumPids <- NumTerms,
        stacks <- [t \in Terms |-> << t >>], opened <- [t \in Terms |-> TRUE],
        sched <- scheduled_terminal, shown <- active_terminal

\* Where the scheduler points the video page for terminal s (scheduler.c).
PageFor(s, shown) == IF s = shown THEN VIDEO ELSE s

ReadPCs == {"Poll", "Echo", "Consume", "Copy"}

(***************************************************************************)
(* The keyboard interrupt (keyboard_handler runs with interrupts masked)   *)
(***************************************************************************)

\* Mutant: no buffer-full check.
Typed_no_limit(buf, pending, c) == IF pending THEN buf ELSE Append(buf, c)

\* Mutant: the buffer-full check is off by one.
Typed_full_late(buf, pending, c) ==
  IF pending \/ Len(buf) >= MAX_BUFFER_LENGTH THEN buf ELSE Append(buf, c)

\* update_kb_buffer(input) for a printable input: dropped while a line is
\* pending (enter_flag) or the buffer holds MAX_BUFFER_LENGTH - 1 bytes.
Typed(buf, pending, c) ==
  IF pending \/ Len(buf) >= MAX_BUFFER_LENGTH - 1 THEN buf ELSE Append(buf, c)

RECURSIVE TypedN(_, _, _, _)
TypedN(buf, pending, c, n) == IF n = 0 THEN buf ELSE TypedN(Typed(buf, pending, c), pending, c, n - 1)

\* Without type-ahead the user types only while the displayed terminal's
\* program waits in terminal_read for a line not yet entered.
KeyAllowed ==
  TypeAhead \/ (pc[active_terminal] \in {"Poll", "Echo"} /\ ~enter_flag[active_terminal])

\* A printable key, or Tab (TAB_SPACE spaces).
Key(c, n) ==
  /\ KeyAllowed
  /\ keyboard_buffer' = [keyboard_buffer EXCEPT ![active_terminal] =
                           TypedN(@, enter_flag[active_terminal], c, n)]
  /\ UNCHANGED << enter_flag, reset_flag, last_current_char, active_terminal, scheduled_terminal,
                  video_page, pc, last_terminal, prev_call, entered,
                  switching, screen >>

\* update_kb_buffer('\n'): the line is complete.  (Enter again while a line
\* is pending leaves it as it is.)
Enter ==
  /\ KeyAllowed
  /\ enter_flag' = [enter_flag EXCEPT ![active_terminal] = TRUE]
  /\ entered' = IF enter_flag[active_terminal] THEN entered
                ELSE [entered EXCEPT ![active_terminal] = keyboard_buffer[active_terminal]]
  /\ UNCHANGED << keyboard_buffer, reset_flag, last_current_char, active_terminal,
                  scheduled_terminal, video_page, pc, last_terminal, prev_call,
                  switching, screen >>

\* Mutant: Backspace points the video page at the displayed terminal's buffer.
Backspace_active ==
  /\ KeyAllowed
  /\ keyboard_buffer' = [keyboard_buffer EXCEPT ![active_terminal] =
                           IF enter_flag[active_terminal] \/ @ = << >> THEN @ ELSE SubSeq(@, 1, Len(@) - 1)]
  /\ video_page' = IF enter_flag[active_terminal] THEN video_page ELSE active_terminal
  /\ UNCHANGED << enter_flag, reset_flag, last_current_char, active_terminal, scheduled_terminal,
                  pc, last_terminal, prev_call, entered, switching, screen >>

\* update_kb_buffer(BACKSPACE): drop the last byte (unless a line is
\* pending); the video page is pointed at the screen to erase it and then at
\* the scheduled terminal's off-screen buffer, whether or not that terminal
\* is the one displayed (244).  Erasing a character adds no one's text.
Backspace ==
  /\ KeyAllowed
  /\ keyboard_buffer' = [keyboard_buffer EXCEPT ![active_terminal] =
                           IF enter_flag[active_terminal] \/ @ = << >> THEN @ ELSE SubSeq(@, 1, Len(@) - 1)]
  /\ video_page' = IF enter_flag[active_terminal] THEN video_page ELSE scheduled_terminal
  /\ UNCHANGED << enter_flag, reset_flag, last_current_char, active_terminal, scheduled_terminal,
                  pc, last_terminal, prev_call, entered, switching, screen >>

\* Ctrl-L: clear_terminal maps the screen and clears it (the blank screen is
\* the displayed terminal's), points the video page at the scheduled
\* terminal's buffer (276) and sets reset_flag.
CtrlL ==
  /\ screen' = [screen EXCEPT ![VIDEO] = active_terminal]
  /\ video_page' = scheduled_terminal
  /\ reset_flag' = [reset_flag EXCEPT ![active_terminal] = TRUE]
  /\ UNCHANGED << keyboard_buffer, enter_flag, last_current_char, active_terminal,
                  scheduled_terminal, pc, last_terminal, prev_call, entered, switching >>

\* Alt+F(t): terminal_switch(t).  Every shell has started, so it only
\* swaps the screen contents and remaps the video page.  Both memcpys go
\* through the virtual VIDEO page, which is mapped to the screen first only
\* when the displayed terminal is not the scheduled one.
TerminalSwitch(t) ==
  LET a     == active_terminal
      s     == scheduled_terminal
      \* lines 27-31: the screen is mapped only if a is not the one running
      vp    == IF a # s THEN VIDEO ELSE video_page
      \* line 34: save what VIDEO shows into a's buffer; line 37: load t's
      saved == [screen EXCEPT ![a] = screen[vp]]
  IN  /\ t # a
      /\ SwitchDuringRead \/ \A u \in Terms : pc[u] = "User"
      /\ PT!Show(t)
      /\ screen' = [saved EXCEPT ![vp] = saved[t]]
      /\ video_page' = IF t # s THEN s ELSE vp        \* lines 40-44
      /\ UNCHANGED << keyboard_buffer, enter_flag, reset_flag, last_current_char,
                      pc, last_terminal, prev_call, entered, switching >>

(***************************************************************************)
(* The PIT tick                                                            *)
(***************************************************************************)

\* Lines 79-107: save the context, choose the next terminal round robin and
\* switch to its process.  pit_handler has already sent the EOI, and the
\* PIT gate is a trap gate, so a keyboard interrupt may come before the
\* remap below.  (A second tick cannot: the PIT fires every 50 ms.)
SchedulerRotate ==
  /\ ~switching
  /\ PT!Rotate
  /\ switching' = TRUE
  /\ UNCHANGED << keyboard_buffer, enter_flag, reset_flag, last_current_char, video_page,
                  pc, last_terminal, prev_call, entered, screen >>

\* Lines 109-137: remap the video page for the scheduled terminal as the
\* globals are now, and resume its process.
SchedulerRemap ==
  /\ switching
  /\ switching' = FALSE
  /\ video_page' = PageFor(scheduled_terminal, active_terminal)
  /\ UNCHANGED << keyboard_buffer, enter_flag, reset_flag, last_current_char, active_terminal,
                  scheduled_terminal, pc, last_terminal, prev_call, entered, screen >>

Scheduler == SchedulerRotate \/ SchedulerRemap

(***************************************************************************)
(* The running process (terminal scheduled_terminal's)                     *)
(***************************************************************************)

Running(t) == scheduled_terminal = t /\ ~switching

\* terminal_read entry: last_terminal = active_terminal.
ReadStart(t) ==
  /\ Running(t) /\ pc[t] = "User"
  /\ BackgroundReads \/ active_terminal = t
  /\ ReadsWithoutWrite \/ prev_call[t] # "read"
  /\ pc' = [pc EXCEPT ![t] = "Poll"]
  /\ last_terminal' = [last_terminal EXCEPT ![t] = active_terminal]
  /\ UNCHANGED << keyboard_buffer, enter_flag, reset_flag, last_current_char, active_terminal,
                  scheduled_terminal, video_page, prev_call, entered,
                  switching, screen >>

\* One pass of the wait loop (71-102) that does something: leave it when
\* the displayed terminal has a line, or note a change and go to echo it.
\* A pass that finds neither only spins.
Poll(t) ==
  LET a == active_terminal IN
  /\ Running(t) /\ pc[t] = "Poll"
  /\ \/ /\ enter_flag[a]
        /\ pc' = [pc EXCEPT ![t] = "Consume"]
        /\ UNCHANGED << reset_flag, last_current_char, last_terminal,
                  switching, screen >>
     \/ /\ ~enter_flag[a]
        /\ Len(keyboard_buffer[a]) # last_current_char[a] \/ reset_flag[a] \/ a # last_terminal[t]
        /\ reset_flag' = [reset_flag EXCEPT ![a] = FALSE]
        /\ last_current_char' = [last_current_char EXCEPT ![a] = Len(keyboard_buffer[a])]
        /\ last_terminal' = [last_terminal EXCEPT ![t] = a]
        /\ pc' = [pc EXCEPT ![t] = "Echo"]
  /\ UNCHANGED << keyboard_buffer, enter_flag, active_terminal, scheduled_terminal,
                  video_page, prev_call, entered,
                  switching, screen >>

\* Mutant: the echo loop waits for the displayed terminal not to run.
Echo_inverted(t) ==
  /\ Running(t) /\ pc[t] = "Echo"
  /\ scheduled_terminal # active_terminal
  /\ pc' = [pc EXCEPT ![t] = "Poll"]
  /\ screen' = [screen EXCEPT ![video_page] = active_terminal]
  /\ UNCHANGED << keyboard_buffer, enter_flag, reset_flag, last_current_char, active_terminal,
                  scheduled_terminal, video_page, last_terminal, prev_call, entered,
                  switching >>

\* The echo loop (93-101): spin until the displayed terminal is the one
\* running, then print its buffer with interrupts masked.
Echo(t) ==
  /\ Running(t) /\ pc[t] = "Echo"
  /\ scheduled_terminal = active_terminal
  /\ pc' = [pc EXCEPT ![t] = "Poll"]
  /\ screen' = [screen EXCEPT ![video_page] = active_terminal]
  /\ UNCHANGED << keyboard_buffer, enter_flag, reset_flag, last_current_char, active_terminal,
                  scheduled_terminal, video_page, last_terminal, prev_call, entered,
                  switching >>

\* Line 105: clear the displayed terminal's enter_flag.
Consume(t) ==
  /\ Running(t) /\ pc[t] = "Consume"
  /\ enter_flag' = [enter_flag EXCEPT ![active_terminal] = FALSE]
  /\ pc' = [pc EXCEPT ![t] = "Copy"]
  /\ UNCHANGED << keyboard_buffer, reset_flag, last_current_char, active_terminal,
                  scheduled_terminal, video_page, last_terminal, prev_call, entered,
                  switching, screen >>

\* Lines 113-120: append '\n' to the displayed terminal's buffer and copy
\* its current_char bytes to the caller; current_char keeps the count.
Copy(t) ==
  /\ Running(t) /\ pc[t] = "Copy"
  /\ keyboard_buffer' = [keyboard_buffer EXCEPT ![active_terminal] = Append(@, NEWLINE_ASCII)]
  /\ pc' = [pc EXCEPT ![t] = "User"]
  /\ prev_call' = [prev_call EXCEPT ![t] = "read"]
  /\ UNCHANGED << enter_flag, reset_flag, last_current_char, active_terminal,
                  scheduled_terminal, video_page, last_terminal, entered,
                  switching, screen >>

\* Mutant: terminal_write clears the displayed terminal's buffer.
TerminalWrite_active(t) ==
  /\ Running(t) /\ pc[t] = "User"
  /\ keyboard_buffer' = [keyboard_buffer EXCEPT ![active_terminal] = << >>]
  /\ prev_call' = [prev_call EXCEPT ![t] = "write"]
  /\ screen' = [screen EXCEPT ![video_page] = t]
  /\ UNCHANGED << enter_flag, reset_flag, last_current_char, active_terminal,
                  scheduled_terminal, video_page, pc, last_terminal, entered,
                  switching >>

\* terminal_write for nbytes <= MAX_INPUT_BUF_LEN: print through the video
\* page, and clear the running terminal's keyboard buffer and current_char
\* (151-160).  The early return for longer writes (137-139) is left out:
\* no program here writes more than a line.
TerminalWrite(t) ==
  /\ Running(t) /\ pc[t] = "User"
  /\ keyboard_buffer' = [keyboard_buffer EXCEPT ![t] = << >>]
  /\ prev_call' = [prev_call EXCEPT ![t] = "write"]
  /\ screen' = [screen EXCEPT ![video_page] = t]
  /\ UNCHANGED << enter_flag, reset_flag, last_current_char, active_terminal,
                  scheduled_terminal, video_page, pc, last_terminal, entered,
                  switching >>

\* The terminals array is a zero-initialised global (terminal.h 30): empty
\* buffers, flags clear; terminal 0 is displayed and scheduled at boot.
Init ==
  /\ keyboard_buffer = [t \in Terms |-> << >>]
  /\ enter_flag = [t \in Terms |-> FALSE]
  /\ reset_flag = [t \in Terms |-> FALSE]
  /\ last_current_char = [t \in Terms |-> 0]
  /\ active_terminal = 0
  /\ scheduled_terminal = 0
  /\ video_page = VIDEO
  /\ pc = [t \in Terms |-> "User"]
  /\ last_terminal = [t \in Terms |-> 0]
  /\ prev_call = [t \in Terms |-> "write"]
  /\ entered = [t \in Terms |-> << >>]
  /\ switching = FALSE
  /\ screen = [f \in Frames |-> IF f = VIDEO THEN 0 ELSE f]
  /\ KeyboardInit

\* update_kb_buffer(input) (terminal.c 221-258), by the byte it is given.
update_kb_buffer(input) ==
  CASE input = NEWLINE_ASCII   -> Enter
    [] input = BACKSPACE_ASCII -> Backspace
    [] OTHER                   -> Key(input, 1)

\* keyboard_handler (keyboard.c 166-248) for one scan code, with interrupts
\* masked: the flags change as Keyboard says, and the call it makes is
\* taken.  terminal_switch returns at once for the displayed terminal (22).
KeyboardHandler(scan_code) ==
  LET k == KeyCall(scan_code)
  IN  /\ KeyboardDecode(scan_code)
      /\ CASE k.call = "none"             -> UNCHANGED term_vars
          [] k.call = "clear_terminal"   -> CtrlL
          [] k.call = "terminal_switch"  -> IF k.arg = active_terminal
                                            THEN UNCHANGED term_vars
                                            ELSE TerminalSwitch(k.arg)
          [] k.call = "tab"              -> Key(SPACE_ASCII, TAB_SPACE)
          [] k.call = "update_kb_buffer" -> update_kb_buffer(k.arg)

\* The keyboard interrupt, for a key the user may press now.
Keyboard == \E scan_code \in ScanCodes : UserPresses(scan_code) /\ KeyboardHandler(scan_code)

ReadStep(t) == (Poll(t) \/ Echo(t) \/ Consume(t) \/ Copy(t)) /\ UNCHANGED kb_vars

Next ==
  \/ Keyboard
  \/ Scheduler /\ UNCHANGED kb_vars
  \/ \E t \in Terms : ReadStep(t) \/ ((ReadStart(t) \/ TerminalWrite(t)) /\ UNCHANGED kb_vars)

\* The PIT keeps firing, and a process runs whenever it is scheduled, which
\* happens again and again: a step of a read that keeps becoming possible
\* is eventually taken.  The user and the programs' own choices get none.
Fairness == WF_vars(Scheduler /\ UNCHANGED kb_vars) /\ \A t \in Terms : SF_vars(ReadStep(t))

Spec == Init /\ [][Next]_vars /\ Fairness

\* Keeps buffers that grow past their bound (a violation) finite for TLC.
BufferCap == \A t \in Terms : Len(keyboard_buffer[t]) <= MAX_BUFFER_LENGTH + 1

-----------------------------------------------------------------------------
(***************************************************************************)
(* Properties                                                              *)
(***************************************************************************)

TypeOK ==
  /\ keyboard_buffer \in [Terms -> Seq(Bytes \ {BACKSPACE_ASCII})]
  /\ enter_flag \in [Terms -> BOOLEAN]
  /\ reset_flag \in [Terms -> BOOLEAN]
  /\ last_current_char \in [Terms -> 0 .. MAX_BUFFER_LENGTH]
  /\ active_terminal \in Terms /\ scheduled_terminal \in Terms
  /\ video_page \in {VIDEO} \cup Terms
  /\ pc \in [Terms -> {"User"} \cup ReadPCs]
  /\ last_terminal \in [Terms -> Terms]
  /\ prev_call \in [Terms -> {"read", "write"}]
  /\ entered \in [Terms -> Seq(Bytes \ {BACKSPACE_ASCII})]
  /\ switching \in BOOLEAN
  /\ screen \in [Frames -> Terms]
  /\ KeyboardTypeOK

\* A read returns the line the user entered on the caller's own terminal:
\* when terminal_read of terminal t's process copies the buffer out, it is
\* terminal t's buffer, and it holds exactly what was there when Enter was
\* pressed, followed by '\n' (terminal_read, update_kb_buffer).
ReadReturnsEnteredLine ==
  [][\A t \in Terms :
       pc[t] = "Copy" /\ pc'[t] = "User" =>
         /\ active_terminal = t
         /\ keyboard_buffer'[t] = Append(entered[t], NEWLINE_ASCII)]_vars

\* current_char never passes MAX_BUFFER_LENGTH, so the '\n' that
\* terminal_read stores at keyboard_buffer[current_char] (113) and the NUL
\* of line 90 stay inside the MAX_BUFFER_LENGTH + 1 bytes of the array.
KeyboardBufferInBounds ==
  \A t \in Terms : Len(keyboard_buffer[t]) <= MAX_BUFFER_LENGTH

\* Once the user has pressed Enter on the terminal a process is reading,
\* the read returns: the wait loop sees enter_flag and the echo loop is
\* released when the scheduler comes round to the displayed terminal.
ReadCompletes ==
  \A t \in Terms : (pc[t] \in ReadPCs /\ enter_flag[t] /\ active_terminal = t) ~> pc[t] = "User"

\* The running program's output never lands on another terminal's text:
\* whenever a process may run (the scheduler is not between choosing it
\* and remapping), the video page is the scheduled terminal's off-screen
\* buffer, or the screen if that terminal is displayed.  The scheduler,
\* terminal_switch, Backspace and Ctrl-L all write this page.
OutputStaysOnOwnTerminal ==
  ~switching =>
    video_page \in {scheduled_terminal} \cup
                   (IF scheduled_terminal = active_terminal THEN {VIDEO} ELSE {})

\* Alt+F shows each terminal its own text: the screen holds the displayed
\* terminal's text and every other terminal's buffer holds that terminal's
\* (terminal_switch's two memcpys, through the video page as it is when
\* the keyboard interrupt arrives).
ScreensHoldOwnText ==
  /\ screen[VIDEO] = active_terminal
  /\ \A t \in Terms \ {active_terminal} : screen[t] = t

=============================================================================
