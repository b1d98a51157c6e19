------------------------------- MODULE Kernel -------------------------------
(***************************************************************************)
(* Process lifecycle and terminal scheduler of the HAL-OS kernel:          *)
(* execute and halt (system_calls.c), the PIT-driven scheduler             *)
(* (scheduler.c, pit.c) and the Alt+Fn terminal switch that lazily starts  *)
(* a terminal's shell (scheduler.c terminal_switch, keyboard.c).           *)
(*                                                                         *)
(* One CPU runs one continuation at a time (variable cpu).  A continuation *)
(* is the abstract content of a kernel stack plus registers: a program     *)
(* counter naming the step of the kernel routine about to run (or "User"   *)
(* for user code), the process whose code it is, and the locals the        *)
(* routine keeps across steps.  The scheduler saves the running            *)
(* continuation into current_pcb's scheduling slot and resumes the slot of *)
(* the next terminal's foreground pcb; halt resumes the continuation       *)
(* execute recorded in esp_val/ebp_val.                                    *)
(*                                                                         *)
(* System calls enter through trap gates (interrupts.c init_interrupts), so *)
(* the PIT and the keyboard may interrupt them; only halt's teardown and   *)
(* the keyboard handler run with interrupts masked.  KernelPreemptible     *)
(* says whether the model lets an interrupt arrive between the steps of    *)
(* execute and halt (what the code allows) or only while the CPU is in     *)
(* user code or a wait loop (what spec section 5 assumes).                 *)
(***************************************************************************)
EXTENDS Integers, Sequences, FiniteSets

CONSTANTS
  NumTerms,              \* MAX_TERMINALS (scheduler.h)
  NumPids,               \* NUM_PIDS (system_calls.c)
  Commands,              \* command lines a user program may pass to execute
  ValidCommands,         \* those naming an executable file (ELF magic ok)
  Statuses,              \* exit statuses a user program may pass to halt
  KernelPreemptible,     \* may PIT/keyboard interrupt execute and halt?
  ShellCallsInBackground,\* may a process whose terminal is not displayed
                         \* call execute, or exit a base shell?
  SwitchWhileStarting,   \* may the user press Alt+Fn while a new terminal's
                         \* shell waits in execute for its first tick?
  TableArrayAddr,        \* where the linker put paging.c's tableArray
  VmemTableArrayAddr     \* and vmemTableArray

ASSUME NumTerms \in Nat \ {0} /\ NumPids \in Nat /\ NumPids >= NumTerms
ASSUME ValidCommands \subseteq Commands
ASSUME Statuses \subseteq 0 .. 255     \* halt's status is a uint8_t
ASSUME KernelPreemptible \in BOOLEAN /\ ShellCallsInBackground \in BOOLEAN
ASSUME SwitchWhileStarting \in BOOLEAN

Terms == 0 .. NumTerms - 1
Pids  == 0 .. NumPids - 1
NULL  == -1                    \* current_pcb == 0, parent_process_id == -1
NoRet == -2                    \* no system call has returned yet
EXCEPTION_RET_VAL == 256       \* status halt reports for a faulting process

\* Physical layout constants (system_calls.c, paging.h).
EIGHT_MB      == 8388608
FOUR_MB       == 4194304
PAGING_OFFSET == 4096          \* >> PAGING_OFFSET, as a divisor
VIDEO         == 753664        \* 0xB8000
TERMINAL_VIDEO == 761856       \* 0xBA000

\* get_phys_addr: 20-bit frame number of a process's 4 MB user region.
get_phys_addr(pid) == (EIGHT_MB + FOUR_MB * pid) \div PAGING_OFFSET

\* Frame the video page points at when terminal t's output goes off-screen.
TerminalVideoFrame(t) == (TERMINAL_VIDEO + PAGING_OFFSET * t) \div PAGING_OFFSET
VideoFrame == VIDEO \div PAGING_OFFSET

\* The page structures and the MMU's walk through them.
PG == INSTANCE Paging

VARIABLES
  in_use,                \* pcb_t.in_use, per pid
  parent_process_id,     \* pcb_t.parent_process_id, per pid
  process_id,            \* pcb_t.process_id, per pid (halt zeroes it)
  esp_val,               \* pcb_t.esp_val/ebp_val: pid whose execute frame
                         \* halt returns into (NULL: not a process's frame)
  scheduling_ctx,        \* pcb_t.scheduling_esp_val/ebp_val: the saved
                         \* continuation, or NoCtx if never saved
  active_pid,            \* terminals[t].active_pid
  initialized_terminals,
  active_terminal,       \* terminal shown on the screen
  scheduled_terminal,    \* terminal whose process owns the CPU
  first_swap,
  current_pcb,           \* pid, or NULL
  user_page,             \* directoryArray[USER_SPACE_DIR_NUM].offset_31_12
  video_page,            \* tableArray[VIDEO_MEMORY_PAGE] (= vidmap page)
  memory,                \* physical user frames: pid whose image was
                         \* copied into the frame by execute, or NULL
  cpu,                   \* the running continuation
  exception_in_child,    \* interrupts.c: set by a fault, read by halt
  fresh,                 \* ghost: scheduling_ctx[p] saved and not resumed
  waits                  \* ghost: ticks since terminal t was last scheduled

vars == << in_use, parent_process_id, process_id, esp_val, scheduling_ctx,
           active_pid, initialized_terminals, active_terminal,
           scheduled_terminal, first_swap, current_pcb, user_page,
           video_page, memory, cpu, exception_in_child, fresh, waits >>

(***************************************************************************)
(* Continuations.  pc names the next step; npid is execute's process_id    *)
(* local; back is halt's cached esp_val; ret is the value the last system  *)
(* call returned to user code, or the status halt is about to report;     *)
(* faulted (ghost) says the halt in progress came from exception_handler. *)
(***************************************************************************)
PCs == { "User", "ExecStart", "ExecMap", "ExecLoad", "ExecPcb",
         "ExecSwitch", "Spin", "HaltEntry", "HaltTeardown", "Lost", "None" }

Ctx(pc, pid) == [pc |-> pc, pid |-> pid, npid |-> NULL, back |-> NULL,
                 ret |-> NoRet, faulted |-> FALSE]
NoCtx == Ctx("None", NULL)
Returned(pid, r) == [Ctx("User", pid) EXCEPT !.ret = r]

\* The CPU is where an interrupt can be taken under the spec's masking
\* assumption: user code, or a wait loop.
WaitPCs == {"User", "Spin", "Lost"}
Interruptible == KernelPreemptible \/ cpu.pc \in WaitPCs

Goto(pc) == cpu' = [cpu EXCEPT !.pc = pc]

\* Mutant: the search loop runs one slot past the pcb array.
get_pid_past_end ==
  IF \E p \in 0 .. NumPids : p = NumPids \/ ~in_use[p]
  THEN CHOOSE p \in 0 .. NumPids :
         (p = NumPids \/ ~in_use[p]) /\ \A q \in 0 .. p - 1 : in_use[q]
  ELSE -1

(***************************************************************************)
(* get_pid: lowest pid whose pcb is not in use, or -1.                     *)
(***************************************************************************)
get_pid ==
  IF \E p \in Pids : ~in_use[p]
  THEN CHOOSE p \in Pids : ~in_use[p] /\ \A q \in 0 .. p - 1 : in_use[q]
  ELSE -1

\* Mutant: the skip loop starts at s instead of s + 1.
NextScheduled_no_advance(s) ==
  LET k == CHOOSE k \in 0 .. NumTerms - 1 :
             /\ initialized_terminals[(s + k) % NumTerms]
             /\ \A j \in 0 .. k - 1 : ~initialized_terminals[(s + j) % NumTerms]
  IN  (s + k) % NumTerms

\* Mutant: the skip loop restarts from terminal 0 on every tick.
NextScheduled_from_zero(s) ==
  CHOOSE t \in Terms : initialized_terminals[t] /\ \A u \in 0 .. t - 1 : ~initialized_terminals[u]

(***************************************************************************)
(* The scheduler's skip loop: the first initialized terminal after s.      *)
(***************************************************************************)
NextScheduled(s) ==
  LET k == CHOOSE k \in 1 .. NumTerms :
             /\ initialized_terminals[(s + k) % NumTerms]
             /\ \A j \in 1 .. k - 1 : ~initialized_terminals[(s + j) % NumTerms]
  IN  (s + k) % NumTerms

(***************************************************************************)
(* User code issues a system call.                                         *)
(***************************************************************************)
ShellMayCall == ShellCallsInBackground \/ scheduled_terminal = active_terminal

\* execute(command) entered from user code.
SysExecute ==
  /\ cpu.pc = "User"
  /\ ShellMayCall
  /\ \E cmd \in Commands :
       IF cmd \in ValidCommands
       THEN Goto("ExecStart")
       ELSE cpu' = Returned(cpu.pid, -1)
  /\ UNCHANGED << in_use, parent_process_id, process_id, esp_val,
                  scheduling_ctx, active_pid, initialized_terminals,
                  active_terminal, scheduled_terminal, first_swap,
                  current_pcb, user_page, video_page, memory,
                  exception_in_child, fresh, waits >>

\* halt(status) entered from user code by the system call.
SysHalt ==
  /\ cpu.pc = "User"
  /\ current_pcb # NULL
  /\ ShellMayCall \/ process_id[current_pcb] >= NumTerms
  /\ \E status \in Statuses :
       cpu' = [cpu EXCEPT !.pc = "HaltEntry", !.ret = status]
  /\ UNCHANGED << in_use, parent_process_id, process_id, esp_val,
                  scheduling_ctx, active_pid, initialized_terminals,
                  active_terminal, scheduled_terminal, first_swap,
                  current_pcb, user_page, video_page, memory,
                  exception_in_child, fresh, waits >>

\* exception_handler (interrupts.c): a fault in user code prints, sets the
\* global flag and jumps into halt, whose status argument is then whatever
\* the stack holds.
UserFault ==
  /\ cpu.pc = "User"
  /\ current_pcb # NULL
  /\ ShellMayCall \/ process_id[current_pcb] >= NumTerms
  /\ exception_in_child' = TRUE
  /\ \E junk \in Statuses :
       cpu' = [cpu EXCEPT !.pc = "HaltEntry", !.ret = junk, !.faulted = TRUE]
  /\ UNCHANGED << in_use, parent_process_id, process_id, esp_val,
                  scheduling_ctx, active_pid, initialized_terminals,
                  active_terminal, scheduled_terminal, first_swap,
                  current_pcb, user_page, video_page, memory, fresh, waits >>

(***************************************************************************)
(* execute, step by step.                                                  *)
(***************************************************************************)
\* Lines 147-220: parse (command already known valid), read the header,
\* choose the process id.
ExecuteStart ==
  /\ cpu.pc = "ExecStart"
  /\ LET pid == IF ~initialized_terminals[active_terminal]
                THEN active_terminal ELSE get_pid
     IN  IF pid = -1
         THEN cpu' = Returned(cpu.pid, -1)
         ELSE cpu' = [cpu EXCEPT !.pc = "ExecMap", !.npid = pid]
  /\ UNCHANGED << in_use, parent_process_id, process_id, esp_val,
                  scheduling_ctx, active_pid, initialized_terminals,
                  active_terminal, scheduled_terminal, first_swap,
                  current_pcb, user_page, video_page, memory,
                  exception_in_child, fresh, waits >>

\* Mutant: the user page is not remapped before the image is copied.
ExecuteMapPage_no_remap ==
  /\ cpu.pc = "ExecMap"
  /\ Goto("ExecLoad")
  /\ UNCHANGED << in_use, parent_process_id, process_id, esp_val,
                  scheduling_ctx, active_pid, initialized_terminals,
                  active_terminal, scheduled_terminal, first_swap,
                  current_pcb, user_page, video_page, memory,
                  exception_in_child, fresh, waits >>

\* Line 233: point the user page at the new process's frame.
ExecuteMapPage ==
  /\ cpu.pc = "ExecMap"
  /\ user_page' = get_phys_addr(cpu.npid)
  /\ Goto("ExecLoad")
  /\ UNCHANGED << in_use, parent_process_id, process_id, esp_val,
                  scheduling_ctx, active_pid, initialized_terminals,
                  active_terminal, scheduled_terminal, first_swap,
                  current_pcb, video_page, memory,
                  exception_in_child, fresh, waits >>

\* Line 237: copy the image through the user page, into whatever frame it
\* maps now.
ExecuteLoadImage ==
  /\ cpu.pc = "ExecLoad"
  /\ memory' = [memory EXCEPT ![user_page] = cpu.npid]
  /\ Goto("ExecPcb")
  /\ UNCHANGED << in_use, parent_process_id, process_id, esp_val,
                  scheduling_ctx, active_pid, initialized_terminals,
                  active_terminal, scheduled_terminal, first_swap,
                  current_pcb, user_page, video_page,
                  exception_in_child, fresh, waits >>

\* Lines 243-291: build the pcb.  Pid 0 also reserves pids 1 and 2 and
\* resets the displayed terminal to terminal 0.  The parent is the
\* foreground process of the *displayed* terminal.
ExecuteCreatePcb ==
  /\ cpu.pc = "ExecPcb"
  /\ LET pid == cpu.npid IN
     /\ in_use' = IF pid = 0
                  THEN [p \in Pids |-> IF p < NumTerms THEN TRUE ELSE in_use[p]]
                  ELSE [in_use EXCEPT ![pid] = TRUE]
     /\ process_id' = [process_id EXCEPT ![pid] = pid]
     /\ parent_process_id' =
          [parent_process_id EXCEPT ![pid] =
             IF pid < NumTerms THEN NULL ELSE active_pid[active_terminal]]
     /\ active_terminal' = IF pid = 0 THEN 0 ELSE active_terminal
     /\ esp_val' = [esp_val EXCEPT ![pid] = cpu.pid]
  /\ Goto("ExecSwitch")
  /\ UNCHANGED << scheduling_ctx, active_pid, initialized_terminals,
                  scheduled_terminal, first_swap, current_pcb, user_page,
                  video_page, memory,
                  exception_in_child, fresh, waits >>

\* Lines 294-310: make the new pcb current and the displayed terminal's
\* foreground process; a terminal's first shell waits for the scheduler.
ExecuteSwitch ==
  /\ cpu.pc = "ExecSwitch"
  /\ current_pcb' = cpu.npid
  /\ active_pid' = [active_pid EXCEPT ![active_terminal] = process_id[cpu.npid]]
  /\ IF ~initialized_terminals[active_terminal]
     THEN /\ initialized_terminals' =
               [initialized_terminals EXCEPT ![active_terminal] = TRUE]
          /\ Goto("Spin")
     ELSE /\ UNCHANGED initialized_terminals
          /\ cpu' = Ctx("User", cpu.npid)
  /\ UNCHANGED << in_use, parent_process_id, process_id, esp_val,
                  scheduling_ctx, active_terminal, scheduled_terminal,
                  first_swap, user_page, video_page, memory,
                  exception_in_child, fresh, waits >>

\* Lines 305-322: leave the wait loop once the scheduler runs this
\* terminal, then iret into the new program.
ExecuteSpin ==
  /\ cpu.pc = "Spin"
  /\ active_terminal = scheduled_terminal
  /\ cpu' = Ctx("User", cpu.npid)
  /\ UNCHANGED << in_use, parent_process_id, process_id, esp_val,
                  scheduling_ctx, active_pid, initialized_terminals,
                  active_terminal, scheduled_terminal, first_swap,
                  current_pcb, user_page, video_page, memory,
                  exception_in_child, fresh, waits >>

\* Mutant: halt reports the fault but leaves the flag set (line 58 dropped).
HaltEntry_keep_flag ==
  /\ cpu.pc = "HaltEntry"
  /\ cpu' = [cpu EXCEPT !.pc = "HaltTeardown", !.back = esp_val[current_pcb],
                         !.ret = IF exception_in_child THEN EXCEPTION_RET_VAL
                                 ELSE cpu.ret]
  /\ UNCHANGED << in_use, parent_process_id, process_id, esp_val,
                  scheduling_ctx, active_pid, initialized_terminals,
                  active_terminal, scheduled_terminal, first_swap,
                  current_pcb, user_page, video_page, memory,
                  exception_in_child, fresh, waits >>

\* halt, lines 51-67 (interrupts enabled): cache the execute frame, turn a
\* pending fault into status 256 and clear the flag.  Closing the file
\* descriptors (63-67) changes no state modelled here.
HaltEntry ==
  /\ cpu.pc = "HaltEntry"
  /\ cpu' = [cpu EXCEPT !.pc = "HaltTeardown", !.back = esp_val[current_pcb],
                         !.ret = IF exception_in_child THEN EXCEPTION_RET_VAL
                                 ELSE cpu.ret]
  /\ exception_in_child' = FALSE
  /\ UNCHANGED << in_use, parent_process_id, process_id, esp_val,
                  scheduling_ctx, active_pid, initialized_terminals,
                  active_terminal, scheduled_terminal, first_swap,
                  current_pcb, user_page, video_page, memory, fresh, waits >>

\* Mutant of halt's teardown: keep_active_pid forgets to give the terminal
\* back to the parent (line 106); base_le tests process_id <= NumTerms.
HaltTeardownWith(keep_active_pid, base_le) ==
  /\ cpu.pc = "HaltTeardown"
  /\ LET c == current_pcb IN
     /\ esp_val' = [esp_val EXCEPT ![c] = NULL]
     /\ in_use' = [in_use EXCEPT ![c] = FALSE]
     /\ process_id' = [process_id EXCEPT ![c] = 0]
     /\ parent_process_id' = [parent_process_id EXCEPT ![c] = 0]
     /\ IF process_id[c] < NumTerms \/ (base_le /\ process_id[c] = NumTerms)
        THEN /\ current_pcb' = NULL
             /\ cpu' = Ctx("ExecStart", cpu.pid)
             /\ UNCHANGED << active_pid, user_page >>
        ELSE LET par == parent_process_id[c] IN
             /\ user_page' = get_phys_addr(process_id[par])
             /\ current_pcb' = par
             /\ active_pid' = IF keep_active_pid THEN active_pid
                              ELSE [active_pid EXCEPT ![scheduled_terminal] =
                                      process_id[par]]
             /\ cpu' = Returned(cpu.back, cpu.ret)
  /\ UNCHANGED << scheduling_ctx, initialized_terminals, active_terminal,
                  scheduled_terminal, first_swap, video_page, memory,
                  exception_in_child, fresh, waits >>
HaltTeardown_keep_active_pid == HaltTeardownWith(TRUE, FALSE)
HaltTeardown_base_le == HaltTeardownWith(FALSE, TRUE)

(***************************************************************************)
(* halt, lines 69-119 (interrupts masked).  A base shell's pcb is freed    *)
(* and execute("shell") re-run in its place; any other process returns     *)
(* into the execute frame cached in back, with its status.                 *)
(***************************************************************************)
HaltTeardown ==
  /\ cpu.pc = "HaltTeardown"
  /\ LET c == current_pcb IN
     /\ esp_val' = [esp_val EXCEPT ![c] = NULL]
     /\ in_use' = [in_use EXCEPT ![c] = FALSE]
     /\ process_id' = [process_id EXCEPT ![c] = 0]
     /\ parent_process_id' = [parent_process_id EXCEPT ![c] = 0]
     /\ IF process_id[c] < NumTerms
        THEN /\ current_pcb' = NULL
             /\ cpu' = Ctx("ExecStart", cpu.pid)
             /\ UNCHANGED << active_pid, user_page >>
        ELSE LET par == parent_process_id[c] IN
             /\ user_page' = get_phys_addr(process_id[par])
             /\ current_pcb' = par
             /\ active_pid' = [active_pid EXCEPT ![scheduled_terminal] =
                                 process_id[par]]
             /\ cpu' = Returned(cpu.back, cpu.ret)
  /\ UNCHANGED << scheduling_ctx, initialized_terminals, active_terminal,
                  scheduled_terminal, first_swap, video_page, memory,
                  exception_in_child, fresh, waits >>

(***************************************************************************)
(* pit_handler + scheduler: save the running continuation into            *)
(* current_pcb, rotate to the next initialized terminal, remap the user    *)
(* and video pages, resume that terminal's saved continuation.             *)
(***************************************************************************)
Scheduler ==
  /\ Interruptible
  /\ current_pcb # NULL
  /\ LET s    == IF first_swap THEN 0 ELSE scheduled_terminal
         nxt  == NextScheduled(s)
         pcb  == active_pid[nxt]
         ctx  == IF pcb = current_pcb THEN cpu ELSE scheduling_ctx[pcb]
     IN
     /\ first_swap' = FALSE
     /\ scheduling_ctx' = [scheduling_ctx EXCEPT ![current_pcb] = cpu]
     /\ scheduled_terminal' = nxt
     /\ current_pcb' = pcb
     /\ user_page' = get_phys_addr(process_id[pcb])
     /\ video_page' = IF nxt = active_terminal THEN VideoFrame
                      ELSE TerminalVideoFrame(nxt)
     /\ cpu' = IF ctx = NoCtx THEN Ctx("Lost", pcb) ELSE ctx
     /\ fresh' = [[fresh EXCEPT ![current_pcb] = TRUE] EXCEPT ![pcb] = FALSE]
     /\ waits' = [t \in Terms |->
                    IF t = nxt \/ ~initialized_terminals[t] THEN 0
                    ELSE IF waits[t] < NumTerms THEN waits[t] + 1 ELSE waits[t]]
  /\ UNCHANGED << in_use, parent_process_id, process_id, esp_val,
                  active_pid, initialized_terminals, active_terminal,
                  memory, exception_in_child >>

(***************************************************************************)
(* keyboard_handler on Alt+F(t+1) -> terminal_switch(t).  The interrupted  *)
(* continuation is abandoned when a new terminal's shell is started from   *)
(* inside the handler.                                                     *)
(***************************************************************************)
TerminalSwitch(t) ==
  /\ Interruptible
  /\ SwitchWhileStarting \/ cpu.pc # "Spin"
  /\ active_terminal # t
  /\ active_terminal' = t
  /\ video_page' = IF t = scheduled_terminal THEN VideoFrame
                   ELSE TerminalVideoFrame(scheduled_terminal)
  /\ IF ~initialized_terminals[t]
     THEN cpu' = Ctx("ExecStart", t)
     ELSE UNCHANGED cpu
  /\ UNCHANGED << in_use, parent_process_id, process_id, esp_val,
                  scheduling_ctx, active_pid, initialized_terminals,
                  scheduled_terminal, first_swap, current_pcb, user_page,
                  memory, exception_in_child, fresh, waits >>

(***************************************************************************)
(* Initial state: boot has run execute("shell") for terminal 0 (pid 0,     *)
(* which reserves pids 1 and 2) and the shell is in user code; no PIT tick *)
(* has happened yet.  Every other field is the zero of BSS.                *)
(***************************************************************************)
Init ==
  /\ in_use = [p \in Pids |-> p < NumTerms]
  /\ parent_process_id = [p \in Pids |-> IF p = 0 THEN NULL ELSE 0]
  /\ process_id = [p \in Pids |-> 0]
  /\ esp_val = [p \in Pids |-> NULL]
  /\ scheduling_ctx = [p \in Pids |-> NoCtx]
  /\ active_pid = [t \in Terms |-> 0]
  /\ initialized_terminals = [t \in Terms |-> t = 0]
  /\ active_terminal = 0
  /\ scheduled_terminal = 0
  /\ first_swap = TRUE
  /\ current_pcb = 0
  /\ user_page = get_phys_addr(0)
  /\ video_page = VideoFrame
  /\ memory = [f \in {get_phys_addr(p) : p \in Pids} |->
                 IF f = get_phys_addr(0) THEN 0 ELSE NULL]
  /\ cpu = Ctx("User", 0)
  /\ exception_in_child = FALSE
  /\ fresh = [p \in Pids |-> FALSE]
  /\ waits = [t \in Terms |-> 0]

Kernel ==
  \/ ExecuteStart \/ ExecuteMapPage \/ ExecuteLoadImage
  \/ ExecuteCreatePcb \/ ExecuteSwitch \/ ExecuteSpin
  \/ HaltEntry \/ HaltTeardown

Next ==
  \/ SysExecute \/ SysHalt \/ UserFault
  \/ Kernel
  \/ Scheduler
  \/ \E t \in Terms : TerminalSwitch(t)

\* The CPU keeps executing kernel code (weak fairness).  The PIT raises IRQ0
\* every 50 ms and the PIC holds it pending until interrupts are enabled,
\* so a tick that is enabled again and again is eventually taken (strong
\* fairness).  User programs and the user at the keyboard are not obliged
\* to do anything.
Fairness == WF_vars(Kernel) /\ SF_vars(Scheduler)

Spec == Init /\ [][Next]_vars /\ Fairness

-----------------------------------------------------------------------------
(***************************************************************************)
(* Properties                                                              *)
(***************************************************************************)
Ctxs == [pc : PCs, pid : Pids \cup {NULL}, npid : Pids \cup {NULL},
         back : Pids \cup {NULL},
         ret : Statuses \cup {-1, NoRet, EXCEPTION_RET_VAL}, faulted : BOOLEAN]

TypeOK ==
  /\ in_use \in [Pids -> BOOLEAN]
  /\ parent_process_id \in [Pids -> Pids \cup {NULL}]
  /\ process_id \in [Pids -> Pids]
  /\ esp_val \in [Pids -> Pids \cup {NULL}]
  /\ scheduling_ctx \in [Pids -> Ctxs]
  /\ active_pid \in [Terms -> Pids]
  /\ initialized_terminals \in [Terms -> BOOLEAN]
  /\ active_terminal \in Terms /\ scheduled_terminal \in Terms
  /\ first_swap \in BOOLEAN
  /\ current_pcb \in Pids \cup {NULL}
  /\ user_page \in {get_phys_addr(p) : p \in Pids}
  /\ video_page \in {VideoFrame} \cup {TerminalVideoFrame(t) : t \in Terms}
  /\ memory \in [{get_phys_addr(p) : p \in Pids} -> Pids \cup {NULL}]
  /\ cpu \in Ctxs
  /\ exception_in_child \in BOOLEAN
  /\ fresh \in [Pids -> BOOLEAN]
  /\ waits \in [Terms -> 0 .. NumTerms]

\* Whenever user code of process p runs, the kernel agrees that p is
\* running: current_pcb is p's pcb, the user page maps p's frame, and p is
\* the foreground process of the scheduled terminal.  execute's
\* bookkeeping (parent, active_pid), halt's return into the cached
\* execute frame and the scheduler's remapping must all line up for this.
RunningProcessIsCurrent ==
  cpu.pc = "User" =>
    /\ current_pcb = cpu.pid
    /\ user_page = get_phys_addr(cpu.pid)
    /\ active_pid[scheduled_terminal] = cpu.pid

\* The page structures now: init_paging's, with the user page's directory
\* entry holding user_page and the video and vidmap page entries video_page.
PageStructures == PG!Remapped(user_page, video_page)

\* Whenever user code of process p runs, every page user mode can reach
\* lies in p's own 4 MB frame, or is the vidmap page and shows the
\* scheduled terminal's own text: the screen if that terminal is displayed,
\* else its off-screen buffer; and the address vidmap hands out reaches
\* that text.  This needs init_paging's permission bits,
\* execute/halt/scheduler's user-page writes and the scheduler's and
\* terminal_switch's video-page writes to agree.
UserMemoryIsolated ==
  LET base       == get_phys_addr(cpu.pid) * PAGING_OFFSET
      OwnScreen  == IF scheduled_terminal = active_terminal THEN VideoFrame
                    ELSE TerminalVideoFrame(scheduled_terminal)
  IN  cpu.pc = "User" =>
        /\ \A m \in PG!UserMappings(PageStructures) :
             \/ base <= m.pa /\ m.pa + m.size <= base + FOUR_MB
             \/ m.size = PAGING_OFFSET /\ m.pa = OwnScreen * PAGING_OFFSET
        /\ PG!Walk(PageStructures, PG!vidmap_address, TRUE) = OwnScreen * PAGING_OFFSET

\* The frame of every started process holds the image execute loaded for
\* it: no execute copies a program into another live process's memory.
ImageIntact ==
  \A p \in Pids :
    in_use[p] /\ (p >= NumTerms \/ initialized_terminals[p])
      => memory[get_phys_addr(p)] = p

\* The scheduler only resumes a continuation saved into that pcb by a tick
\* and not resumed since: a process continues where it was last stopped.
NoStaleResume ==
  [][Scheduler => current_pcb' = current_pcb \/ fresh[current_pcb']]_vars

\* halt reports status 256 exactly for a process that faulted: the global
\* exception_in_child flag set by exception_handler is consumed by the halt
\* of the process that faulted and by no other.
HaltReportsFault ==
  cpu.pc = "HaltTeardown" => (cpu.ret = EXCEPTION_RET_VAL <=> cpu.faulted)

\* Round robin: an initialized terminal is scheduled at least once in any
\* NumTerms consecutive ticks.
SchedulerVisitsAll ==
  \A t \in Terms : initialized_terminals[t] => waits[t] < NumTerms

\* Every started terminal gets the CPU again and again.
EveryTerminalRuns ==
  \A t \in Terms : []<>(~initialized_terminals[t] \/ scheduled_terminal = t)


(***************************************************************************)
(* Refinement: the foreground chain of a terminal is its active_pid        *)
(* followed back through parent_process_id to the base shell; the kernel   *)
(* implements ProcessTree with these chains as the stacks.                 *)
(***************************************************************************)
RECURSIVE Chain(_, _)
Chain(p, fuel) ==
  IF p < NumTerms \/ fuel = 0 THEN << p >>
  ELSE Append(Chain(parent_process_id[p], fuel - 1), p)

ForegroundChain(t) ==
  IF initialized_terminals[t] THEN Chain(active_pid[t], NumPids) ELSE << >>

PT == INSTANCE ProcessTree
        WITH stacks <- [t \in Terms |-> ForegroundChain(t)],
             opened <- initialized_terminals,
             sched  <- scheduled_terminal,
             shown  <- active_terminal

\* execute pushes onto the stack of the calling terminal a pid that no live
\* process holds, halt pops it, a base shell stays at the bottom, terminals
\* start when displayed and the scheduler rotates among started terminals.
ImplementsProcessTree == PT!Spec

=============================================================================
