# TLA+ models of HAL-OS

HAL-OS (`src/student-distrib`) is a small x86 teaching kernel. It runs three
terminals, each with a shell, on one CPU. A PIT tick rotates the CPU among the
terminals, and `execute`/`halt` start and end processes (at most 6 pcbs). The
models check seven parts of the kernel:

- the process lifecycle and terminal scheduling (`Kernel`, refined to `ProcessTree`);
- the page directory and tables, and the MMU's walk through them (`Paging`,
  instantiated by `Kernel`);
- the file-descriptor layer with the read-only file system, and the pcb's
  argument that `execute` parses and `getargs` returns (`FdDispatch`);
- the keyboard handler's scan-code decoding (`Keyboard`);
- the terminal line discipline with the keyboard interrupt (`Terminal`,
  which runs the calls `Keyboard` decodes);
- the 8259 PIC with the delivery of the PIT, keyboard and RTC interrupts
  onto the terminals' kernel stacks (`Pic`);
- the RTC driver (`Rtc`, on top of `Pic`).

These are the parts where interrupts, nested kernel stacks, shared
per-terminal state and global flags meet.

## The system and how its parts interact

| Part | Source | State | Operations |
|------|--------|-------|------------|
| Process lifecycle | `system_calls.c` `execute`, `halt`, `get_pid` | pcb array (`in_use`, `process_id`, `parent_process_id`, `esp_val/ebp_val`, `scheduling_esp/ebp_val`, fd array), `current_pcb` | execute, halt, base-shell restart |
| Terminal scheduler | `scheduler.c` `scheduler`, `pit.c` | `scheduled_terminal`, `first_swap`, `terminals[t].active_pid` | PIT tick: save context, rotate, remap, resume |
| Terminal switch | `scheduler.c` `terminal_switch`, `keyboard.c` (Alt+F1..F3) | `active_terminal`, `initialized_terminals` | show another terminal, lazily start its shell |
| Virtual memory | `paging.c`/`paging.h` `init_paging`, writes in the three files above | `directoryArray`, `tableArray`, `vmemTableArray`; at run time the user 4 MB page (`directoryArray[32]`), the video page (`tableArray[184]`) and the vidmap page (`vmemTableArray[10]`) | build at boot; remap on execute, halt, tick, switch, Backspace and Ctrl-L |
| FD dispatch | `system_calls.c` `open/read/write/close` | per-pcb fd array | dispatch through op tables |
| Keyboard | `keyboard.c` `keyboard_handler`, `keyboard_init` | `caps_lock_flag`, `l_shift_flag`, `r_shift_flag`, `ctrl_flag`, `alt_flag`; the two scan-code tables | decode a scan code into one call |
| Terminal line discipline | `terminal.c`, `keyboard.c` | per-terminal keyboard buffer, `enter_flag`, cursor | type, read line, write |
| RTC | `rtc.c` | interrupt flag, frequency | read (spin on flag), write (set rate, EOI) |
| 8259 PIC and IDT | `i8259.c`, `interrupts.c` `init_interrupts`, the handlers' `cli`/`sti`/`send_eoi` | `master_mask`, `slave_mask`; in the chip, IRR and ISR | mask at boot, acknowledge (specific EOI, cascade EOI for slave lines) |
| File system | `filesystem.c` | read-only boot block image | lookup dentry, read data, read directory |
| Exceptions | `interrupts.c` | `exception_in_child` | fault → `halt` with status 256 |

The parts interact as follows:

- **Scheduler.** A tick (`pit_handler`) calls `scheduler`. It saves the running
  continuation into `current_pcb`. It then picks the next initialized terminal,
  points the user page at that terminal's foreground process and the video page
  at the screen or at the terminal's off-screen buffer, and jumps into the
  continuation saved in that process's pcb.
- **Execute.** It runs on the caller's kernel stack. It stores that stack in the
  child's `esp_val`, then irets into the child.
- **Halt.** It jumps back into the stored frame, so the parent's `execute` call
  returns.
- **Alt+F.** Pressing Alt+F for a terminal that is not yet initialized calls
  `execute("shell")` from inside the keyboard interrupt, which never returns to
  the interrupted code.

Every IDT gate is a trap gate (`interrupts.c:120-138`), so interrupts stay
enabled inside system calls and inside the scheduler: `pit_handler` sends the
EOI and calls `scheduler` with interrupts on. Only halt's teardown (`cli` at
`system_calls.c:69`) and the keyboard handler mask them.

## The hard behaviours

- Interrupts inside `execute`. A tick between the page write and the image copy,
  or before `current_pcb` is switched, changes which memory and which pcb the
  rest of `execute` works on.
- Two terminal indices, `active_terminal` (shown) and `scheduled_terminal`
  (running), which the code mixes up. `execute` files the child under the
  displayed terminal, while `halt` gives the terminal back via the scheduled
  one.
- Continuations that are abandoned (terminal_switch) or resumed from a stale
  save.
- The first-shell wait loop, which waits for `active == scheduled` rather than
  for the new terminal.
- pid exhaustion, and base shells that restart in place.
- `terminal_read` works on the *displayed* terminal's buffer and flag at every
  step, with interrupts on. Keys, Alt+F and ticks can land between its steps.
- Global flags shared by every process: `exception_in_child` and
  `rtc_interrupt_flag`.
- Boundaries: buffer sizes, the uint32 loop bound of `read_data`, and the index
  bound of `read_dentry_by_index`.

## Modules

Each component has a module, and `MC_<Module>.tla` instantiates it for TLC.
`Terminal`, `Pic` and `Rtc` compose with `ProcessTree`: the PIT tick is `PT!Rotate`
and Alt+F is `PT!Show`, the abstraction that `Kernel` is checked to implement.
The models of the devices therefore rest on the scheduler behaviour that
`kernel_atomic` establishes.

### `Kernel.tla`: process lifecycle, scheduler, terminal switch

The CPU is one variable `cpu`: the running *continuation*. It holds a program
counter naming the next kernel step (or `"User"`), the process whose code runs,
and the locals a routine keeps across steps: execute's new pid `npid`, halt's
cached `back` frame and the return value `ret`.

- **Scheduler contexts.** `scheduling_ctx[p]` is the continuation the scheduler
  saved into pcb p, or `NoCtx` if none was ever saved. Resuming `NoCtx` gives
  `"Lost"`, which is undefined behaviour in the code: it jumps to a zeroed
  ebp/esp.
- **Halt return frame.** `esp_val[p]` is the pid whose `execute` frame halt
  returns into.
- **Memory.** `memory[frame]` records whose image was copied into each physical
  user frame.

| Action | Code |
|--------|------|
| `SysExecute` | `execute` 134-207: command validity (parse, dentry, magic); an invalid command returns -1 |
| `ExecuteStart` | 209-220: base-shell pid or `get_pid`, fail if none |
| `ExecuteMapPage` | 229-235: `directoryArray[32] = get_phys_addr(pid)` |
| `ExecuteLoadImage` | 236-237: copy the image through the user page |
| `ExecuteCreatePcb` | 241-291: `in_use`, pid 0 reserving pids 1 and 2, parent, `esp_val` |
| `ExecuteSwitch` | 293-304: `current_pcb`, `terminals[active].active_pid`, initialize the terminal |
| `ExecuteSpin` | 305-324: first-shell wait loop, then iret |
| `SysHalt` | `halt` 46-67: cache the frame and status (fd closes are FD dispatch) |
| `HaltTeardown` | 69-121: free the pcb, restart a base shell or return to the parent |
| `Scheduler` | `scheduler.c` 67-138, guarded as in `pit_handler` |
| `TerminalSwitch(t)` | `terminal_switch` 19-56 |
| `UserFault` | `exception_handler` (`interrupts.c` 146-153): set `exception_in_child`, enter halt |

**Environment constants.** Three constants choose which interrupt points and
which user behaviour are allowed, so that each hazard is isolated in a run of
its own:

- `KernelPreemptible`: may an interrupt arrive between the steps of execute
  (what the trap gates allow), or only in user code and wait loops (what spec
  section 5 claims)?
- `ShellCallsInBackground`: may a process of a terminal that is not displayed
  call execute, or exit a base shell? In the code this happens whenever a
  background program calls execute. `terminal_read` also reads the displayed
  terminal's line, so a background shell can get a command.
- `SwitchWhileStarting`: may the user press Alt+F while a new shell waits for
  its first tick?

**Init** is the state after boot (`kernel.c`, which is not in the repository)
has run `execute("shell")` for terminal 0. pid 0 reserves pids 1 and 2,
terminal 0 is the only initialized terminal, and no tick has happened yet.

### `Paging.tla`: page structures and the MMU walk

`Paging` is constant-level: it has no variables. `init_paging` is the record of
the three arrays as `paging.c` 13-180 leaves them. Each entry is a record of the
fields the MMU reads: `present`, `userSupervisor`, `pageSize` and
`offset_31_12`. `offset_31_12` is stored modulo 2^20, as the 20-bit bit-field
does. The init loops clear all 1024 entries of each array. Here an array is a
function over the entries the code sets afterwards, and any other index is one
of the cleared, not-present entries. `TableArrayAddr` and `VmemTableArrayAddr`
stand for where the linker put the two tables (4 KB aligned, inside the kernel's
4 MB page).

- `Remapped(user_frame, video_frame)`: the arrays after the only run-time writes
  the code makes. `directoryArray[32]` gets the user frame; `tableArray[184]` and
  `vmemTableArray[10]` both get the video frame.
- `Walk(s, va, user)`: the x86 two-level walk. A directory entry may map a 4 MB
  page (with reserved bits checked) or point at one of the two tables. User
  mode needs `userSupervisor` at each level.
- `UserMappings(s)`: every page user mode can reach, and where it lands.
- `vidmap_address`: the pointer `vidmap` returns (`system_calls.c` 572).

`Kernel` instantiates it as `PG` with `PageStructures ==
PG!Remapped(user_page, video_page)` and checks `UserMemoryIsolated` in
`kernel_atomic`.

### `ProcessTree.tla`: the abstract promise

Each terminal has a stack of pids: the base shell at the bottom and the
foreground process on top. The abstract actions are:

- `Spawn` pushes, onto the scheduled terminal's stack, a pid in 3..NumPids-1
  that is on no stack.
- `Exit` pops.
- `Open(t)` starts a terminal only while it is displayed.
- `Rotate` moves `sched` to the next opened terminal in cyclic order, under
  weak fairness.

`Kernel` maps each terminal's stack to its foreground chain. The chain is
`active_pid[t]` followed back through `parent_process_id` (operator `Chain`,
RECURSIVE). `opened`, `sched` and `shown` map to `initialized_terminals`,
`scheduled_terminal` and `active_terminal`. `ImplementsProcessTree == PT!Spec`
is checked as a property.

### Runs of `Kernel`

All runs use `MC_Kernel` with 3 terminals, 4 pids, the commands
`{"shell", "nofile"}` and exit status `{0}`.

| Run | Expect | Constants (Preempt / Background / SwitchWhileStarting) | Shows |
|-----|--------|------|-------|
| `kernel_atomic` | pass (441,250 states, ~70 s) | F / F / F | the properties below, including the refinement |
| `spin_switch` | violation of `RunningProcessIsCurrent` | F / F / T | Alt+F back while a new shell spins releases it in the wrong terminal |
| `preempt_image` | violation of `ImageIntact` | T / F / F | a tick between page map and copy overwrites the caller's image |
| `stale_resume` | violation of `NoStaleResume` | F / F / F | terminal_switch abandons the interrupted process; it is later resumed from a never-saved context |

Properties of `kernel_atomic`:

- `RunningProcessIsCurrent`: when user code of p runs, `current_pcb`, the user
  page and the scheduled terminal's foreground process all say p.
- `ImageIntact`: every live process's frame holds its own image.
- `SchedulerVisitsAll`: an initialized terminal waits fewer than 3 ticks.
- `EveryTerminalRuns` (liveness): every initialized terminal is scheduled
  infinitely often.
- `HaltReportsFault`: halt reports 256 exactly for the process that faulted.
- `UserMemoryIsolated`: while user code of p runs, every page user mode can
  reach through `init_paging`'s tables, as execute, halt, the scheduler and
  terminal_switch have left them, is in p's own 4 MB frame or is the page
  holding the scheduled terminal's own text (the screen if it is displayed,
  else its buffer). `vidmap`'s address reaches that page.
- `ImplementsProcessTree`: the refinement described above.

Each of these has a mutant in `PROJECT.json`: a plausible bug in the mapped
code that makes TLC report the property violated.

#### Bounds

- **Terminals.** 3, as in the code.
- **pids.** 4 rather than the code's 6: the three base shells plus one child
  slot. That is enough for a child, for exhaustion (a child's execute finds no
  pid), and for pid reuse after halt. With 5 pids the atomic run grows to 3.4M
  states and takes over 5 minutes. Nested children (a child of a child) are
  therefore not reached yet.
- **Commands.** One valid and one invalid command cover both outcomes of
  execute's validity checks.

#### Fairness

- `WF(Kernel)`: the CPU keeps running kernel code once it is in it.
- `SF(Scheduler)`: the PIT fires every tick, and the PIC holds IRQ0 pending
  until interrupts are enabled again, so a tick that keeps becoming possible is
  eventually taken.
- User programs and the keyboard get no fairness.

Under the full code model (all constants TRUE), `EveryTerminalRuns` fails
only if the user presses Alt+F forever. Each press restarts a shell start that
has not finished, and while `current_pcb` is NULL `pit_handler` skips the
scheduler. No code fairness rules that out, so liveness is checked only in the
atomic configuration.

### `FdDispatch.tla`: descriptors and the file system

This module models one process's `fd_array` (`system_calls.c`) over a
boot-block image given as constants. Its variables:

- `fd_array`: per descriptor, the table, inode, position and flags;
- `delivered`: a ghost, per descriptor, recording the byte offsets or entry
  indices handed out so far;
- `last`: the latest call and what it returned;
- `arg`: the pcb's `arg[]`, which `execute` fills and `getargs` reads;
- `command`: a ghost holding the command that started the program in the pcb.

`execute`'s parsing of its command is a set of operators over a sequence of
bytes:

- `arg_start_idx`: the first space, found with `SelectInSeq`;
- `filename`: the bytes before it;
- `local_arg`: the bytes after it, or nothing;
- `StoredArg`: the `strcpy` into `pcb->arg` at 272, skipped when
  `arg_start_idx` is not below `cmd_len`.

`halt` never clears `pcb->arg`, so what a skipped copy leaves is the previous
program's argument. `Init` lets that earlier content be any argument
(`Args`), since the memory of a pcb is not cleared at boot.

The file-system routines of `filesystem.c` are operators. Their inputs are the
constant image and the descriptor:

- `read_dentry_by_name` and `read_dentry_by_index`, with its bound
  `index > numDentries`. The bound accepts the unused slot after the last entry;
  `dentry_index_ok` is that bound alone.
- `find_dentry_by_inode_num`.
- `read_data`. Its copy loop is the RECURSIVE `CopyFrom`, whose loop bound
  `offset + length` wraps as a `uint32_t` (`LoopEnd`).
- `directory_read`.

Bytes are abstracted to their offsets, so "the bytes returned" is a sequence of
offsets (or entry indices for a directory).

| Action | Code |
|--------|------|
| `Open(name)` | `open` 452-509: name lookup, lowest free slot from 2, table by dentry type, the dentry's inode stored |
| `Read(f, n)` | `read` 334-398: -1 checks, fd 0 to the terminal, otherwise routing by the type of `find_dentry_by_inode_num(inode)`; the position moves by 1 for a directory and by the return value for a file |
| `Write(f, n)` | `write` 408-446: -1 checks, stdout (returns the string length, 0 above 1024 bytes), the RTC (`nbytes` must be 4) |
| `Close(f)` | `close` 515-540: refuses fds 0 and 1 and free slots |
| `Restart` | `halt` 62-67 closes everything, and an `execute` of a command that fits (147-152) and names an executable (182-201) stores the argument (272-274) and gives the fresh process stdin/stdout (245-282) |
| `GetArgs(n)` | `getargs` 546-557: -1 for `nbytes <= 0`, else 0 (the bytes copied are not state) |

The image in `MC_FdDispatch` is the real one in miniature:

- `"."` (directory, inode 0);
- `"rtc"` (type 0, sharing inode 0 as in the shipped image);
- a 3-byte file;
- a file whose name has exactly 32 characters.

Programs open these names, plus a 33-character name and a missing one. They
pass `nbytes` in {-1, 0, 2}. The programs run are one executable, `s`, with
three commands: `s`, `s x`, and `s ` (a space and nothing after it).

| Run | Expect | Shows |
|-----|--------|-------|
| `fd_dispatch` | pass (476,476 states, ~1 min) | `FileReadsAreSequential`: file reads return the file's bytes in order, once each, for any `nbytes` including negative. `DirectoryListsEachEntryOnce`: a directory lists each entry once and then returns 0. `StdioPinned`: fds 0 and 1 stay on the terminal and no other fd does. `ArgsOfOwnCommand`: a program finds its own command's argument in a reused pcb (spec 4.2, steps 2 and 8), and an empty one when its command has no space. The exception is a command whose first space is its last byte: 272 skips the copy, and the previous argument stays. This is hazard `system_calls.c:272`; a violation run for it would need a thirteenth run. |
| `read_overrun` | violation of `ReadFitsBuffer` | a directory read with `nbytes = 2` returns (and copies) a 3-byte name |

**Bounds.** Five fd slots: stdin, stdout and three files, so a directory, a
file and the RTC can be open at once. With 8 slots the state space exceeds 5
minutes. Positions are capped at 4 (`PositionBound`). That is past the end of
every file and of the 4-entry directory, so reads at and after the end are
reached. The three commands are enough: `s` after `s x` is the reuse that
must clear the argument, and `s ` is the case the property leaves out, kept
in the model so that nothing else depends on its absence.

### `Keyboard.tla`: decoding scan codes

`keyboard_handler` keeps five flags (`caps_lock_flag`, `l_shift_flag`,
`r_shift_flag`, `ctrl_flag`, `alt_flag`) and, for each byte it reads from the
data port, makes exactly one call. `Keyboard` is that decision, with the
flags as variables and the two 58-entry tables of lines 8-129 as sequences.
Bytes are one-character strings; the bytes without a printable string (NUL,
Backspace, the quotes, the backslash) are named constants.

| Definition | Code |
|------------|------|
| `KeyboardInit` | `keyboard_init` 143-147 |
| `KeyboardDecode(scan_code)` | the flag updates of the else-if chain, 181-198 (`Latch` for the press/release pairs, xor for Caps Lock) |
| `KeyCall(scan_code)` | the chain's order: a modifier, Ctrl-L (199), Alt+F1..F3 (202-216), Tab (217-220), and otherwise the range test `scan_code <= NUM_SCAN_CODES` (222) before the lookup |
| `use_caps`, `IsLetter`, `output_char` | 224-238: either Shift picks the upper table, and Caps Lock inverts that for letters only |
| `Lookup(table, scan_code)` | `table[scan_code]`; an index past the array is `OUTSIDE_TABLE` |

A ghost, `lookup`, records the table index the latest key read (or
`NO_LOOKUP`). `NoTableOverrun` is an action property: every step that reads a
table reads an index below 58. It is not obvious from the code, whose test at
222 is off by one (`<=`); the one code it lets through, 58, is Caps Lock,
which the chain handles first (181). Every release code (0x80 and up) and the
F-keys without Alt fail the test.

The handler's status-port test (176) is taken to hold: IRQ1 comes only with a
byte in the output buffer.

### `Terminal.tla`: line discipline and keyboard

The state is per terminal:

- `keyboard_buffer`: the bytes before `current_char`;
- `enter_flag`, `reset_flag` and `last_current_char`;
- the process's place in `terminal_read` (`pc`) and its local `last_terminal`;
- `prev_call`: whether the latest call was a read or a write;
- `entered`: a ghost holding the buffer at the moment Enter was pressed.

`active_terminal`, `scheduled_terminal` and the video page are shared, and so
are two more variables:

- `switching`: the scheduler has chosen the next terminal (line 103) but has
  not remapped the video page yet (113-122). A keyboard interrupt may arrive
  in between, because the PIT gate is a trap gate and the EOI has been sent.
  No process runs then.
- `screen`: for each physical text frame (the screen, and each terminal's
  buffer at `TERMINAL_VIDEO + 4 KB * t`), the terminal whose text it holds.
  `terminal_write` and the echo write through the video page, Ctrl-L clears
  the screen, and `terminal_switch`'s two memcpys save and load through the
  video page as it is mapped at that moment.

| Action | Code |
|--------|------|
| `Keyboard` | one key: the user presses a code of `ScanCodes` that `UserPresses` allows, and `KeyboardHandler` runs |
| `KeyboardHandler(scan_code)` | `keyboard_handler` 166-248: `Keyboard`'s `KeyboardDecode`, and the call `KeyCall` chose: nothing, `CtrlL`, `TerminalSwitch` (none if the target is already displayed), four spaces for Tab, or `update_kb_buffer` |
| `update_kb_buffer(input)` | `update_kb_buffer` 221-258: `Enter` for '\n', `Backspace` for 0x08, else `Key(input, 1)` |
| `Key(c, n)` | `update_kb_buffer` 250-257, n times (n = 4 for Tab, 217-220) |
| `Enter` | `update_kb_buffer` 223-226 |
| `Backspace` | 227-249, including the video-page remap at 244 |
| `CtrlL` | `clear_terminal` 264-284 |
| `TerminalSwitch(t)` | `PT!Show` plus `terminal_switch` 22-47: the conditional remaps and both memcpys |
| `SchedulerRotate` | `PT!Rotate`: `scheduler` 79-107 |
| `SchedulerRemap` | the video-page remap, 109-137 |
| `ReadStart` | `terminal_read` 63-68 |
| `Poll` | one pass of the wait loop, 71-90 |
| `Echo` | the echo spin, 92-101 |
| `Consume` | clear `enter_flag`, 105 |
| `Copy` | append '\n' and copy, 112-120 |
| `TerminalWrite` | `terminal_write` 141-214, for `nbytes <= MAX_INPUT_BUF_LEN`: clears the running terminal's buffer and `current_char` |
| `Init` | the zero-initialised `terminals` array (`terminal.h` 17-30); terminal 0 displayed and scheduled |

Five environment constants isolate the hazards:

- `BackgroundReads`: a program reads while its terminal is hidden.
- `SwitchDuringRead`: Alt+F is pressed during a read.
- `TypeAhead`: keys are typed while no read waits.
- `ReadsWithoutWrite`: a program reads twice with no write in between.

Two more constants say what the user types. `ScanCodes` is the set of codes
the keyboard sends, and `UserPresses(scan_code)` says whether the user may
press one in the current state.

The shell never reads twice without a write, because it prints a prompt first.

| Run | Expect | Shows |
|-----|--------|-------|
| `terminal_foreground` | pass (86,912 states, ~16 s) | with the four FALSE and Backspace and Ctrl-L among the keys: `NoTableOverrun`, `ReadReturnsEnteredLine` (a read returns its own terminal's line, exactly as entered, plus '\n'), `KeyboardBufferInBounds`, `OutputStaysOnOwnTerminal` (whenever a process may run, the video page is its own terminal's buffer, or the screen if that terminal is displayed) and `ReadCompletes` (an entered line is eventually returned) |
| `read_wrong_terminal` | violation of `ReadReturnsEnteredLine` | a hidden terminal's read, or a switch mid-read, returns another terminal's line |
| `reread` | violation of `KeyboardBufferInBounds` | `current_char` grows by one per read past the 129-byte array |
| `screen_swap` | violation of `ScreensHoldOwnText` | with no Backspace or Ctrl-L at all: an Alt+F after the tick chose the displayed terminal but before the remap finds `active == scheduled` and skips `terminal_switch`'s own remap. Both memcpys then go through the stale page, so the screen keeps the old terminal's text and that terminal's buffer receives the new one's |

**Bounds.** Two terminals are enough for every cross-terminal case, because
each needs one reader and one other terminal. `MAX_BUFFER_LENGTH` is 2 in
`terminal_foreground` and 3 in the violation runs, instead of 128. The full
check at `MAX_BUFFER_LENGTH - 1` and the one spare byte for '\n' behave the
same at any size, and with 2 the buffer is already full after one key. One
printable key, the space bar, is enough, because the properties compare
whole lines. `MC_Terminal`'s `MCScanCodes` holds it with Tab, Enter,
Backspace, Ctrl, L, Alt, F1, F2 and Caps Lock, and the release codes of the
space bar and Enter. A release code is above the table and must fail its
range test. `MCUserPresses` lets the user type L only with Ctrl held (Ctrl-L).
`screen_swap` uses `MCNoEditScanCodes`, the same set without Backspace, Ctrl and
L.
`terminal_foreground` uses `VIEW MCView`, which leaves out `screen`,
`caps_lock_flag` and `lookup`. No guard reads `screen` or `lookup`, and Caps
Lock only changes the byte of a letter, and L is the one letter typed,
always with Ctrl. So states that differ only in these have the same
futures. TLC checks an action property on every transition, not only on new
views, so `NoTableOverrun` is still checked on every step.
Without the view the run has 8M states and takes 22 minutes.

**Fairness.** `WF(Scheduler)`, where `Scheduler` is either half of the tick:
the PIT keeps firing, and a started tick finishes its remap. `SF(ReadStep(t))`: a
process runs whenever it is scheduled, which happens again and again, so a read
step that keeps becoming possible is taken. The user (keys, Alt+F) and the
programs' choices of call get no fairness.

### `Pic.tla`: the 8259 and interrupt delivery

The state:

- `irr`: the lines the PIC has latched and not yet sent to the CPU;
- `isr`: the lines in service, not yet acknowledged (a slave line comes with
  the master's cascade line 2);
- `frames`: each terminal's kernel stack as a sequence of interrupt frames
  `[irq, pc]`. The running terminal executes the top frame, and its program
  runs when the stack is empty. `pit_handler`'s `scheduler` leaves a stack with
  every frame on it and resumes another.
- `scheduled_terminal`, rotated as `PT!Rotate`.

The masks are a definition, not a variable. `masks` applies `enable_irq` (on
8-bit masks, `& (255 - 2^b)`) in the boot order: `i8259_init` unmasks line 2,
then `keyboard_init`, `init_pit` and `rtc_init` unmask lines 1, 0 and 8.
Nothing masks a line afterwards, because `keyboard_close` is never called.
Priority is the fully nested mode the ICWs set up: line 0 first, and a slave
line counts as line 2.

| Action | Code |
|--------|------|
| `Deliver(irq)` | the highest-priority unmasked line not held back by `isr`, taken when interrupts are on through the line's IDT gate onto the running stack: the gate must be present, and its handler stub (`HandlerLine`) gives the frame pushed |
| `Raise(PIT_LINE)`, `KeyPress` | the devices |
| `PitEoi`, `PitSchedule` | `pit_handler`: `send_eoi(PIT_LINE)` (32), then `scheduler` (33-35) |
| `KeyboardCli` | `keyboard_handler` 173-245 (the body is `Terminal`'s) |
| `HandlerSti(irq)`, `HandlerEoi(irq)` | `sti(); send_eoi(irq);` at `keyboard.c` 246-247 and `rtc.c` 67-69 |
| `HandlerReturn(irq)` | the iret |

The IDT is the definition `idt`: `handlers` fills vectors 0-19 with the
exception stubs, and vectors 0x80, 0x20, 0x21 and 0x28 with the system call
and the PIT, keyboard and RTC stubs (`init_interrupts` 66-97). A gate is
present iff it has a handler (102-109). Every branch of the gate-type code sets
`size = 1` and `reserved3 = 1`, a 32-bit trap gate (120-138). `Vector(irq)` is
the vector `i8259_init`'s ICW2 gives a line (0x20 + irq on the master, 0x28 +
irq - 8 on the slave). `InterruptsOn` asks `GateMasked`, which would hold a
handler's interrupts off until its `sti` if its gate were an interrupt gate.
Here none is, so interrupts are on in every handler until its own `cli`.
The keyboard handler's `clear_terminal` (Ctrl-L) does its own `sti`
(`terminal.c:279`) before the handler's EOI. This is harmless. The keyboard
line stays in service until that EOI, so no second keyboard interrupt can
nest, and no Alt+F can change `active_terminal` before the handler ends.
Lines 281-283 do run after that `sti`: a tick there can let the displayed
terminal's process poll before `reset_flag` is set. `Terminal`'s `CtrlL` is
one step, which leaves out only that delay: the poll sees the flag on a later
pass and echoes then. `current_line` and `char_in_line`, also written there,
only place text on the screen and are not modelled.

`send_eoi` is a function on `isr`. Its `irq >= 16` guard returns; for a slave
line it acknowledges the slave line and line 2 (`i8259.c` 86-88).

**Timing.** The model has no clock. Three assumptions stand in for the fact
that a handler takes microseconds, while ticks come at 20 Hz
(`PIT_20HZ`), keys at most at the typematic rate, and RTC interrupts at most
at 1024 Hz:

- a device does not raise its line again while its handler is on the running
  stack;
- no device raises its line while a latched line could be taken now;
- a key press comes while a program runs, not inside a handler.

A tick can still land anywhere interrupts are on, including between a
handler's `sti` and its `send_eoi`.

**Fairness.** `SF(Raise(PIT_LINE))`: the PIT keeps firing; the timing guard
only postpones it. `SF(Deliver(irq))`: the PIC keeps INTR raised for a latched
line. The RTC's fairness and the CPU's are stated in `Rtc`.

### `Rtc.tla`: the real-time clock

`Rtc` extends `Pic`. The state it adds:

- `rtc_interrupt_flag` and `rate` (the rate bits of register A);
- `rtc_armed`: register C has been read since the RTC last raised IRQ 8 (the
  RTC raises it again only then);
- each terminal's place: in user code, or in `rtc_read`'s wait loop;
- `ticked`: a ghost, per terminal, recording whether an interrupt came after
  that terminal's read cleared the flag.

| Action | Code |
|--------|------|
| `RtcFires` | the periodic interrupt `rtc_init` turns on (21-38) |
| `rtc_handler` | `rtc.c` 50-66, between `cli` and `sti`: read register C, set the flag |
| `RtcReadStart` | `rtc_read` 80-83: the flag clear |
| `RtcReadReturn` | 84-88: the wait loop seen by the running process (its stack empty) |
| `RtcWrite(t, n, f)` | `rtc_write` 95-119: `set_rtc_frequency` 146-194 (an invalid frequency leaves the rate), register C, `send_eoi(RTC_IRQ)` |
| `RtcOpen` | `rtc_open` → `rtc_init` (16-42) |

| Run | Expect | Shows |
|-----|--------|-------|
| `rtc` | pass (10,790 states, ~1 min) | two terminals, one RTC user, the PIT, the keyboard and the RTC interrupting. Properties: `RtcReadWaitsForInterrupt` (a read returns only after an interrupt later than its call); `RtcReadReturns` (every read returns once typing stops); `InServiceHasHandler` (every line in service has a handler on some stack that has still to send its EOI, and line 2 is in service exactly while line 8 is); `EveryIrqServed` (every raised line is taken once typing stops); and a valid rate (`TypeOK`) |
| `rtc_starve` | violation of `RtcReadReturns` | two users, one frame per stack (the steal needs no nesting): each read clears the flag the other waits for, so a fair schedule can starve one forever |

**Why "once typing stops".** A keyboard handler that a tick switches out
between its `sti` and its EOI keeps line 1 in service. Until its terminal runs
again, that holds back the keyboard and, through line 2, the RTC. If a key
comes in every round and each tick lands in that window, the RTC never gets
through. Only that exact coincidence, repeated forever, sustains it, and a
model without time cannot rule it out. Hence the premise `KeysStop`. Without
the keyboard, the earlier model of this driver checked `RtcReadReturns` with
no premise.

**Bounds.** There are two terminals, and at most two frames per stack. That is
enough for a tick to switch out a keyboard or RTC handler before its EOI, and
for one handler to nest in another. The frequencies are 2 (valid) and 3
(invalid). The rate matters to the driver only as zero or not zero, so one
valid frequency is enough. 2 Hz is the rate `rtc_open` also sets, which keeps
the liveness graph small. The invalid one takes the `default` case.
`NBytes` includes 1, the `-1` return.

**Fairness.** `SF(RtcFires)`: the RTC keeps firing while it is armed and its
rate is set. `SF(RtcReadReturn(t))` for the RTC users: the waiting process is
scheduled infinitely often, and is released if the flag is set at one of those
times. For every terminal t and depth k: the handler at depth k of t's stack,
if it can step again and again, does. The condition is by position, not by
line, because the same line can be on one stack twice: raised on one terminal
and delivered on another whose handler is still before its iret.

### Further cases the environment constants reach

The runs above are one per question. The cases below are reachable when an
environment constant is flipped. No run is kept for them, so `PROJECT.json`
records them as hazards, not as findings with traces:

- **`Kernel`, `ShellCallsInBackground = TRUE`.** A background shell's child is
  filed under the displayed terminal: `execute` reads
  `terminals[active_terminal]` at `system_calls.c:269` and `:297`.
- **`Kernel`, `KernelPreemptible = TRUE`.** An execute saved under the wrong pcb
  by a tick before `current_pcb` is set (line 294) is resumed and builds a
  second pcb in a live slot (`system_calls.c:214`, `:294`).
- **`Terminal`, `TypeAhead = TRUE`.** A key typed between `terminal_read`'s
  clear of `enter_flag` (105) and its copy joins the returned line. Also,
  `terminal_write` empties the buffer but leaves `enter_flag` set.
- **`Kernel`, `KernelPreemptible = TRUE`, `HaltReportsFault`.** A tick
  between a fault and halt's read of the global `exception_in_child` lets
  another process's halt report 256 (`interrupts.c:150`).
- **`Terminal`, `ScanCodes <- MCScanCodes`, `ScreensHoldOwnText`.** Ctrl-L or Backspace
  while the running terminal is displayed maps the video page to that
  terminal's buffer (`terminal.c:244`, `:276`). The next Alt+F, before a tick,
  swaps the screens wrongly in the same way as `screen_swap`, in two steps and
  with no race.
- **`FdDispatch`.** An RTC descriptor is routed as a directory read, because
  "rtc" shares inode 0 with "." (`system_calls.c:366`), and its position
  moves. Nothing reads that position, so no property tells this apart from
  routing by the table bound at open.

## Mutants

Every property of a passing run has a mutant in `PROJECT.json`. The mutant is a
plausible bug in the mapped code, defined just before the definition it
replaces, and it makes TLC report the property violated. Examples:

- the buffer-full check off by one (`Typed_full_late`);
- `terminal_write` clearing the displayed terminal's buffer
  (`TerminalWrite_active`);
- `set_rtc_frequency` falling through with rate 0 on an invalid frequency;
- `rtc_read` not clearing the flag;
- `send_eoi` leaving out the master's cascade EOI for a slave line
  (`send_eoi_slave_only`);
- `keyboard_handler` acknowledging line 0 instead of its own
  (`HandlerEoi_pit_line`);
- `close` accepting fd 1;
- `keyboard_handler` looking a code up without its range test
  (`KeyCall_no_range`);
- `execute` copying the argument only when the command has a space
  (`StoredArg_with_space`).

## Not modelled (yet), and the plan

Done in this order so far:

- the Kernel core and the ProcessTree refinement;
- exceptions;
- FD dispatch with the file system;
- the terminal line discipline;
- the RTC;
- the page structures, with memory isolation checked against Kernel;
- the scheduler split at its interrupt-enabled point in `Terminal`, with the
  screen contents that `terminal_switch` moves;
- the 8259 and interrupt delivery onto the terminals' stacks, under `Rtc`;
- the keyboard handler's decoding, composed into `Terminal`, and the IDT that
  `Pic` delivers through;
- `execute`'s argument parsing, `pcb->arg` across pcb reuse, and `getargs`,
  in `FdDispatch`.

Next, most important first:

1. Split `Kernel`'s scheduler too, at its other unmasked points (before
   `current_pcb` is set, line 106). A keyboard interrupt there that runs
   `terminal_switch`'s `execute` saves into the wrong pcb.
2. `vidmap`'s argument check (`system_calls.c:568`) accepts 132 MB exactly. A
   property over the pointers it accepts, checked with `Paging.Walk`, would
   show the store faulting.
3. Give `FdDispatch` one fd array per pcb and compose it with `Kernel`'s halt
   (closes) and execute (stdio set-up).
4. Add `terminal_write`'s `nbytes > 1024` early return to `Terminal`, and model
   the cursor and line layout (`current_line`, `char_in_line`), where
   `terminal_write` computes `nbytes - 1` and reads `buf[nbytes - 1]`.
5. Model RTC frequency per program (the one rate register is global).

Not modelled at all:

- `disable_irq` (its one caller, `keyboard_close`, is never called), and the
  ICW programming beyond the priority order and vectors it sets up. The IDT's
  segment selectors and DPLs: programs are not modelled raising vectors with
  `int`. The EOI and `sti` in `terminal_switch`
  (`scheduler.c` 51-52) before a new shell, since `Pic` starts with every
  shell running.
- `terminal_write`'s early return for `nbytes > MAX_INPUT_BUF_LEN`
  (`terminal.c` 137-139). It returns 0 before clearing the buffer, so a
  program whose only write between two reads is too long reads as in
  `reread`. No program here writes more than a line; `PROJECT.json` lists it
  as a hazard.
- `terminal_open` and `terminal_close`, which would reset every terminal's
  buffer and flags. They are never called: `open` binds no dentry type to the
  terminal table, and `close` refuses fds 0 and 1, also in `halt`'s loop.
- `set_handler` and `sigreturn`, which only return -1. `vidmap` only returns
  `Paging`'s `vidmap_address`.
- What `getargs` copies into the caller's buffer, and a check of the cases
  that `execute`'s argument handling gets wrong:
  - a command ending in a space skips the copy at `system_calls.c:272`, and
    the program gets the previous process's argument, because `halt` never
    clears `pcb->arg`;
  - `getargs`'s `strncpy` leaves the buffer unterminated when the argument
    fills it (554);
  - the filename loop has no bound (170).

  The parsing and `pcb->arg` are modelled in `FdDispatch`, but each of these
  would be a violation run of its own, and the twelve runs are given to the
  interleavings. `PROJECT.json` lists them as hazards. The same holds for
  the NUL that Escape and keypad * put into a line (`keyboard.c:241`); the
  Terminal instance types only the space bar among the printable keys.
- The TLB. Every page-entry write is followed by `flush_tlb` in the same
  routine, so translations are taken from the arrays directly. A keyboard
  interrupt between the scheduler's video-page write (119-120) and its flush
  (121) may see the old or the new translation. Those are the cases of the
  interrupt arriving before the remap (`switching`) or after it, which
  `Terminal` already covers.
- `tests.c`.
