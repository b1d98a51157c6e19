----------------------------- MODULE ProcessTree -----------------------------
(***************************************************************************)
(* What the HAL-OS process layer promises, independent of how execute,     *)
(* halt and the scheduler achieve it (spec.md sections 4.2-4.4).  Every    *)
(* started terminal has a stack of processes: its base shell at the        *)
(* bottom, the foreground process on top.  A program started by execute    *)
(* is pushed on the stack of the terminal that called it and gets a pid    *)
(* no live process has; halt pops it again; a base shell is never popped   *)
(* (halting it restarts it in place).  A terminal is started the first     *)
(* time it is displayed, and the CPU rotates among the started terminals.  *)
(***************************************************************************)
EXTENDS Integers, Sequences

CONSTANTS NumTerms, NumPids

Terms == 0 .. NumTerms - 1
Pids  == 0 .. NumPids - 1

VARIABLES
  stacks,    \* terminal -> sequence of pids, base shell first
  opened,    \* terminal -> has it been started?
  sched,     \* terminal whose top process owns the CPU
  shown      \* terminal on the screen

pvars == << stacks, opened, sched, shown >>

\* Pids of all processes on some terminal's stack.
Live == UNION { { stacks[t][i] : i \in DOMAIN stacks[t] } : t \in Terms }

\* The started terminal that follows sched in cyclic order.
NextOpened ==
  LET dist(t) == (t - sched - 1 + NumTerms) % NumTerms
  IN  CHOOSE t \in Terms : opened[t] /\ \A u \in Terms : opened[u] => dist(t) <= dist(u)

Init ==
  /\ stacks = [t \in Terms |-> IF t = 0 THEN << 0 >> ELSE << >>]
  /\ opened = [t \in Terms |-> t = 0]
  /\ sched = 0
  /\ shown = 0

\* The user displays terminal t.
Show(t) ==
  /\ shown' = t
  /\ UNCHANGED << stacks, opened, sched >>

\* The displayed terminal's shell starts, as the terminal's base process.
Open(t) ==
  /\ t = shown /\ ~opened[t]
  /\ opened' = [opened EXCEPT ![t] = TRUE]
  /\ stacks' = [stacks EXCEPT ![t] = << t >>]
  /\ UNCHANGED << sched, shown >>

\* The running process starts a program with a pid no live process has.
Spawn ==
  \E p \in (Pids \ Terms) \ Live :
    /\ stacks' = [stacks EXCEPT ![sched] = Append(@, p)]
    /\ UNCHANGED << opened, sched, shown >>

\* The running program exits; its parent is in the foreground again.
Exit ==
  /\ Len(stacks[sched]) > 1
  /\ stacks' = [stacks EXCEPT ![sched] = SubSeq(@, 1, Len(@) - 1)]
  /\ UNCHANGED << opened, sched, shown >>

\* A timer tick hands the CPU to the next started terminal.
Rotate ==
  /\ NextOpened # sched
  /\ sched' = NextOpened
  /\ UNCHANGED << stacks, opened, shown >>

Next == (\E t \in Terms : Show(t) \/ Open(t)) \/ Spawn \/ Exit \/ Rotate

\* Every started terminal keeps getting the CPU.
Spec == Init /\ [][Next]_pvars /\ WF_pvars(Rotate)

=============================================================================
