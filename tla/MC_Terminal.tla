----------------------------- MODULE MC_Terminal -----------------------------
(***************************************************************************)
(* Terminal with one printable key, the space bar: lines differ by length  *)
(* and by the spaces a Tab inserts, which is all the properties compare.   *)
(* L is pressed only as Ctrl-L; F1 and F2 with or without Alt; every key   *)
(* but the modifiers is also released, and Caps Lock toggles.              *)
(***************************************************************************)
EXTENDS Terminal

\* Space, Tab, Enter, Backspace, Ctrl, L, Alt, F1, F2, Caps Lock, and the
\* release codes of space and Enter.
MCScanCodes == {57, 185, 15, 28, 156, 14, CTRL_PRESS, CTRL_RELEASE, L_PRESS,
                ALT_PRESS, ALT_RELEASE, F1_PRESS, F1_PRESS + 1, CAPS_LOCK}

\* The same without Backspace and Ctrl-L.
MCNoEditScanCodes == MCScanCodes \ {14, CTRL_PRESS, CTRL_RELEASE, L_PRESS}

\* The user types L only with Ctrl held, to clear the screen.
MCUserPresses(scan_code) == scan_code = L_PRESS => ctrl_flag = 1

\* States that differ only in screen, caps_lock_flag or lookup behave
\* alike: no guard reads screen or lookup, and caps_lock_flag only changes
\* the byte of a letter, which MCUserPresses never lets reach the table.
\* A run that checks no invariant of these may merge such states.
MCView == << keyboard_buffer, enter_flag, reset_flag, last_current_char, active_terminal,
            scheduled_terminal, video_page, pc, last_terminal, prev_call, entered,
            switching, l_shift_flag, r_shift_flag, ctrl_flag, alt_flag >>

=============================================================================
