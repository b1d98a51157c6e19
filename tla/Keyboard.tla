------------------------------ MODULE Keyboard ------------------------------
(***************************************************************************)
(* The decoding half of keyboard_handler (devices/keyboard.c): the five    *)
(* modifier flags it keeps, and for each byte of PS/2 scan code set 1 the  *)
(* one call it makes: none (a modifier, or a code it ignores),             *)
(* clear_terminal (Ctrl-L), terminal_switch (Alt+F1..F3), TAB_SPACE        *)
(* spaces (Tab), or update_kb_buffer with the byte it looks up in one of   *)
(* its two 58-entry tables.  What those calls do is Terminal's.  The      *)
(* status port is taken to hold a byte whenever IRQ1 comes (line 176).    *)
(* Bytes are one-character strings, and the bytes with no printable       *)
(* string are named: NUL_ASCII, BACKSPACE_ASCII, the quotes and the       *)
(* backslash.                                                              *)
(***************************************************************************)
EXTENDS Integers, Sequences, Bitwise

\* keyboard.h
NUM_SCAN_CODES         == 58
UPPER_ROW_LETTER_START == 16    \* 0x10 .. 0x19: q .. p
UPPER_ROW_LETTER_END   == 25
MID_ROW_LETTER_START   == 30    \* 0x1E .. 0x26: a .. l
MID_ROW_LETTER_END     == 38
LOWER_ROW_LETTER_START == 44    \* 0x2C .. 0x32: z .. m
LOWER_ROW_LETTER_END   == 50
CAPS_LOCK         == 58         \* 0x3A
L_SHIFT_PRESS     == 42         \* 0x2A
L_SHIFT_RELEASE   == 170        \* 0xAA
R_SHIFT_PRESS     == 54         \* 0x36
R_SHIFT_RELEASE   == 182        \* 0xB6
CTRL_PRESS        == 29         \* 0x1D
CTRL_RELEASE      == 157        \* 0x9D
ALT_PRESS         == 56         \* 0x38
ALT_RELEASE       == 184        \* 0xB8
F1_PRESS          == 59         \* 0x3B; F2 and F3 follow
F3_PRESS          == 61
CAPS_LOCK_BITMASK == 1
L_PRESS           == 38         \* 0x26
TAB_PRESS         == 15         \* 0x0F

NUL_ASCII       == "NUL"
BACKSPACE_ASCII == "BS"
DQUOTE_ASCII    == "DQ"
BACKSLASH_ASCII == "BSL"
QUOTE_ASCII     == "SQ"
BACKQUOTE_ASCII == "BQ"
NEWLINE_ASCII   == "\n"
SPACE_ASCII     == " "
TAB_SPACE       == 4

\* The tables of lines 8-67 and 70-129, entry i at position i + 1.
lowercase_scancode_to_char ==
  << NUL_ASCII, NUL_ASCII, "1", "2", "3", "4", "5", "6", "7", "8", "9", "0",
     "-", "=", BACKSPACE_ASCII, NUL_ASCII, "q", "w", "e", "r", "t", "y", "u",
     "i", "o", "p", "[", "]", NEWLINE_ASCII, NUL_ASCII, "a", "s", "d", "f",
     "g", "h", "j", "k", "l", ";", QUOTE_ASCII, BACKQUOTE_ASCII, NUL_ASCII, BACKSLASH_ASCII, "z", "x", "c",
     "v", "b", "n", "m", ",", ".", "/", NUL_ASCII, NUL_ASCII, NUL_ASCII, " " >>

uppercase_scancode_to_char ==
  << NUL_ASCII, NUL_ASCII, "!", "@", "#", "$", "%", "^", "&", "*", "(", ")",
     "_", "+", BACKSPACE_ASCII, NUL_ASCII, "Q", "W", "E", "R", "T", "Y", "U",
     "I", "O", "P", "{", "}", NEWLINE_ASCII, NUL_ASCII, "A", "S", "D", "F",
     "G", "H", "J", "K", "L", ":", DQUOTE_ASCII, "~", NUL_ASCII, "|", "Z", "X", "C",
     "V", "B", "N", "M", "<", ">", "?", NUL_ASCII, NUL_ASCII, NUL_ASCII, " " >>

ASSUME Len(lowercase_scancode_to_char) = NUM_SCAN_CODES
ASSUME Len(uppercase_scancode_to_char) = NUM_SCAN_CODES

\* Every byte the tables hold.
Bytes == {lowercase_scancode_to_char[i] : i \in 1 .. NUM_SCAN_CODES}
           \cup {uppercase_scancode_to_char[i] : i \in 1 .. NUM_SCAN_CODES}

\* table[scan_code]: an index past the 58 entries reads whatever object
\* follows the array.
OUTSIDE_TABLE == "outside the table"
Lookup(table, scan_code) ==
  IF scan_code < NUM_SCAN_CODES THEN table[scan_code + 1] ELSE OUTSIDE_TABLE

VARIABLES
  caps_lock_flag, l_shift_flag, r_shift_flag, ctrl_flag, alt_flag,
  lookup          \* ghost: the table index the latest key read, or NO_LOOKUP

kb_vars == << caps_lock_flag, l_shift_flag, r_shift_flag, ctrl_flag, alt_flag, lookup >>

NO_LOOKUP == -1

\* keyboard_init (lines 143-147); enable_irq is Pic's.
KeyboardInit ==
  /\ caps_lock_flag = 0 /\ l_shift_flag = 0 /\ r_shift_flag = 0
  /\ ctrl_flag = 0 /\ alt_flag = 0
  /\ lookup = NO_LOOKUP

\* The codes lines 181-198 handle by changing a flag and nothing else.
ModifierCodes ==
  {CAPS_LOCK, L_SHIFT_PRESS, R_SHIFT_PRESS, L_SHIFT_RELEASE, R_SHIFT_RELEASE,
   CTRL_PRESS, CTRL_RELEASE, ALT_PRESS, ALT_RELEASE}

InRange(x, lo, hi) == lo <= x /\ x <= hi

\* Lines 227-229: the codes of the letter keys.
IsLetter(scan_code) ==
  \/ InRange(scan_code, UPPER_ROW_LETTER_START, UPPER_ROW_LETTER_END)
  \/ InRange(scan_code, MID_ROW_LETTER_START, MID_ROW_LETTER_END)
  \/ InRange(scan_code, LOWER_ROW_LETTER_START, LOWER_ROW_LETTER_END)

\* Lines 224-231: either shift selects the upper table; Caps Lock inverts
\* the choice for letters only.
use_caps(scan_code) ==
  LET shift == l_shift_flag | r_shift_flag
  IN  IF IsLetter(scan_code) THEN shift ^^ caps_lock_flag ELSE shift

\* Lines 234-238.
output_char(scan_code) ==
  IF use_caps(scan_code) # 0
  THEN Lookup(uppercase_scancode_to_char, scan_code)
  ELSE Lookup(lowercase_scancode_to_char, scan_code)

Call(name, arg) == [call |-> name, arg |-> arg]

\* Mutant: the table lookup without the range test of line 222.
KeyCall_no_range(scan_code) ==
  IF scan_code \in ModifierCodes THEN Call("none", 0)
  ELSE IF scan_code = L_PRESS /\ ctrl_flag # 0 THEN Call("clear_terminal", 0)
  ELSE IF alt_flag # 0 /\ InRange(scan_code, F1_PRESS, F3_PRESS)
       THEN Call("terminal_switch", scan_code - F1_PRESS)
  ELSE IF scan_code = TAB_PRESS THEN Call("tab", 0)
  ELSE Call("update_kb_buffer", output_char(scan_code))

\* The call the handler makes for a scan code, in the order of its
\* else-if chain (lines 181-243).  The table test is scan_code <=
\* NUM_SCAN_CODES, which lets 58 through; 58 is Caps Lock, handled first.
KeyCall(scan_code) ==
  IF scan_code \in ModifierCodes THEN Call("none", 0)
  ELSE IF scan_code = L_PRESS /\ ctrl_flag # 0 THEN Call("clear_terminal", 0)
  ELSE IF alt_flag # 0 /\ InRange(scan_code, F1_PRESS, F3_PRESS)
       THEN Call("terminal_switch", scan_code - F1_PRESS)
  ELSE IF scan_code = TAB_PRESS THEN Call("tab", 0)
  ELSE IF scan_code <= NUM_SCAN_CODES
       THEN Call("update_kb_buffer", output_char(scan_code))
  ELSE Call("none", 0)

\* A flag that one code sets and another clears (lines 183-198).
Latch(flag, scan_code, press, release) ==
  IF scan_code = press THEN 1 ELSE IF scan_code = release THEN 0 ELSE flag

\* The handler's effect on its own state for one scan code: the flags,
\* and the table index it reads (the ghost).
KeyboardDecode(scan_code) ==
  /\ caps_lock_flag' = IF scan_code = CAPS_LOCK
                       THEN caps_lock_flag ^^ CAPS_LOCK_BITMASK
                       ELSE caps_lock_flag
  /\ l_shift_flag' = Latch(l_shift_flag, scan_code, L_SHIFT_PRESS, L_SHIFT_RELEASE)
  /\ r_shift_flag' = Latch(r_shift_flag, scan_code, R_SHIFT_PRESS, R_SHIFT_RELEASE)
  /\ ctrl_flag' = Latch(ctrl_flag, scan_code, CTRL_PRESS, CTRL_RELEASE)
  /\ alt_flag' = Latch(alt_flag, scan_code, ALT_PRESS, ALT_RELEASE)
  /\ lookup' = IF KeyCall(scan_code).call = "update_kb_buffer"
               THEN scan_code ELSE NO_LOOKUP

KeyboardTypeOK ==
  /\ {caps_lock_flag, l_shift_flag, r_shift_flag, ctrl_flag, alt_flag} \subseteq {0, 1}
  /\ lookup \in {NO_LOOKUP} \cup 0 .. 255

\* keyboard_handler never reads past its 58-entry tables, whatever codes
\* arrive and whatever the flags: every key release (0x80 and up) and the
\* F-keys without Alt fail the test scan_code <= NUM_SCAN_CODES of line
\* 222, and the one code that test lets through off by one, 58, is Caps
\* Lock, which the else-if chain handles first (181).
NoTableOverrun == [][lookup' < NUM_SCAN_CODES]_kb_vars

=============================================================================
