\* Reads only on the displayed terminal, no Alt+F during a read, typing only
\* into a reading program, and a write between reads (as the shell does).
CONSTANTS
  NumTerms = 2
  MAX_BUFFER_LENGTH = 2
  ScanCodes <- MCScanCodes
  UserPresses <- MCUserPresses
  BackgroundReads = FALSE
  SwitchDuringRead = FALSE
  TypeAhead = FALSE
  ReadsWithoutWrite = FALSE
SPECIFICATION Spec
CONSTRAINT BufferCap
VIEW MCView
INVARIANTS
  TypeOK
  KeyboardBufferInBounds
  OutputStaysOnOwnTerminal
PROPERTIES
  ReadReturnsEnteredLine
  ReadCompletes
  NoTableOverrun
