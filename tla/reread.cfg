\* Reading twice without a write in between grows current_char past the buffer.
CONSTANTS
  NumTerms = 2
  MAX_BUFFER_LENGTH = 3
  ScanCodes <- MCScanCodes
  UserPresses <- MCUserPresses
  BackgroundReads = FALSE
  SwitchDuringRead = FALSE
  TypeAhead = FALSE
  ReadsWithoutWrite = TRUE
SPECIFICATION Spec
CONSTRAINT BufferCap
INVARIANT KeyboardBufferInBounds
