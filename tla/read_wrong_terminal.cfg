\* A shell reading on a hidden terminal, or a read across Alt+F, takes another terminal's line.
CONSTANTS
  NumTerms = 2
  MAX_BUFFER_LENGTH = 3
  ScanCodes <- MCScanCodes
  UserPresses <- MCUserPresses
  BackgroundReads = TRUE
  SwitchDuringRead = TRUE
  TypeAhead = FALSE
  ReadsWithoutWrite = FALSE
SPECIFICATION Spec
CONSTRAINT BufferCap
PROPERTY ReadReturnsEnteredLine
