\* No Backspace or Ctrl-L: Alt+F pressed while the scheduler is between
\* choosing the next terminal and remapping the video page.
CONSTANTS
  NumTerms = 2
  MAX_BUFFER_LENGTH = 3
  ScanCodes <- MCNoEditScanCodes
  UserPresses <- MCUserPresses
  BackgroundReads = FALSE
  SwitchDuringRead = FALSE
  TypeAhead = FALSE
  ReadsWithoutWrite = FALSE
SPECIFICATION Spec
CONSTRAINT BufferCap
INVARIANT ScreensHoldOwnText
