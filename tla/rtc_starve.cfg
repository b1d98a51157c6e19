\* Two programs waiting on the RTC clear each other's interrupt.
CONSTANTS
  NumTerms = 2
  MaxFrames = 1
  RtcUsers = {0, 1}
  Frequencies <- MCFewFrequencies
  NBytes = {4, 1}
SPECIFICATION Spec
PROPERTY RtcReadReturns
