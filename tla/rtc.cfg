\* One program reads and programs the RTC, at any frequency rtc_write is
\* given, while the other terminals' programs share the CPU and the PIT,
\* the keyboard and the RTC interrupt them.
CONSTANTS
  NumTerms = 2
  MaxFrames = 2
  RtcUsers = {0}
  Frequencies <- MCFewFrequencies
  NBytes = {4, 1}
SPECIFICATION Spec
INVARIANTS
  TypeOK
  InServiceHasHandler
PROPERTIES
  RtcReadWaitsForInterrupt
  RtcReadReturns
  EveryIrqServed
