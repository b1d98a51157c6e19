\* directory_read copies a whole name into a two-byte buffer.
CONSTANTS
  FD_ARRAY_LENGTH = 5
  Dentries <- MCDentries
  NumBytes <- MCNumBytes
  NameLength <- MCNameLength
  Names <- MCNames
  NBytes = {2}
  TermLineLengths = {1, 2}
  MaxPosition = 4
  Commands <- MCCommands
  Programs <- MCPrograms
SPECIFICATION Spec
CONSTRAINT PositionBound
INVARIANT ReadFitsBuffer
